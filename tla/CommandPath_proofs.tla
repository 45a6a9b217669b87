------------------------- MODULE CommandPath_proofs -------------------------
(***************************************************************************)
(* Theorems about the command path.  Its server takes only steps of        *)
(* Commands, so every invariant of Commands is at hand; what is added here *)
(* relates the table to what the gateway holds and what the plant saw.     *)
(***************************************************************************)
EXTENDS CommandPath, Commands_proofs, FiniteSetTheorems, WellFoundedInduction

-----------------------------------------------------------------------------
(* With any number of sessions.                                             *)

Message == [kind : {"ack"}, id : CommandIds, claim : Nat, body : {"acked", "failed"}]
      \cup [kind : {"readback"}, id : CommandIds, claim : Nat, body : {"match", "differ"}]

(* Batches are finite.                                                      *)
FiniteInv ==
  /\ IsFiniteSet(handed)
  /\ \A k \in Sessions : IsFiniteSet(session[k].out)

(* What the gateway holds, what it wrote and what it reports was handed     *)
(* out, by a poll that is answered.                                         *)
GatewayInv ==
  /\ inbox \in Seq(handed) /\ field \in Seq(handed)
  /\ \A m, n \in DOMAIN inbox : m < n => inbox[m].id < inbox[n].id
  /\ \A n \in DOMAIN inbox : inbox[n].claim <= answered
  /\ step # "write" => inbox # <<>>
  /\ posts \subseteq Message
  /\ \A m \in posts : \E p \in handed : p.id = m.id

PathTyped == PathTypeOK /\ FiniteInv /\ GatewayInv

(* A good word about a command was preceded by its write, wherever it is:   *)
(* in the gateway, on its way, read by a handler, or in the table.          *)
GoodWord(m) == m.kind = "readback" \/ m.body = "acked"

WordInv ==
  /\ step = "readback" \/ (step = "ack" /\ verdict = "acked") => inbox[1].id \in WrittenIds
  /\ \A m \in posts : GoodWord(m) => m.id \in WrittenIds
  /\ \A k \in Sessions, i \in CommandIds :
       session[k].plan[i] \in {"acked", "mismatch"} => i \in WrittenIds
  /\ AckedMeansWritten

(* A payload left before the lockout in force at its point, if there is one.*)
Unlocked(p) ==
  /\ p.at <= now
  /\ "loto" \in blocked[p.sensor] => p.at <= lockedSince[p.sensor]

LockoutInv ==
  /\ \A p \in handed : Unlocked(p)
  /\ \A k \in Sessions : \A p \in session[k].out : Unlocked(p)

-----------------------------------------------------------------------------
(* Where no update is lost.                                                 *)

(* The gateway may still come to write p.                                   *)
Untried(p) ==
  \/ p.claim > answered
  \/ \E n \in DOMAIN inbox : p = inbox[n] /\ (n = 1 => step = "write")

(* Session k loaded row i before it was given out.                          *)
Early(k, i) == session[k].read[i] \in {"pending_approval", "pending"}

(* Such a payload was not written and not reported on, and its row is       *)
(* "sent", unless the watchdog has run out of patience.  No handler moves   *)
(* the row, but for the watchdog and for those whose UPDATE comes too late. *)
UntriedInv ==
  \A p \in handed : Untried(p) =>
    /\ p.id \notin WrittenIds
    /\ \A m \in posts : m.id # p.id
    /\ commands[p.id].status \in {"sent", "unknown"}
    /\ \A k \in Sessions : session[k].plan[p.id] \in {"keep", "unknown"} \/ Early(k, p.id)
    /\ \/ commands[p.id].status = "unknown"
       \/ \E k \in Sessions : session[k].plan[p.id] = "unknown"
       => now - p.at > SentTimeout

OnceInv == UntriedInv /\ WrittenOnce

-----------------------------------------------------------------------------
(* The steps of the gateway, as far as the rest needs them.                 *)

Ack1(m) == m = [kind |-> "ack", id |-> inbox[1].id, claim |-> inbox[1].claim, body |-> verdict]
Readback1(m, body) ==
  m = [kind |-> "readback", id |-> inbox[1].id, claim |-> inbox[1].claim, body |-> body]

Tries ==
  /\ inbox # <<>> /\ step = "write" /\ step' = "ack"
  /\ inbox' = inbox /\ posts' = posts
  /\ \/ field' = field /\ verdict' = "failed"
     \/ /\ field' = Append(field, inbox[1]) /\ verdict' \in {"acked", "failed"}
        /\ now + Offset <= inbox[1].exp + Skew

Acks ==
  /\ inbox # <<>> /\ step = "ack"
  /\ field' = field /\ verdict' = verdict
  /\ posts' = posts \/ \E m : Ack1(m) /\ posts' = posts \cup {m}
  /\ \/ verdict = "acked" /\ step' = "readback" /\ inbox' = inbox
     \/ step' = "write" /\ inbox' = Tail(inbox)

Readbacks ==
  /\ inbox # <<>> /\ step = "readback"
  /\ field' = field /\ verdict' = verdict
  /\ posts' = posts \/ \E body \in {"match", "differ"} : \E m :
                         Readback1(m, body) /\ posts' = posts \cup {m}
  /\ step' = "write" /\ inbox' = Tail(inbox)

LEMMA Commanding ==
  ASSUME PathTyped, G!Commander
  PROVE  Tries \/ Acks \/ Readbacks
<1>1. \A p : ~G!Outdated(p) <=> ~(now + Offset > p.exp + Skew)
  BY DEF G!Outdated, G!Clock
<1>2. /\ now + Offset \in Int
      /\ inbox # <<>> => inbox[1].exp + Skew \in Int /\ Head(inbox) = inbox[1]
  BY PathAssumption DEF PathTyped, PathTypeOK, GatewayInv, TypeOK, Payload
<1>3. CASE G!RefuseOutdated \/ G!RefuseReplayed \/ G!RefuseWrite
  BY <1>3 DEF G!RefuseOutdated, G!RefuseReplayed, G!RefuseWrite, G!Admit, G!Fail, G!Waiting, Tries
<1>4. CASE G!Write
  BY <1>1, <1>2, <1>4 DEF G!Write, G!Admit, G!Waiting, G!Report, Tries
<1>5. CASE G!PostAck
  BY <1>2, <1>5 DEF G!PostAck, G!Post, G!Done, G!Waiting, Acks, Ack1
<1>6. CASE G!PostReadback
  <2>1. PICK body \in {"match", "differ"} :
          G!Post([kind |-> "readback", id |-> Head(inbox).id, claim |-> Head(inbox).claim,
                  body |-> body])
    BY <1>6 DEF G!PostReadback
  <2>2. posts' = posts \/ \E m : Readback1(m, body) /\ posts' = posts \cup {m}
    BY <1>2, <1>6, <2>1 DEF G!PostReadback, G!Post, G!Waiting, Readback1
  <2> QED
    BY <1>6, <2>2 DEF G!PostReadback, G!Done, G!Waiting, Readbacks
<1> QED
  BY <1>3, <1>4, <1>5, <1>6 DEF G!Commander

(* Every step is a step of the server, or leaves it alone.                  *)
LEMMA ServerStep == PathTyped /\ [PathNext]_path => [Next]_vars
<1> SUFFICES ASSUME PathTyped, [PathNext]_path PROVE [Next]_vars
  OBVIOUS
<1>1. CASE Alone
  BY <1>1 DEF Alone, Next, Server, Surroundings
<1>2. ASSUME NEW s \in Sensors, NEW c \in Conditions, Lock(s, c) PROVE Next
  BY <1>2 DEF Lock, Next, Surroundings
<1>3. ASSUME NEW k \in Sessions, Poll(k) PROVE Next
  BY <1>3 DEF Poll, Next, Server
<1>4. ASSUME NEW k \in Sessions, NEW m \in posts, Handle(k, m) PROVE Next
  <2>1. /\ m.id \in CommandIds
        /\ m.kind = "ack" => m.body \in {"acked", "failed"}
    BY DEF PathTyped, GatewayInv, Message
  <2> QED
    BY <1>4, <2>1 DEF Handle, Next, Calls
<1>5. CASE (\E m \in posts : Refuse(m)) \/ Deliver \/ Work \/ Restart \/ UNCHANGED path
  BY <1>5 DEF Refuse, Deliver, Work, Restart, path, server, vars, G!Restart
<1> QED
  BY <1>1, <1>2, <1>3, <1>4, <1>5 DEF PathNext, Meet

-----------------------------------------------------------------------------
(* The nonce cache.                                                         *)

(* Every nonempty set of naturals has a least member.                       *)
LEMMA LeastNatural ==
  ASSUME NEW T \in SUBSET Nat, T # {}
  PROVE  \E m \in T : \A n \in T : m <= n
<1> DEFINE R == OpToRel(<, Nat)
<1>1. \A m, n \in Nat : <<m, n>> \in R <=> m < n
  BY DEF OpToRel
<1> HIDE DEF R
<1>2. IsWellFoundedOn(R, Nat)
  BY NatLessThanWellFounded DEF R
<1>3. PICK m \in T : \A n \in T : ~ (<<n, m>> \in R)
  BY <1>2, WFMin
<1>4. \A n \in T : ~ (n < m)
  BY <1>1, <1>3
<1> QED
  BY <1>3, <1>4

(* Every finite nonempty set of naturals has a greatest one: a least        *)
(* counterexample without one of its members would have.                    *)
LEMMA GreatestNatural ==
  ASSUME NEW S \in SUBSET Nat, IsFiniteSet(S), S # {}
  PROVE  \E m \in S : \A n \in S : m >= n
<1> DEFINE HasMax(X) == \E m \in X : \A n \in X : m >= n
           Bad == {c \in Nat : \E X \in SUBSET Nat :
                     IsFiniteSet(X) /\ X # {} /\ Cardinality(X) = c /\ ~ HasMax(X)}
<1>1. ASSUME ~ HasMax(S) PROVE FALSE
  <2>1. Bad # {}
    BY <1>1, FS_CardinalityType
  <2>2. PICK c \in Bad : \A d \in Bad : c <= d
    BY <2>1, LeastNatural
  <2>3. PICK X \in SUBSET Nat : IsFiniteSet(X) /\ X # {} /\ Cardinality(X) = c /\ ~ HasMax(X)
    BY <2>2
  <2>4. PICK x \in X : TRUE
    BY <2>3
  <2> DEFINE Y == X \ {x}
  <2>5. IsFiniteSet(Y) /\ Cardinality(Y) = c - 1
    BY <2>3, FS_RemoveElement
  <2>6. Cardinality(Y) \in Nat
    BY <2>5, FS_CardinalityType
  <2>7. Y # {}
    BY <2>3
  <2>8. HasMax(Y)
    BY <2>2, <2>5, <2>6, <2>7
  <2>9. PICK m \in Y : \A n \in Y : m >= n
    BY <2>8
  <2>10. CASE x <= m
    BY <2>3, <2>9, <2>10
  <2>11. CASE x > m
    BY <2>3, <2>9, <2>11
  <2> QED
    BY <2>9, <2>10, <2>11
<1> QED
  BY <1>1

(* The operators of FiniteSets as Gateway sees them.                        *)
LEMMA SameFiniteSets ==
  \A S : G!Cardinality(S) = Cardinality(S) /\ (G!IsFiniteSet(S) <=> IsFiniteSet(S))
BY DEF G!Cardinality, Cardinality, G!IsFiniteSet, IsFiniteSet

SeenOK ==
  /\ IsFiniteSet(seen) /\ Cardinality(seen) <= CacheMax
  /\ \A e \in seen : e.nth \in Nat

(* A full cache loses an entry before it takes one.                         *)
LEMMA CacheBounded == SeenOK /\ (Work \/ Restart) => SeenOK'
<1> SUFFICES ASSUME SeenOK, Work \/ Restart PROVE SeenOK'
  OBVIOUS
<1> DEFINE R == G!Remembered
           K == G!Kept
<1>1. CacheMax \in Nat /\ CacheMax > 0
  BY PathAssumption
<1>2. R \in SUBSET seen
  BY DEF G!Remembered
<1>3. IsFiniteSet(R) /\ Cardinality(R) <= CacheMax /\ Cardinality(R) \in Nat
  <2>1. IsFiniteSet(R) /\ Cardinality(R) <= Cardinality(seen)
    BY <1>2, FS_Subset DEF SeenOK
  <2> QED
    BY <1>1, <2>1, FS_CardinalityType DEF SeenOK
<1>4. K \in SUBSET R
  BY DEF G!Kept
<1>5. IsFiniteSet(K)
  BY <1>3, <1>4, FS_Subset
<1>6. Cardinality(K) < CacheMax
  <2>1. CASE Cardinality(R) < CacheMax
    BY <1>1, <1>3, <2>1, SameFiniteSets DEF G!Kept
  <2>2. CASE Cardinality(R) >= CacheMax
    <3> DEFINE T == {e.nth : e \in R}
    <3>1. T # {} /\ T \in SUBSET Nat
      BY <1>1, <1>2, <1>3, <2>2, FS_EmptySet DEF SeenOK
    <3>2. PICK m \in T : \A n \in T : m <= n
      BY <3>1, LeastNatural
    <3>3. G!Oldest \in R
      <4>1. \E e \in R : \A f \in R : e.nth <= f.nth
        BY <3>2
      <4> QED
        BY <4>1 DEF G!Oldest
    <3>4. K = R \ {G!Oldest}
      BY <2>2, SameFiniteSets DEF G!Kept
    <3> HIDE DEF R, K
    <3>5. Cardinality(R \ {G!Oldest}) = Cardinality(R) - 1
      BY <1>3, <3>3, FS_RemoveElement
    <3> QED
      BY <1>1, <1>3, <3>4, <3>5
  <2> QED
    BY <1>1, <1>3, <2>1, <2>2
<1>7. ASSUME NEW p PROVE LET S == G!Remember(p) IN
        /\ IsFiniteSet(S) /\ Cardinality(S) <= CacheMax
        /\ \A e \in S : e.nth \in Nat
  <2> DEFINE T == {e.nth : e \in K} \cup {0}
             new == [nonce |-> G!Nonce(p), exp |-> p.exp, nth |-> 1 + G!Max(T)]
  <2>1. G!Remember(p) = K \cup {new}
    BY DEF G!Remember
  <2>2. IsFiniteSet(T) /\ T \in SUBSET Nat /\ T # {}
    <3> DEFINE f == [e \in K |-> e.nth]
    <3>1. f \in Surjection(K, {e.nth : e \in K})
      BY DEF Surjection
    <3>2. IsFiniteSet({e.nth : e \in K})
      BY <1>5, <3>1, FS_Surjection
    <3> QED
      BY <1>2, <1>4, <3>2, FS_AddElement DEF SeenOK
  <2>3. G!Max(T) \in Nat
    BY <2>2, GreatestNatural DEF G!Max
  <2>4. new.nth \in Nat
    BY <2>3
  <2> HIDE DEF new
  <2>5. IsFiniteSet(K \cup {new}) /\ Cardinality(K \cup {new}) <= Cardinality(K) + 1
    BY <1>5, FS_AddElement, FS_CardinalityType
  <2>6. Cardinality(K) \in Nat
    BY <1>5, FS_CardinalityType
  <2>7. Cardinality(K \cup {new}) \in Nat
    BY <2>5, FS_CardinalityType
  <2> QED
    BY <1>1, <1>2, <1>4, <1>6, <2>1, <2>4, <2>5, <2>6, <2>7 DEF SeenOK
<1>8. CASE UNCHANGED seen
  BY <1>8 DEF SeenOK
<1>9. CASE seen' = R
  BY <1>2, <1>3, <1>9 DEF SeenOK
<1>10. ASSUME NEW p, seen' = G!Remember(p) PROVE SeenOK'
  BY <1>7, <1>10 DEF SeenOK
<1>11. CASE seen' = {}
  BY <1>1, <1>11, FS_EmptySet DEF SeenOK
<1> HIDE DEF R, K
<1>12. CASE Work
  <2>1. UNCHANGED seen \/ seen' = R \/ \E p : seen' = G!Remember(p)
    BY <1>12 DEF R, Work, G!Commander, G!RefuseOutdated, G!RefuseReplayed, G!RefuseWrite, G!Write,
                 G!Admit, G!PostAck, G!PostReadback
  <2> QED
    BY <1>8, <1>9, <1>10, <2>1
<1>13. CASE Restart
  BY <1>11, <1>13 DEF Restart, G!Restart
<1> QED
  BY <1>12, <1>13

-----------------------------------------------------------------------------
(* Types of the path.                                                       *)

LEMMA FiniteStep == TypeOK /\ FiniteInv /\ [Next]_vars => FiniteInv'
<1> SUFFICES ASSUME TypeOK, FiniteInv, [Next]_vars PROVE FiniteInv'
  OBVIOUS
<1>1. ASSUME NEW k \in Sessions, NEW op, NEW plan, NEW user, NEW row, NEW out,
             Open(k, op, plan, user, row, out), IsFiniteSet(out)
      PROVE  FiniteInv'
  <2>1. session'[k].out = out /\ \A j \in Sessions \ {k} : session'[j] = session[j]
    BY <1>1 DEF Open, TypeOK
  <2>2. handed' = handed
    BY <1>1 DEF Open
  <2> QED
    BY <1>1, <2>1, <2>2 DEF FiniteInv
<1>2. IsFiniteSet({})
  BY FS_EmptySet
<1>3. CASE People \/ Calls \/ (\E k \in Sessions : Sweep(k))
  <2>1. CASE \E u \in Users, s \in Sensors, override \in BOOLEAN : Select(u, s, override)
    BY <2>1 DEF Select, FiniteInv
  <2>2. CASE \E k \in Sessions : \E op, plan, user, row : Open(k, op, plan, user, row, {})
    BY <1>1, <1>2, <2>2
  <2> QED
    BY <1>3, <2>1, <2>2 DEF People, Calls, Execute, ApproveExpires, Approve, Cancel, Ack, Readback,
                            Sweep
<1>4. ASSUME NEW k \in Sessions, Claim(k) PROVE FiniteInv'
  <2> DEFINE plan == [i \in CommandIds |-> IF i \in Ready THEN ClaimStatus(i) ELSE ExpirePlan[i]]
             S == {j \in Ready : ClaimStatus(j) = "sent"}
             copy(i) == [id |-> i, sensor |-> commands[i].sensor, claim |-> claims + 1,
                         exp |-> commands[i].expires, at |-> now]
             out == {copy(i) : i \in S}
             f == [i \in S |-> copy(i)]
  <2>1. Open(k, "claim", plan, NoUser, AbsentRow, out)
    BY <1>4 DEF Claim
  <2>2. IsFiniteSet(CommandIds)
    BY BoundsAssumption, FS_Interval DEF CommandIds
  <2>3. IsFiniteSet(S)
    BY <2>2, FS_Subset DEF Ready
  <2> HIDE DEF S, copy
  <2>4. f \in Surjection(S, out)
    BY DEF Surjection
  <2>5. IsFiniteSet(out)
    BY <2>3, <2>4, FS_Surjection
  <2> HIDE DEF plan, out
  <2> QED
    BY <1>1, <2>1, <2>5
<1>5. ASSUME NEW k \in Sessions, Commit(k) \/ Rollback(k) PROVE FiniteInv'
  <2>1. IsFiniteSet(handed \cup session[k].out)
    BY FS_Union DEF FiniteInv
  <2>2. handed' = handed \/ handed' = handed \cup session[k].out
    BY <1>5 DEF Commit, Rollback
  <2>3. \A j \in Sessions : session'[j] = Idle \/ session'[j] = session[j]
    BY <1>5 DEF Commit, Rollback, TypeOK
  <2>4. \A j \in Sessions : IsFiniteSet(session'[j].out)
    BY <1>2, <2>3 DEF FiniteInv, Idle
  <2> QED
    BY <2>1, <2>2, <2>4 DEF FiniteInv
<1>6. CASE Surroundings \/ UNCHANGED vars
  BY <1>6 DEF Surroundings, Tick, Obstruct, vars, FiniteInv
<1> QED
  BY <1>3, <1>4, <1>5, <1>6 DEF Next, Server

LEMMA ServerGrows ==
  ASSUME TypeOK, [Next]_vars
  PROVE  handed \subseteq handed' /\ claims' \in {claims, claims + 1} /\ now' \in {now, now + 1}
<1>1. claims' = claims + 1 \/ UNCHANGED claims
  BY DEF Next, People, Calls, Server, Surroundings, vars, Select, Execute, ApproveExpires, Approve,
         Cancel, Ack, Readback, Claim, Sweep, Rollback, Commit, Tick, Obstruct
<1>2. now' = now + 1 \/ UNCHANGED now
  BY DEF Next, People, Calls, Server, Surroundings, vars, Select, Execute, ApproveExpires, Approve,
         Cancel, Ack, Readback, Claim, Sweep, Open, Rollback, Commit, Tick, Obstruct
<1>3. handed \subseteq handed'
  BY OnlyCommitWrites DEF Commit
<1> QED
  BY <1>1, <1>2, <1>3

(* Where a step of the path leaves the gateway and the server's clock.      *)
GatewayRests == UNCHANGED <<inbox, step, verdict, seen, field>> /\ posts' \subseteq posts

LEMMA PathCases ==
  ASSUME PathTyped, [PathNext]_path
  PROVE  \/ GatewayRests /\ answered' = answered
         \/ Deliver
         \/ Tries /\ answered' = answered /\ UNCHANGED vars
         \/ Acks /\ answered' = answered /\ UNCHANGED vars
         \/ Readbacks /\ answered' = answered /\ UNCHANGED vars
         \/ Restart
<1>1. CASE Alone \/ UNCHANGED path \/ (\E s \in Sensors, c \in Conditions : Lock(s, c))
  BY <1>1 DEF Alone, Lock, path, gateway, GatewayRests
<1>2. CASE Meet
  BY <1>2 DEF Meet, Poll, Handle, Refuse, Taken, gateway, GatewayRests
<1>3. CASE Work
  BY <1>3, Commanding DEF Work, server, vars
<1> QED
  BY <1>1, <1>2, <1>3 DEF PathNext

(* The answer to a poll, as the gateway takes it.                           *)
LEMMA Delivery ==
  ASSUME PathTyped, Deliver
  PROVE  /\ inbox' \in Seq(handed)
         /\ \A n \in DOMAIN inbox' : inbox'[n].claim = claims
         /\ \A m, n \in DOMAIN inbox' : m < n => inbox'[m].id < inbox'[n].id
         /\ inbox = <<>> /\ answered < claims /\ answered' = claims
         /\ UNCHANGED <<step, verdict, seen, posts, field>> /\ UNCHANGED vars
         /\ UNCHANGED lockedSince
<1>1. Batch \subseteq handed /\ \A p \in Batch : p.claim = claims
  BY DEF Batch
<1>2. IsFiniteSet(Batch)
  BY <1>1, FS_Subset DEF PathTyped, FiniteInv
<1>3. G!Cardinality(Batch) \in Nat
  BY <1>2, FS_CardinalityType, SameFiniteSets
<1>4. inbox' \in [1..G!Cardinality(Batch) -> Batch]
  BY DEF Deliver, G!Receive
<1>5. inbox' \in Seq(handed) /\ \A n \in DOMAIN inbox' : inbox'[n] \in Batch
  BY <1>1, <1>3, <1>4
<1> QED
  BY <1>1, <1>5 DEF Deliver, G!Receive, G!Waiting, server, vars

LEMMA GatewayStep == PathTyped /\ [PathNext]_path => GatewayInv'
<1> SUFFICES ASSUME PathTyped, [PathNext]_path PROVE GatewayInv'
  OBVIOUS
<1>1. /\ TypeOK /\ GatewayInv /\ answered \in Nat /\ claims \in Nat /\ answered <= claims
      /\ verdict \in {"acked", "failed"}
  BY DEF PathTyped, PathTypeOK, TypeOK, G!GatewayTypeOK
<1>2. handed \subseteq handed' /\ handed \subseteq Payload /\ claims <= claims'
  BY <1>1, ServerStep, ServerGrows DEF TypeOK
<1>3. \A n \in DOMAIN inbox : inbox[n] \in handed /\ inbox[n] \in Payload
  BY <1>1, <1>2 DEF GatewayInv
<1>4. \A s : s \in Seq(handed) => s \in Seq(handed')
  BY <1>2
<1>5. CASE GatewayRests /\ answered' = answered
  BY <1>1, <1>2, <1>4, <1>5 DEF GatewayInv, GatewayRests
<1>6. CASE Deliver
  BY <1>1, <1>2, <1>4, <1>6, Delivery DEF GatewayInv, PathTyped, PathTypeOK, G!GatewayTypeOK
<1>7. CASE Tries /\ answered' = answered /\ UNCHANGED vars
  BY <1>1, <1>3, <1>4, <1>7 DEF Tries, GatewayInv, vars
<1>8. ASSUME posts' = posts \/ \E m \in Message : m.id = inbox[1].id /\ posts' = posts \cup {m},
             inbox # <<>>, field' = field, answered' = answered, UNCHANGED vars,
             \/ inbox' = inbox
             \/ inbox' = Tail(inbox) /\ step' = "write"
      PROVE  GatewayInv'
  <2>1. posts' \subseteq Message /\ \A m \in posts' : \E p \in handed : p.id = m.id
    BY <1>1, <1>3, <1>8 DEF GatewayInv
  <2>2. CASE inbox' = inbox
    BY <1>1, <1>8, <2>1, <2>2 DEF GatewayInv, vars
  <2>3. CASE inbox' = Tail(inbox) /\ step' = "write"
    <3>1. inbox' \in Seq(handed)
      BY <1>1, <1>8, <2>3 DEF GatewayInv
    <3>2. \A n \in DOMAIN inbox' : n + 1 \in DOMAIN inbox /\ n \in Nat /\ inbox'[n] = inbox[n + 1]
      BY <1>1, <1>8, <2>3 DEF GatewayInv
    <3>3. ASSUME NEW m \in DOMAIN inbox', NEW n \in DOMAIN inbox', m < n
          PROVE  inbox'[m].id < inbox'[n].id
      <4>1. m + 1 \in DOMAIN inbox /\ n + 1 \in DOMAIN inbox /\ m + 1 < n + 1
        BY <3>2, <3>3
      <4> QED
        BY <1>1, <3>2, <4>1 DEF GatewayInv
    <3>4. \A n \in DOMAIN inbox' : inbox'[n].claim <= answered
      BY <1>1, <3>2 DEF GatewayInv
    <3> QED
      BY <1>1, <1>8, <2>1, <2>3, <3>1, <3>3, <3>4 DEF GatewayInv, vars
  <2> QED
    BY <1>8, <2>2, <2>3
<1>9. inbox # <<>> => inbox[1].id \in CommandIds /\ inbox[1].claim \in Nat
  BY <1>1, <1>3 DEF GatewayInv, Payload
<1>10. CASE Acks /\ answered' = answered /\ UNCHANGED vars
  <2>1. \A m : Ack1(m) => m \in Message /\ m.id = inbox[1].id
    BY <1>1, <1>9, <1>10 DEF Ack1, Message, Acks
  <2> QED
    BY <1>8, <1>10, <2>1 DEF Acks
<1>11. CASE Readbacks /\ answered' = answered /\ UNCHANGED vars
  <2>1. \A m : \A body \in {"match", "differ"} : Readback1(m, body) => m \in Message /\ m.id = inbox[1].id
    BY <1>9, <1>11 DEF Readback1, Message, Readbacks
  <2> QED
    BY <1>8, <1>11, <2>1 DEF Readbacks
<1>12. CASE Restart
  BY <1>1, <1>12 DEF Restart, G!Restart, GatewayInv, server
<1> QED
  BY <1>5, <1>6, <1>7, <1>10, <1>11, <1>12, PathCases

LEMMA PathTypedInit == PathInit => PathTyped
<1> SUFFICES ASSUME PathInit PROVE PathTyped
  OBVIOUS
<1>1. IsFiniteSet({}) /\ Cardinality({}) = 0
  BY FS_EmptySet
<1>2. /\ inbox = <<>> /\ field = <<>> /\ step = "write" /\ verdict = "failed" /\ seen = {}
      /\ posts = {} /\ handed = {} /\ answered = 0 /\ claims = 0 /\ now = 0
      /\ lockedSince = [s \in Sensors |-> 0]
      /\ \A k \in Sessions : session[k].out = {}
  BY DEF PathInit, Init, G!GatewayInit, Idle
<1>3. TypeOK
  BY TypeInit DEF PathInit
<1>4. G!GatewayTypeOK
  BY <1>1, <1>2, SameFiniteSets, PathAssumption DEF G!GatewayTypeOK, G!ToSet
<1>5. FiniteInv
  BY <1>1, <1>2 DEF FiniteInv
<1>6. GatewayInv
  BY <1>2 DEF GatewayInv
<1> QED
  BY <1>2, <1>3, <1>4, <1>5, <1>6 DEF PathTyped, PathTypeOK

LEMMA PathTypedStep == PathTyped /\ [PathNext]_path => PathTyped'
<1> SUFFICES ASSUME PathTyped, [PathNext]_path PROVE PathTyped'
  OBVIOUS
<1>1. [Next]_vars /\ TypeOK /\ FiniteInv
  BY ServerStep DEF PathTyped, PathTypeOK
<1>2. TypeOK' /\ FiniteInv' /\ GatewayInv'
  BY <1>1, TypeStep, FiniteStep, GatewayStep
<1>3. claims' \in {claims, claims + 1} /\ now' \in {now, now + 1} /\ now \in Nat /\ claims \in Nat
  BY <1>1, ServerGrows DEF TypeOK
<1>4. answered' \in 0..claims'
  BY <1>3, PathCases, Delivery DEF Restart, PathTyped, PathTypeOK, server
<1>5. lockedSince' \in [Sensors -> 0..now']
  <2>1. \/ UNCHANGED lockedSince
        \/ \E s \in Sensors, c \in Conditions : Lock(s, c)
    BY DEF PathNext, Alone, Meet, Poll, Handle, Refuse, Deliver, Work, Restart, path
  <2> QED
    BY <1>3, <2>1 DEF Lock, PathTyped, PathTypeOK
<1>6. SeenOK'
  <2>1. SeenOK
    BY SameFiniteSets DEF PathTyped, PathTypeOK, G!GatewayTypeOK, SeenOK
  <2>2. Work \/ Restart \/ UNCHANGED seen
    BY DEF PathNext, Alone, Lock, Meet, Poll, Handle, Refuse, Taken, Deliver, G!Receive, path, gateway
  <2> QED
    BY <2>1, <2>2, CacheBounded DEF SeenOK
<1>7. step' \in {"write", "ack", "readback"} /\ verdict' \in {"acked", "failed"}
  BY PathCases, Delivery
  DEF GatewayRests, Tries, Acks, Readbacks, Restart, G!Restart, PathTyped, PathTypeOK,
      G!GatewayTypeOK
<1>8. G!GatewayTypeOK'
  <2>1. \A p \in G!ToSet(inbox)' \cup G!ToSet(field)' : p.sensor \in Sensors
    BY <1>2 DEF G!ToSet, GatewayInv, TypeOK, Payload
  <2>2. \A m \in posts' : m.kind \in {"ack", "readback"}
    BY <1>2 DEF GatewayInv, Message
  <2> QED
    BY <1>6, <1>7, <2>1, <2>2, SameFiniteSets DEF G!GatewayTypeOK, SeenOK
<1> QED
  BY <1>2, <1>4, <1>5, <1>8 DEF PathTyped, PathTypeOK

(* Every variable of the path keeps its type, and the nonce cache its size. *)
THEOREM PathTypeCorrect == PathSpec => []PathTypeOK
<1>1. PathTyped => PathTypeOK
  BY DEF PathTyped
<1> QED
  BY <1>1, PathTypedInit, PathTypedStep, PTL DEF PathSpec

(* The server in the path behaves as Commands: what is proved of Spec holds *)
(* of PathSpec.                                                             *)
THEOREM PathIsServed == PathSpec => Spec
<1>1. PathInit => Init
  BY DEF PathInit
<1> QED
  BY <1>1, PathTypedInit, PathTypedStep, ServerStep, PTL DEF PathSpec, Spec

-----------------------------------------------------------------------------
(* Where a plan for row i can come from: the row waits and its handler      *)
(* moves it, the watchdog gives up on it, or the gateway reported on it.    *)

Planned(new, i) ==
  \/ new = "keep"
  \/ /\ commands[i].status \in {"pending", "pending_approval"}
     /\ new \in {"expired", "pending", "cancelled", "sent"}
  \/ Unanswered(i) /\ new = "unknown"
  \/ \E m \in posts : m.id = i /\ (new \in {"acked", "mismatch"} => GoodWord(m))

LEMMA PlanSources ==
  ASSUME PathTyped, [PathNext]_path, NEW k \in Sessions, NEW i \in CommandIds
  PROVE  session'[k] = session[k] \/ Planned(session'[k].plan[i], i)
<1> DEFINE Goal == session'[k] = session[k] \/ Planned(session'[k].plan[i], i)
<1>1. ASSUME NEW j \in Sessions, NEW op, NEW plan, NEW user, NEW row, NEW out,
             Open(j, op, plan, user, row, out), Planned(plan[i], i)
      PROVE  Goal
  <2>1. session'[k] = session[k] \/ session'[k].plan = plan
    BY <1>1 DEF Open, PathTyped, PathTypeOK, TypeOK
  <2> QED
    BY <1>1, <2>1
<1>2. Planned(ExpirePlan[i], i)
  BY ExpirePlanEntries DEF Planned
<1>3. ASSUME NEW n \in CommandIds, NEW new \in CommandStatus, Planned(new, n)
      PROVE  Planned(SetStatus(n, new)[i], i)
  BY <1>3, SetStatusEntries DEF Planned
<1>4. ASSUME UNCHANGED session PROVE Goal
  BY <1>4
<1>5. ASSUME NEW u \in Users, NEW s \in Sensors, NEW override \in BOOLEAN, Select(u, s, override)
      PROVE  Goal
  BY <1>5 DEF Select
<1>6. ASSUME NEW j \in Sessions, NEW t \in tokens, Execute(j, t) PROVE Goal
  BY <1>1, <1>2, <1>6 DEF Execute
<1>7. ASSUME NEW j \in Sessions, NEW u \in Users, NEW n \in CommandIds,
             ApproveExpires(j, u, n) \/ Approve(j, u, n) \/ Cancel(j, u, n)
      PROVE  Goal
  <2>1. CASE ApproveExpires(j, u, n)
    BY <1>1, <1>2, <2>1 DEF ApproveExpires
  <2>2. CASE Approve(j, u, n)
    <3>1. commands[n].status = "pending_approval"
      BY <2>2, Transitions DEF Approve
    <3>2. Planned(SetStatus(n, "pending")[i], i)
      BY <1>3, <3>1 DEF Planned, CommandStatus
    <3> QED
      BY <1>1, <2>2, <3>2 DEF Approve
  <2>3. CASE Cancel(j, u, n)
    <3>1. Planned(SetStatus(n, "cancelled")[i], i)
      BY <1>3, <2>3 DEF Cancel, Planned, CommandStatus
    <3> QED
      BY <1>1, <2>3, <3>1 DEF Cancel
  <2> QED
    BY <1>7, <2>1, <2>2, <2>3
<1>8. ASSUME NEW j \in Sessions, Claim(j) PROVE Goal
  <2> DEFINE plan == [n \in CommandIds |-> IF n \in Ready THEN ClaimStatus(n) ELSE ExpirePlan[n]]
  <2>1. Planned(plan[i], i)
    BY <1>2 DEF Ready, ClaimStatus, Planned
  <2>2. \E out : Open(j, "claim", plan, NoUser, AbsentRow, out)
    BY <1>8 DEF Claim
  <2> HIDE DEF plan, Goal
  <2> QED
    BY <1>1, <2>1, <2>2
<1>9. ASSUME NEW j \in Sessions, Sweep(j) PROVE Goal
  <2> DEFINE plan == [n \in CommandIds |-> IF Unanswered(n) THEN "unknown" ELSE ExpirePlan[n]]
  <2>1. Planned(plan[i], i)
    BY <1>2 DEF Planned
  <2>2. Open(j, "sweep", plan, NoUser, AbsentRow, {})
    BY <1>9 DEF Sweep
  <2> HIDE DEF plan, Goal
  <2> QED
    BY <1>1, <2>1, <2>2
<1>10. ASSUME NEW j \in Sessions, Commit(j) \/ Rollback(j) PROVE Goal
  <2>1. session'[k] = session[k] \/ session'[k] = Idle
    BY <1>10 DEF Commit, Rollback, PathTyped, PathTypeOK, TypeOK
  <2> QED
    BY <2>1 DEF Idle, NoPlan, Planned
<1>11. ASSUME NEW j \in Sessions, NEW m \in posts, Handle(j, m) PROVE Goal
  <2>1. m \in Message
    BY DEF PathTyped, GatewayInv
  <2>2. CASE m.kind = "ack"
    <3>1. m.id \in CommandIds /\ m.body \in CommandStatus /\ Planned(m.body, m.id)
      BY <2>1, <2>2 DEF Message, CommandStatus, Planned, GoodWord
    <3> QED
      BY <1>1, <1>3, <1>11, <2>2, <3>1 DEF Handle, Ack
  <2>3. CASE m.kind # "ack"
    <3> DEFINE new == IF m.body = "match" THEN "acked" ELSE "mismatch"
    <3>1. m.id \in CommandIds /\ new \in CommandStatus /\ Planned(new, m.id)
      BY <2>1, <2>3 DEF Message, CommandStatus, Planned, GoodWord
    <3>2. Open(j, "readback", SetStatus(m.id, new), NoUser, AbsentRow, {})
      BY <1>11, <2>3 DEF Handle, Readback
    <3> HIDE DEF new, Goal
    <3> QED
      BY <1>1, <1>3, <3>1, <3>2
  <2> QED
    BY <2>2, <2>3
<1>12. ASSUME Tick PROVE Goal
  BY <1>12 DEF Tick
<1> HIDE DEF Goal
<1>13. ASSUME Alone PROVE Goal
  BY <1>13, <1>5, <1>6, <1>7, <1>9, <1>10, <1>12 DEF Alone, People
<1>14. ASSUME Meet PROVE Goal
  <2>1. CASE (\E m \in posts : Refuse(m)) \/ Deliver
    BY <2>1, <1>4 DEF Refuse, Deliver, server
  <2> QED
    BY <1>14, <2>1, <1>8, <1>11 DEF Meet, Poll
<1>15. ASSUME \/ \E s \in Sensors, c \in Conditions : Lock(s, c)
              \/ Work \/ Restart \/ UNCHANGED path
       PROVE  Goal
  BY <1>15, <1>4 DEF Lock, Obstruct, Work, Restart, path, vars, server
<1>16. Goal
  BY <1>13, <1>14, <1>15 DEF PathNext
<1> QED
  BY <1>16 DEF Goal

(* The plant's record only grows.                                           *)
LEMMA WrittenGrows ==
  ASSUME PathTyped, [PathNext]_path
  PROVE  \/ field' = field /\ WrittenIds' = WrittenIds
         \/ /\ Tries /\ field' = Append(field, inbox[1])
            /\ WrittenIds' = WrittenIds \cup {inbox[1].id}
<1>1. field \in Seq(handed)
  BY DEF PathTyped, GatewayInv
<1>2. \/ field' = field
      \/ Tries /\ field' = Append(field, inbox[1])
  BY PathCases, Delivery DEF GatewayRests, Tries, Acks, Readbacks, Restart, G!Restart
<1>3. ASSUME field' = Append(field, inbox[1])
      PROVE  WrittenIds' = WrittenIds \cup {inbox[1].id}
  <2>1. DOMAIN field' = DOMAIN field \cup {Len(field) + 1}
    BY <1>1, <1>3
  <2>2. field'[Len(field) + 1] = inbox[1] /\ \A n \in DOMAIN field : field'[n] = field[n]
    BY <1>1, <1>3
  <2> QED
    BY <2>1, <2>2 DEF WrittenIds
<1> QED
  BY <1>2, <1>3 DEF WrittenIds

(* Where the status of row i can come from.                                 *)
LEMMA StatusSources ==
  ASSUME TypeOK, TwoPersonInv, [Next]_vars, NEW i \in CommandIds
  PROVE  \/ commands'[i].status = commands[i].status
         \/ /\ commands[i].status = "absent"
            /\ commands'[i].status \in {"pending", "pending_approval"}
         \/ \E k \in Sessions : /\ Commit(k) /\ session[k].plan[i] # "keep"
                                /\ commands'[i].status = session[k].plan[i]
<1>1. ASSUME NEW k \in Sessions, Commit(k)
      PROVE  \/ commands'[i].status = commands[i].status
             \/ /\ commands[i].status = "absent"
                /\ commands'[i].status \in {"pending", "pending_approval"}
             \/ /\ session[k].plan[i] # "keep"
                /\ commands'[i].status = session[k].plan[i]
  <2>1. PICK n : Inserts(k, n) /\ \A j \in CommandIds \ {n} : Follows(k, j)
    BY <1>1, CommitEffect
  <2> QED
    BY <2>1 DEF Inserts, Follows, TwoPersonInv, InsertsWait
<1> QED
  BY <1>1, OnlyCommitWrites

-----------------------------------------------------------------------------
(* The theorems that hold whatever handlers interleave.                     *)

LEMMA WordStep == PathTyped /\ TwoPersonInv /\ WordInv /\ [PathNext]_path => WordInv'
<1> SUFFICES ASSUME PathTyped, TwoPersonInv, WordInv, [PathNext]_path PROVE WordInv'
  OBVIOUS
<1>1. [Next]_vars /\ TypeOK /\ inbox \in Seq(handed) /\ field \in Seq(handed)
  BY ServerStep DEF PathTyped, PathTypeOK, GatewayInv
<1>2. WrittenIds \subseteq WrittenIds'
  BY WrittenGrows
<1>3. ASSUME NEW k \in Sessions, NEW i \in CommandIds,
             session'[k].plan[i] \in {"acked", "mismatch"}
      PROVE  i \in WrittenIds
  <2>1. CASE session'[k].plan[i] = session[k].plan[i]
    BY <1>3, <2>1 DEF WordInv
  <2>2. CASE Planned(session'[k].plan[i], i)
    <3> DEFINE new == session'[k].plan[i]
    <3>1. \E m \in posts : m.id = i /\ (new \in {"acked", "mismatch"} => GoodWord(m))
      BY <1>3, <2>2 DEF Planned
    <3> QED
      BY <1>3, <3>1 DEF WordInv
  <2> QED
    BY <2>1, <2>2, PlanSources
<1>4. ASSUME NEW i \in CommandIds, commands'[i].status \in {"acked", "mismatch"}
      PROVE  i \in WrittenIds
  BY <1>1, <1>4, StatusSources DEF WordInv, AckedMeansWritten
<1>5. AckedMeansWritten'
  BY <1>2, <1>4 DEF AckedMeansWritten
<1>6. \A k \in Sessions, i \in CommandIds :
        session'[k].plan[i] \in {"acked", "mismatch"} => i \in WrittenIds'
  BY <1>2, <1>3
<1> DEFINE Word == step = "readback" \/ (step = "ack" /\ verdict = "acked") => inbox[1].id \in WrittenIds
           Words == \A m \in posts : GoodWord(m) => m.id \in WrittenIds
           Goal == Word' /\ Words'
<1>7. Word /\ Words
  BY DEF WordInv
<1>8. ASSUME GatewayRests PROVE Goal
  BY <1>2, <1>7, <1>8 DEF GatewayRests
<1>9. ASSUME Deliver PROVE Goal
  BY <1>2, <1>7, <1>9, Delivery DEF PathTyped, GatewayInv
<1>10. ASSUME Tries PROVE Goal
  <2>1. verdict' = "acked" => inbox[1].id \in WrittenIds'
    <3>1. CASE field' = Append(field, inbox[1])
      <4>1. Len(field') = Len(field) + 1 /\ field'[Len(field) + 1] = inbox[1]
        BY <1>1, <3>1
      <4>2. Len(field) + 1 \in DOMAIN field'
        BY <1>1, <3>1
      <4> QED
        BY <4>1, <4>2 DEF WrittenIds
    <3> QED
      BY <1>10, <3>1 DEF Tries
  <2> QED
    BY <1>2, <1>7, <1>10, <2>1 DEF Tries
<1>11. ASSUME Acks PROVE Goal
  <2>1. \A m : Ack1(m) /\ GoodWord(m) => m.id \in WrittenIds
    BY <1>7, <1>11 DEF Acks, Ack1, GoodWord
  <2>2. Word'
    BY <1>2, <1>7, <1>11 DEF Acks
  <2>3. Words'
    BY <1>2, <1>7, <1>11, <2>1 DEF Acks
  <2> QED
    BY <2>2, <2>3
<1>12. ASSUME Readbacks PROVE Goal
  <2>1. \A m, body : Readback1(m, body) => m.id \in WrittenIds
    BY <1>7, <1>12 DEF Readbacks, Readback1
  <2> QED
    BY <1>2, <1>7, <1>12, <2>1 DEF Readbacks
<1>13. ASSUME Restart PROVE Goal
  BY <1>2, <1>7, <1>13 DEF Restart, G!Restart
<1> HIDE DEF Goal
<1>14. Goal
  BY <1>8, <1>9, <1>10, <1>11, <1>12, <1>13, PathCases
<1> QED
  BY <1>5, <1>6, <1>14 DEF Goal, WordInv

(* "acked" and "mismatch" are said only of commands that reached the plant, *)
(* over lost, late and reordered reports, restarts and interleaved handlers.*)
THEOREM AckedCorrect == PathSpec => []AckedMeansWritten
<1>1. PathInit => WordInv
  <2> SUFFICES ASSUME PathInit PROVE WordInv
    OBVIOUS
  <2>1. step = "write" /\ posts = {}
    BY DEF PathInit, G!GatewayInit
  <2>2. \A k \in Sessions, i \in CommandIds : session[k].plan[i] = "keep"
    BY DEF PathInit, Init, Idle, NoPlan
  <2>3. \A i \in CommandIds : commands[i].status = "absent"
    BY DEF PathInit, Init, AbsentRow
  <2> QED
    BY <2>1, <2>2, <2>3 DEF WordInv, AckedMeansWritten
<1>2. PathInit => Init
  BY DEF PathInit
<1>3. WordInv => AckedMeansWritten
  BY DEF WordInv
<1>4. PathTyped => TypeOK
  BY DEF PathTyped, PathTypeOK
<1> QED
  BY <1>1, <1>2, <1>3, <1>4, PathTypedInit, PathTypedStep, ServerStep, TwoPersonInit, TwoPersonStep,
     WordStep, PTL
  DEF PathSpec

LEMMA LockoutStep == PathTyped /\ LockoutInv /\ [PathNext]_path => LockoutInv'
<1> SUFFICES ASSUME PathTyped, LockoutInv, [PathNext]_path PROVE LockoutInv'
  OBVIOUS
<1>1. [Next]_vars /\ TypeOK /\ lockedSince \in [Sensors -> 0..now]
  BY ServerStep DEF PathTyped, PathTypeOK
<1>2. /\ now' \in {now, now + 1} /\ now \in Nat
      /\ \A p \in Payload : p.at \in Nat /\ p.sensor \in Sensors
      /\ handed \subseteq Payload /\ \A k \in Sessions : session[k].out \subseteq Payload
  BY <1>1, ServerGrows DEF TypeOK, Transaction, Payload
<1>3. ASSUME NEW p \in Payload, Unlocked(p) PROVE Unlocked(p)'
  <2>1. CASE UNCHANGED <<blocked, lockedSince>>
    BY <1>2, <1>3, <2>1 DEF Unlocked
  <2>2. ASSUME NEW s \in Sensors, NEW c \in Conditions, Lock(s, c) PROVE Unlocked(p)'
    <3>1. now' = now
      BY <2>2 DEF Lock, Obstruct
    <3>2. CASE p.sensor # s
      BY <1>1, <1>2, <1>3, <2>2, <3>1, <3>2 DEF Lock, Obstruct, Unlocked, TypeOK
    <3>3. CASE p.sensor = s /\ c = "loto"
      <4>1. lockedSince'[s] = now
        BY <1>1, <2>2, <3>3 DEF Lock
      <4> QED
        BY <1>3, <3>1, <3>3, <4>1 DEF Unlocked
    <3>4. CASE p.sensor = s /\ c # "loto"
      <4>1. lockedSince'[s] = lockedSince[s]
        BY <1>1, <2>2, <3>4 DEF Lock
      <4>2. blocked'[s] \in {blocked[s] \ {c}, blocked[s] \cup {c}}
        BY <1>1, <2>2 DEF Lock, Obstruct, TypeOK
      <4> QED
        BY <1>3, <3>1, <3>4, <4>1, <4>2 DEF Unlocked
    <3> QED
      BY <3>2, <3>3, <3>4
  <2> QED
    BY <2>1, <2>2 DEF PathNext, Alone, People, Meet, Poll, Handle, Refuse, Deliver, Work, Restart, path, vars,
       server, Select, Execute, ApproveExpires, Approve, Cancel, Ack, Readback, Claim, Sweep, Open,
       Commit, Rollback, Tick
<1>4. ASSUME NEW k \in Sessions
      PROVE  \/ session'[k].out \subseteq session[k].out
             \/ \A p \in session'[k].out : p \in Payload /\ Unlocked(p)
  <2> DEFINE Goal == \/ session'[k].out \subseteq session[k].out
                     \/ \A p \in session'[k].out : p \in Payload /\ Unlocked(p)
  <2>1. ASSUME NEW j \in Sessions, NEW op, NEW plan, NEW user, NEW row, NEW out,
               Open(j, op, plan, user, row, out), \A p \in out : p \in Payload /\ Unlocked(p)
        PROVE  Goal
    <3>1. session'[k] = session[k] \/ session'[k].out = out
      BY <1>1, <2>1 DEF Open, TypeOK
    <3> QED
      BY <2>1, <3>1
  <2>2. ASSUME NEW j \in Sessions, Claim(j) PROVE Goal
    <3> DEFINE plan == [n \in CommandIds |-> IF n \in Ready THEN ClaimStatus(n) ELSE ExpirePlan[n]]
               out == {[id |-> i, sensor |-> commands[i].sensor, claim |-> claims + 1,
                        exp |-> commands[i].expires, at |-> now] :
                          i \in {n \in Ready : ClaimStatus(n) = "sent"}}
    <3>1. Open(j, "claim", plan, NoUser, AbsentRow, out)
      BY <2>2 DEF Claim
    <3>2. ASSUME NEW p \in out PROVE p \in Payload /\ Unlocked(p)
      <4>1. PICK i \in Ready :
              /\ ClaimStatus(i) = "sent"
              /\ p = [id |-> i, sensor |-> commands[i].sensor, claim |-> claims + 1,
                      exp |-> commands[i].expires, at |-> now]
        OBVIOUS
      <4>2. "loto" \notin blocked[p.sensor]
        BY <4>1 DEF ClaimStatus, Clear
      <4>3. commands[i] \in Row /\ claims + 1 \in Nat /\ i \in CommandIds
        BY <1>1, <4>1 DEF TypeOK, Ready
      <4> QED
        BY <1>2, <4>1, <4>2, <4>3 DEF Unlocked, Payload, Row
    <3> HIDE DEF plan, out, Goal
    <3> QED
      BY <2>1, <3>1, <3>2
  <2>3. CASE \E j \in Sessions : Commit(j) \/ Rollback(j)
    <3>1. session'[k] = session[k] \/ session'[k] = Idle
      BY <1>1, <2>3 DEF Commit, Rollback, TypeOK
    <3> QED
      BY <3>1 DEF Idle
  <2>4. CASE \E j \in Sessions : \E op, plan, user, row : Open(j, op, plan, user, row, {})
    BY <2>1, <2>4
  <2>5. CASE UNCHANGED session
    BY <2>5
  <2> QED
    BY <1>1, <2>2, <2>3, <2>4, <2>5 DEF Next, People, Calls, Server, Surroundings, vars, Select, Execute,
       ApproveExpires, Approve, Cancel, Ack, Readback, Sweep, Tick, Obstruct
<1>5. \A k \in Sessions : \A p \in session'[k].out : Unlocked(p)'
  BY <1>2, <1>3, <1>4 DEF LockoutInv
<1>6. \A p \in handed' : Unlocked(p)'
  BY <1>1, <1>2, <1>3, OnlyCommitWrites DEF Commit, LockoutInv
<1> QED
  BY <1>5, <1>6 DEF LockoutInv

(* A write, seen from the plant.                                            *)
LEMMA WrittenNow ==
  ASSUME PathTyped, [PathNext]_path, NEW p, Written(p)
  PROVE  /\ Tries /\ answered' = answered /\ UNCHANGED vars
         /\ p = inbox[1] /\ p \in handed /\ field' = Append(field, p)
         /\ now + Offset <= p.exp + Skew
<1>1. field \in Seq(handed) /\ inbox \in Seq(handed)
  BY DEF PathTyped, GatewayInv
<1>2. Tries /\ field' = Append(field, inbox[1])
  BY WrittenGrows DEF Written
<1>3. answered' = answered /\ UNCHANGED vars
  <2>1. step' = "ack" /\ posts' = posts /\ inbox # <<>>
    BY <1>2 DEF Tries
  <2> QED
    BY <1>1, <1>2, <2>1, PathCases, Delivery
    DEF GatewayRests, Acks, Readbacks, Restart, G!Restart, Tries
<1>4. p = inbox[1]
  BY <1>1, <1>2 DEF Written
<1>5. field' # field
  BY DEF Written
<1>6. now + Offset <= inbox[1].exp + Skew
  BY <1>2, <1>5 DEF Tries
<1>7. inbox[1] \in handed
  BY <1>1, <1>2 DEF Tries
<1> QED
  BY <1>2, <1>3, <1>4, <1>6, <1>7

(* A write under a lockout is bounded in time, whatever interleaves.        *)
THEOREM LockoutCorrect == PathSpec => LockoutHorizon
<1>1. PathInit => LockoutInv /\ Init
  BY DEF PathInit, Init, Idle, LockoutInv
<1>2. PathTyped /\ LockoutInv /\ FreshInv /\ [PathNext]_path =>
        [\A p \in handed :
           Written(p) /\ "loto" \in blocked[p.sensor] =>
             /\ p.at <= lockedSince[p.sensor]
             /\ now <= lockedSince[p.sensor] + CommandTTL + Skew - Offset]_path
  <2> SUFFICES ASSUME PathTyped, LockoutInv, FreshInv, [PathNext]_path,
                      NEW p \in handed, Written(p), "loto" \in blocked[p.sensor]
               PROVE  /\ p.at <= lockedSince[p.sensor]
                      /\ now <= lockedSince[p.sensor] + CommandTTL + Skew - Offset
    OBVIOUS
  <2>1. now + Offset <= p.exp + Skew
    BY WrittenNow
  <2>2. p.at <= lockedSince[p.sensor] /\ p.exp <= p.at + CommandTTL
    BY DEF LockoutInv, Unlocked, FreshInv, Fresh
  <2>3. p \in Payload /\ now \in Nat /\ lockedSince \in [Sensors -> 0..now]
    BY DEF PathTyped, PathTypeOK, TypeOK
  <2>4. /\ p.exp \in Nat /\ p.at \in Nat /\ lockedSince[p.sensor] \in Nat
        /\ CommandTTL \in Nat /\ Skew \in Nat /\ Offset \in Int
    BY <2>3, PathAssumption, BoundsAssumption DEF Payload
  <2> QED
    BY <2>1, <2>2, <2>3, <2>4
<1>3. Init => FreshInv
  BY DEF Init, AbsentRow, Idle, FreshInv
<1>4. PathTyped => TypeOK
  BY DEF PathTyped, PathTypeOK
<1> QED
  BY <1>1, <1>2, <1>3, <1>4, PathTypedInit, PathTypedStep, ServerStep, FreshStep, LockoutStep, PTL
  DEF PathSpec, LockoutHorizon

-----------------------------------------------------------------------------
(* The theorems that hold where no update is lost.                          *)

(* Nothing is written or reported for a payload that remains untried.       *)
LEMMA StillUntried ==
  ASSUME PathTyped, HandedOnce, [PathNext]_path, NEW p \in handed, Untried(p)'
  PROVE  /\ Untried(p)
         /\ p.id \in WrittenIds' => p.id \in WrittenIds
         /\ \A m \in posts' : m \in posts \/ m.id # p.id
<1> DEFINE Goal == /\ Untried(p)
                   /\ p.id \in WrittenIds' => p.id \in WrittenIds
                   /\ \A m \in posts' : m \in posts \/ m.id # p.id
<1>0. answered \in 0..claims /\ claims \in Nat /\ handed \subseteq Payload /\ GatewayInv
  BY DEF PathTyped, PathTypeOK, TypeOK
<1>1. /\ inbox \in Seq(handed) /\ answered \in Nat /\ claims \in Nat /\ answered <= claims
      /\ \A n \in DOMAIN inbox : inbox[n].claim <= answered
      /\ \A m, n \in DOMAIN inbox : m < n => inbox[m].id < inbox[n].id
      /\ \A q \in handed : q.claim \in Nat /\ q.id \in Nat
  BY <1>0 DEF GatewayInv, Payload, CommandIds
<1>2. field' = field => WrittenIds' = WrittenIds
  BY DEF WrittenIds
<1>first. ASSUME inbox # <<>>,
                 \/ p.claim > answered
                 \/ \E n \in DOMAIN inbox : p = inbox[n] /\ n # 1
          PROVE  Untried(p) /\ p.id # inbox[1].id
  <2>1. 1 \in DOMAIN inbox /\ inbox[1] \in handed
    BY <1>1, <1>first
  <2>2. CASE p.claim > answered
    BY <1>1, <2>1, <2>2 DEF Untried, HandedOnce
  <2>3. ASSUME NEW n \in DOMAIN inbox, p = inbox[n], n # 1
        PROVE  Untried(p) /\ p.id # inbox[1].id
    <3>1. 1 < n
      BY <1>1, <2>3
    <3>2. inbox[1].id < inbox[n].id
      BY <1>1, <2>1, <3>1
    <3> QED
      BY <1>1, <2>1, <2>3, <3>2 DEF Untried
  <2> QED
    BY <1>first, <2>2, <2>3
<1>3. ASSUME GatewayRests, answered' = answered PROVE Goal
  BY <1>2, <1>3 DEF GatewayRests, Untried
<1>4. ASSUME Deliver PROVE Goal
  <2>1. p.claim > answered
    BY <1>1, <1>4, Delivery DEF Untried
  <2> QED
    BY <1>2, <1>4, <2>1, Delivery DEF Untried
<1>5. ASSUME Tries, answered' = answered PROVE Goal
  <2>1. inbox' = inbox /\ step' = "ack" /\ inbox # <<>> /\ posts' = posts
    BY <1>5 DEF Tries
  <2>2. Untried(p) /\ p.id # inbox[1].id
    BY <1>5, <1>first, <2>1 DEF Untried
  <2> QED
    BY <2>1, <2>2, WrittenGrows DEF WrittenIds
<1>6. ASSUME inbox # <<>>, answered' = answered, field' = field,
             \/ inbox' = inbox /\ step' # "write"
             \/ inbox' = Tail(inbox),
             posts' = posts \/ \E m : m.id = inbox[1].id /\ posts' = posts \cup {m}
      PROVE  Goal
  <2>1. \/ p.claim > answered
        \/ \E n \in DOMAIN inbox : p = inbox[n] /\ n # 1
    <3>1. CASE inbox' = inbox /\ step' # "write"
      BY <1>6, <3>1 DEF Untried
    <3>2. CASE inbox' = Tail(inbox)
      <4>1. \A n \in DOMAIN Tail(inbox) :
              n + 1 \in DOMAIN inbox /\ n + 1 # 1 /\ Tail(inbox)[n] = inbox[n + 1]
        BY <1>1, <1>6
      <4> QED
        BY <1>6, <3>2, <4>1 DEF Untried
    <3> QED
      BY <1>6, <3>1, <3>2
  <2>2. Untried(p) /\ p.id # inbox[1].id
    BY <1>6, <1>first, <2>1
  <2> QED
    BY <1>2, <1>6, <2>2
<1>7. ASSUME Acks, answered' = answered PROVE Goal
  <2>1. posts' = posts \/ \E m : m.id = inbox[1].id /\ posts' = posts \cup {m}
    BY <1>7 DEF Acks, Ack1
  <2> HIDE DEF Goal
  <2> QED
    BY <1>6, <1>7, <2>1 DEF Acks
<1>8. ASSUME Readbacks, answered' = answered PROVE Goal
  <2>1. posts' = posts \/ \E m : m.id = inbox[1].id /\ posts' = posts \cup {m}
    BY <1>8 DEF Readbacks, Readback1
  <2> HIDE DEF Goal
  <2> QED
    BY <1>6, <1>8, <2>1 DEF Readbacks
<1>9. ASSUME Restart PROVE Goal
  BY <1>1, <1>2, <1>9 DEF Restart, G!Restart, Untried
<1> HIDE DEF Goal
<1>10. Goal
  BY <1>3, <1>4, <1>5, <1>7, <1>8, <1>9, PathCases
<1> QED
  BY <1>10 DEF Goal

(* A payload that was just handed out is untried, and its row is "sent".    *)
LEMMA NewlyHanded ==
  ASSUME PathTyped, HandoverInv, [PathNext]_path, [\A k \in Sessions : CommitsUnder(k)]_vars,
         NEW p \in handed', p \notin handed
  PROVE  /\ UNCHANGED gateway
         /\ commands[p.id].status = "pending" /\ commands'[p.id].status = "sent"
         /\ \A k \in Sessions : /\ session'[k].plan[p.id] = "keep" \/ Early(k, p.id)'
                                /\ session'[k].plan[p.id] # "unknown"
<1>1. [Next]_vars /\ TypeOK
  BY ServerStep DEF PathTyped, PathTypeOK
<1>2. PICK k \in Sessions : Commit(k) /\ CommitsUnder(k)
  BY <1>1, OnlyCommitWrites DEF vars
<1>3. p \in session[k].out
  BY <1>2 DEF Commit
<1>4. p.id \in CommandIds
  BY <1>1, <1>3 DEF TypeOK, Transaction, Payload
<1>5. session[k].plan[p.id] = "sent" /\ commands[p.id].status = "pending"
  <2>1. session[k].plan[p.id] = "sent"
    BY <1>3 DEF HandoverInv, DecidedInv, OutFits
  <2> QED
    BY <1>2, <1>4, <2>1, Transitions DEF CommitsUnder, HandoverInv, DecidedInv, PlanFits
<1>6. PICK n : Inserts(k, n) /\ \A i \in CommandIds \ {n} : Follows(k, i)
  BY <1>1, <1>2, CommitEffect
<1>7. commands'[p.id].status = "sent"
  BY <1>4, <1>5, <1>6 DEF Inserts, Follows
<1>8. ASSUME NEW j \in Sessions
      PROVE  /\ session'[j].plan[p.id] = "keep" \/ Early(j, p.id)'
             /\ session'[j].plan[p.id] # "unknown"
  <2>1. session'[j] = Idle \/ session'[j] = session[j]
    BY <1>1, <1>2 DEF Commit, TypeOK
  <2>2. ReadFits(j, p.id) /\ PlanFits(j, p.id)
    BY <1>4 DEF HandoverInv, DecidedInv
  <2>3. /\ session[j].plan[p.id] = "keep" \/ Early(j, p.id)
        /\ session[j].plan[p.id] # "unknown"
    BY <1>5, <2>2, Transitions DEF ReadFits, PlanFits, Early
  <2> QED
    BY <1>4, <2>1, <2>3 DEF Early, Idle, NoPlan
<1>9. UNCHANGED gateway
  <2>1. handed' # handed
    OBVIOUS
  <2> QED
    BY <2>1
    DEF PathNext, Alone, Lock, Obstruct, Meet, Poll, Claim, Handle, Ack, Readback, Open, Refuse,
        Deliver, Work, Restart, server, path, vars
<1> QED
  BY <1>5, <1>7, <1>8, <1>9

LEMMA OnceStep ==
  /\ PathTyped /\ TwoPersonInv /\ HandoverInv /\ OnceInv
  /\ [PathNext]_path /\ [\A k \in Sessions : CommitsUnder(k)]_vars
  => OnceInv'
<1> SUFFICES ASSUME PathTyped, TwoPersonInv, HandoverInv, OnceInv,
                    [PathNext]_path, [\A k \in Sessions : CommitsUnder(k)]_vars
             PROVE  OnceInv'
  OBVIOUS
<1>1. [Next]_vars /\ TypeOK /\ field \in Seq(handed) /\ inbox \in Seq(handed)
  BY ServerStep DEF PathTyped, PathTypeOK, GatewayInv
<1>2. /\ now \in Nat /\ now' \in {now, now + 1}
      /\ \A p \in handed : p.id \in CommandIds /\ p.at \in Nat
      /\ SentTimeout \in Nat
  BY <1>1, ServerGrows, BoundsAssumption DEF TypeOK, Payload
<1>3. ASSUME NEW p \in handed, Untried(p)'
      PROVE  /\ p.id \notin WrittenIds'
             /\ \A m \in posts' : m.id # p.id
             /\ commands'[p.id].status \in {"sent", "unknown"}
             /\ \A k \in Sessions :
                  session'[k].plan[p.id] \in {"keep", "unknown"} \/ Early(k, p.id)'
             /\ \/ commands'[p.id].status = "unknown"
                \/ \E k \in Sessions : session'[k].plan[p.id] = "unknown"
                => now' - p.at > SentTimeout
  <2> DEFINE i == p.id
             Late == now - p.at > SentTimeout
  <2>1. /\ i \notin WrittenIds /\ (\A m \in posts : m.id # i)
        /\ commands[i].status \in {"sent", "unknown"}
        /\ \A k \in Sessions : session[k].plan[i] \in {"keep", "unknown"} \/ Early(k, i)
        /\ commands[i].status = "unknown" => Late
        /\ \A k \in Sessions : session[k].plan[i] = "unknown" => Late
    BY <1>3, StillUntried DEF HandoverInv, OnceInv, UntriedInv
  <2>2. i \notin WrittenIds' /\ \A m \in posts' : m.id # i
    BY <1>3, <2>1, StillUntried DEF HandoverInv
  <2>3. i \in CommandIds /\ (Late => now' - p.at > SentTimeout)
    BY <1>2
  <2>4. commands[i].sentAt = p.at
    BY DEF HandoverInv, HandedOnce, HandedFits
  <2> HIDE DEF Late
  <2>5. \/ commands'[i].status = commands[i].status
        \/ commands'[i].status = "unknown" /\ Late
    <3>1. ASSUME NEW k \in Sessions, Commit(k), session[k].plan[i] # "keep",
                 commands'[i].status = session[k].plan[i], commands' # commands
          PROVE  commands'[i].status = "unknown" /\ Late
      <4>1. session[k].read[i] = commands[i].status
        BY <2>3, <3>1 DEF CommitsUnder, vars
      <4> QED
        BY <2>1, <3>1, <4>1 DEF Early
    <3> QED
      BY <1>1, <2>1, <2>3, <3>1, StatusSources
  <2>6. ASSUME NEW k \in Sessions
        PROVE  \/ session'[k] = session[k]
               \/ session'[k].plan[i] = "keep"
               \/ session'[k].plan[i] = "unknown" /\ Late
    BY <2>1, <2>3, <2>4, PlanSources DEF Planned, Unanswered, Late
  <2> HIDE DEF i
  <2>7. /\ commands'[i].status \in {"sent", "unknown"}
        /\ commands'[i].status = "unknown" => Late
    BY <2>1, <2>5
  <2>8. \A k \in Sessions : /\ session'[k].plan[i] \in {"keep", "unknown"} \/ Early(k, i)'
                            /\ session'[k].plan[i] = "unknown" => Late
    BY <2>1, <2>6 DEF Early
  <2> QED
    BY <2>2, <2>3, <2>7, <2>8 DEF i
<1>4. ASSUME NEW p \in handed', p \notin handed
      PROVE  /\ p.id \notin WrittenIds'
             /\ \A m \in posts' : m.id # p.id
             /\ commands'[p.id].status = "sent"
             /\ \A k \in Sessions : /\ session'[k].plan[p.id] = "keep" \/ Early(k, p.id)'
                                    /\ session'[k].plan[p.id] # "unknown"
  <2>1. \A q \in handed : q.id # p.id
    BY <1>4, NewlyHanded DEF HandoverInv, HandedOnce, HandedFits, Released
  <2>2. posts' = posts /\ WrittenIds' = WrittenIds
    BY <1>4, NewlyHanded DEF gateway, WrittenIds
  <2>3. \A m \in posts : m.id # p.id
    BY <2>1 DEF PathTyped, GatewayInv
  <2>4. p.id \notin WrittenIds
    BY <1>1, <2>1 DEF WrittenIds
  <2> QED
    BY <1>4, <2>2, <2>3, <2>4, NewlyHanded
<1>5. UntriedInv'
  <2> SUFFICES ASSUME NEW p \in handed', Untried(p)'
               PROVE  /\ p.id \notin WrittenIds'
                      /\ \A m \in posts' : m.id # p.id
                      /\ commands'[p.id].status \in {"sent", "unknown"}
                      /\ \A k \in Sessions :
                           session'[k].plan[p.id] \in {"keep", "unknown"} \/ Early(k, p.id)'
                      /\ \/ commands'[p.id].status = "unknown"
                         \/ \E k \in Sessions : session'[k].plan[p.id] = "unknown"
                         => now' - p.at > SentTimeout
    BY DEF UntriedInv
  <2> QED
    BY <1>3, <1>4
<1>6. WrittenOnce'
  <2>1. CASE field' = field
    BY <2>1 DEF OnceInv, WrittenOnce
  <2>2. CASE Tries /\ field' = Append(field, inbox[1])
    <3>1. inbox[1] \in handed /\ Untried(inbox[1])
      BY <1>1, <2>2 DEF Tries, Untried
    <3>2. \A n \in DOMAIN field : field[n].id # inbox[1].id
      BY <3>1 DEF OnceInv, UntriedInv, WrittenIds
    <3>3. /\ DOMAIN field' = DOMAIN field \cup {Len(field) + 1}
          /\ field'[Len(field) + 1] = inbox[1]
          /\ \A n \in DOMAIN field : field'[n] = field[n]
      BY <1>1, <2>2
    <3> QED
      BY <3>2, <3>3 DEF OnceInv, WrittenOnce
  <2> QED
    BY <2>1, <2>2, WrittenGrows
<1> QED
  BY <1>5, <1>6 DEF OnceInv

LEMMA OnceInit == PathInit => OnceInv
BY DEF PathInit, Init, G!GatewayInit, OnceInv, UntriedInv, WrittenOnce

(* What is inductive where no update is lost.                               *)
PathInv == PathTyped /\ TwoPersonInv /\ FreshInv /\ HandoverInv /\ OnceInv

LEMMA PathInvInit == PathInit => PathInv
<1>1. PathInit => Init
  BY DEF PathInit
<1>2. Init => FreshInv
  BY DEF Init, AbsentRow, Idle, FreshInv
<1> QED
  BY <1>1, <1>2, PathTypedInit, TwoPersonInit, HandoverInit, OnceInit DEF PathInv

LEMMA PathInvStep ==
  PathInv /\ [PathNext]_path /\ [\A k \in Sessions : CommitsUnder(k)]_vars => PathInv'
<1>1. PathTyped => TypeOK
  BY DEF PathTyped, PathTypeOK
<1> QED
  BY <1>1, PathTypedStep, ServerStep, TwoPersonStep, FreshStep, HandoverStep, OnceStep
  DEF PathInv

(* Where the server loses no update, the plant sees each command at most    *)
(* once over polls, lost answers and restarts of the gateway.               *)
THEOREM WrittenOnceCorrect == PathSpec /\ NothingLost => []WrittenOnce
<1>1. PathInv => WrittenOnce
  BY DEF PathInv, OnceInv
<1> QED
  BY <1>1, PathInvInit, PathInvStep, PTL DEF PathSpec, NothingLost

(* watchdog_sent waits long enough: a row that is written still says "sent".*)
THEOREM HeldCorrect ==
  ASSUME SentTimeout >= CommandTTL + Skew - Offset
  PROVE  PathSpec /\ NothingLost => HeldWhileWritten
<1>1. PathInv /\ [PathNext]_path =>
        [\A p \in handed : Written(p) => commands[p.id].status = "sent"]_path
  <2> SUFFICES ASSUME PathInv, [PathNext]_path, NEW p \in handed, Written(p)
               PROVE  commands[p.id].status = "sent"
    OBVIOUS
  <2>1. PathTyped
    BY DEF PathInv
  <2>2. Tries /\ p = inbox[1] /\ now + Offset <= p.exp + Skew
    BY <2>1, WrittenNow
  <2>3. Untried(p)
    BY <2>1, <2>2 DEF Tries, Untried, PathTyped, GatewayInv
  <2>4. /\ commands[p.id].status \in {"sent", "unknown"}
        /\ commands[p.id].status = "unknown" => now - p.at > SentTimeout
    BY <2>3 DEF PathInv, OnceInv, UntriedInv
  <2>5. p.exp <= p.at + CommandTTL
    BY DEF PathInv, FreshInv, Fresh
  <2>6. /\ p.exp \in Nat /\ p.at \in Nat /\ now \in Nat
        /\ CommandTTL \in Nat /\ Skew \in Nat /\ Offset \in Int /\ SentTimeout \in Nat
    BY <2>1, PathAssumption, BoundsAssumption DEF PathTyped, PathTypeOK, TypeOK, Payload
  <2> QED
    BY <2>2, <2>4, <2>5, <2>6
<1> QED
  BY <1>1, PathInvInit, PathInvStep, PTL DEF PathSpec, NothingLost, HeldWhileWritten
=============================================================================
