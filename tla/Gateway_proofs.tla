--------------------------- MODULE Gateway_proofs ---------------------------
(***************************************************************************)
(* Theorems about the gateway alone, under a network that hands it a       *)
(* payload as often as it likes.                                           *)
(***************************************************************************)
EXTENDS MCGateway, FiniteSetTheorems, SequenceTheorems, TLAPS

-----------------------------------------------------------------------------
(* The invariant.                                                           *)

Payload == [id : Ids, claim : {1}, sensor : Points, exp : Int, at : Int]

(* The payloads of this process, one for each command, and what the         *)
(* gateway has of them.                                                     *)
WireInv ==
  /\ now \in Int
  /\ IsFiniteSet(wire) /\ wire \subseteq Payload
  /\ \A p, q \in wire : p.id = q.id => p = q
  /\ inbox \in Seq(wire) /\ field \in Seq(Payload)

(* A nonce is remembered until its payload's time.                          *)
SeenInv ==
  /\ \A e \in seen : \E p \in wire : e.nonce = Nonce(p) /\ e.exp = p.exp
  /\ \A e, f \in seen : e.nonce = f.nonce => e = f

(* What was written and may come again is remembered or outdated.           *)
Spent(p) == Outdated(p) \/ \E e \in seen : e.nonce = Nonce(p)

SpentInv ==
  \A n \in DOMAIN field, p \in wire : p.id = field[n].id => Spent(p)

ReplayInv == WireInv /\ SeenInv /\ SpentInv /\ NonceWrittenOnce

(* No more payloads are alive at a time than the cache has room for.        *)
(* Without it the theorem is false: the nonce of a payload that may come    *)
(* again makes room for a newer one.                                        *)
Alive == {p \in wire : ~Outdated(p)}

FewAlive == Cardinality(Alive) <= CacheMax

-----------------------------------------------------------------------------
(* Payloads and nonces.                                                     *)

LEMMA NonceNames ==
  ASSUME NEW p \in Payload, NEW q \in Payload
  PROVE  Nonce(p) = Nonce(q) <=> p.id = q.id
BY DEF Nonce, Payload

LEMMA Bounds == /\ Skew \in Nat /\ Offset \in Int
                /\ CacheMax \in Nat
BY GatewayAssumption

(* Time makes nothing young again.                                          *)
LEMMA OutdatedStays ==
  ASSUME NEW p \in Payload, now \in Int, now' = now \/ now' = now + 1, Outdated(p)
  PROVE  Outdated(p)'
BY Bounds DEF Outdated, Clock, Payload

(* Who is remembered is remembered for a payload that is alive.             *)
LEMMA RememberedAlive ==
  ASSUME ReplayInv, NEW e \in Remembered
  PROVE  e \in seen /\ \E p \in Alive : e.nonce = Nonce(p)
<1>1. e \in seen /\ ~(e.exp + Skew < Clock)
  BY DEF Remembered
<1>2. PICK p \in wire : e.nonce = Nonce(p) /\ e.exp = p.exp
  BY <1>1 DEF ReplayInv, SeenInv
<1>3. ~Outdated(p)
  BY <1>1, <1>2, Bounds DEF Outdated, Clock, ReplayInv, WireInv, Payload
<1> QED
  BY <1>1, <1>2, <1>3 DEF Alive

(* A payload that was spent and is not outdated is recognised.              *)
LEMMA SpentReplayed ==
  ASSUME ReplayInv, NEW p \in wire, Spent(p), ~Outdated(p)
  PROVE  Replayed(p)
<1>1. PICK e \in seen : e.nonce = Nonce(p)
  BY DEF Spent
<1>2. PICK q \in wire : e.nonce = Nonce(q) /\ e.exp = q.exp
  BY DEF ReplayInv, SeenInv
<1>3. q = p
  <2>1. p \in Payload /\ q \in Payload /\ Nonce(q) = Nonce(p)
    BY <1>1, <1>2 DEF ReplayInv, WireInv
  <2>2. q.id = p.id
    BY <2>1, NonceNames
  <2> QED
    BY <2>2 DEF ReplayInv, WireInv
<1>4. ~(e.exp + Skew < Clock)
  BY <1>2, <1>3, Bounds DEF Outdated, Clock, ReplayInv, WireInv, Payload
<1> QED
  BY <1>1, <1>4 DEF Replayed, Remembered

(* There is room for the nonce of a payload that is not recognised.         *)
LEMMA RoomLeft ==
  ASSUME ReplayInv, FewAlive, NEW p \in wire, ~Outdated(p), ~Replayed(p)
  PROVE  Kept = Remembered
<1> DEFINE T == Alive \ {p}
           f == [e \in Remembered |-> CHOOSE q \in Alive : e.nonce = Nonce(q)]
<1>1. IsFiniteSet(Alive) /\ p \in Alive
  BY FS_Subset DEF Alive, ReplayInv, WireInv
<1>2. IsFiniteSet(T) /\ Cardinality(T) = Cardinality(Alive) - 1 /\ Cardinality(Alive) \in Nat
  BY <1>1, FS_RemoveElement, FS_CardinalityType
<1>3. ASSUME NEW e \in Remembered
      PROVE  e \in seen /\ f[e] \in T /\ e.nonce = Nonce(f[e])
  <2>1. e \in seen /\ \E q \in Alive : e.nonce = Nonce(q)
    BY RememberedAlive
  <2>2. f[e] \in Alive /\ e.nonce = Nonce(f[e])
    BY <2>1
  <2>3. e.nonce # Nonce(p)
    BY DEF Replayed
  <2> QED
    BY <2>1, <2>2, <2>3
<1>4. f \in [Remembered -> T]
  BY <1>3
<1>5. \A d, e \in Remembered : f[d] = f[e] => d = e
  BY <1>3 DEF ReplayInv, SeenInv
<1> HIDE DEF f, T
<1>6. f \in Injection(Remembered, T)
  BY <1>4, <1>5 DEF Injection, IsInjective
<1>7. IsFiniteSet(Remembered) /\ Cardinality(Remembered) <= Cardinality(T)
  BY <1>2, <1>6, FS_Injection
<1>8. Cardinality(Remembered) \in Nat
  BY <1>7, FS_CardinalityType
<1>9. ~(Cardinality(Remembered) >= CacheMax)
  BY <1>2, <1>7, <1>8, Bounds DEF FewAlive
<1> QED
  BY <1>9 DEF Kept

-----------------------------------------------------------------------------
(* The invariant is kept.                                                   *)

LEMMA HeadOnWire ==
  ASSUME ReplayInv, ~Waiting
  PROVE  Head(inbox) \in wire /\ Tail(inbox) \in Seq(wire)
BY DEF ReplayInv, WireInv, Waiting

(* What verify lets pass was not written, and is remembered from here on    *)
(* like everything before it.                                               *)
LEMMA AdmitKept ==
  ASSUME ReplayInv, FewAlive, NEW p, Admit(p), UNCHANGED <<now, wire>>
  PROVE  /\ p \in wire
         /\ \A n \in DOMAIN field : field[n].id # p.id
         /\ SeenInv' /\ Spent(p)' /\ \A q \in wire : Spent(q) => Spent(q)'
<1>1. p \in wire /\ ~Outdated(p) /\ ~Replayed(p)
  BY HeadOnWire DEF Admit
<1> DEFINE new == [nonce |-> Nonce(p), exp |-> p.exp, nth |-> 1 + Max({e.nth : e \in Kept} \cup {0})]
<1>2. seen' = Remembered \cup {new} /\ new.nonce = Nonce(p) /\ new.exp = p.exp
  <2>1. seen' = Kept \cup {new}
    BY DEF Admit, Remember
  <2> QED
    BY <1>1, <2>1, RoomLeft
<1> HIDE DEF new
<1>3. \A n \in DOMAIN field : field[n].id # p.id
  BY <1>1, SpentReplayed DEF ReplayInv, SpentInv
<1>4. Remembered \subseteq seen /\ \A e \in Remembered : e.nonce # Nonce(p)
  BY <1>1 DEF Remembered, Replayed
<1>5. SeenInv'
  BY <1>1, <1>2, <1>4 DEF ReplayInv, SeenInv, Nonce
<1>6. Spent(p)'
  BY <1>2 DEF Spent, Nonce
<1>7. ASSUME NEW q \in wire, Spent(q)
      PROVE  Spent(q)'
  <2>1. CASE Outdated(q)
    BY <2>1 DEF Spent, Outdated, Clock
  <2>2. CASE ~Outdated(q)
    <3>1. Replayed(q)
      BY <1>7, <2>2, SpentReplayed
    <3> QED
      BY <1>2, <3>1 DEF Replayed, Spent, Nonce
  <2> QED
    BY <2>1, <2>2
<1> QED
  BY <1>1, <1>3, <1>5, <1>6, <1>7

LEMMA WriteKept ==
  ASSUME ReplayInv, FewAlive, Write, UNCHANGED <<now, env>>
  PROVE  ReplayInv'
<1>1. PICK p \in ToSet(inbox), effect \in Outcomes :
        /\ Admit(p)
        /\ field' = IF effect = "refused" THEN field ELSE Append(field, p)
        /\ UNCHANGED inbox
  BY DEF Write
<1>2. /\ p \in wire
      /\ \A n \in DOMAIN field : field[n].id # p.id
      /\ SeenInv' /\ Spent(p)' /\ \A q \in wire : Spent(q) => Spent(q)'
  BY <1>1, AdmitKept DEF env
<1>3. p \in Payload /\ field \in Seq(Payload) /\ wire' = wire /\ now' = now
  BY <1>2 DEF ReplayInv, WireInv, env
<1>4. /\ field' \in Seq(Payload)
      /\ \A n \in DOMAIN field' : \/ n \in DOMAIN field /\ field'[n] = field[n]
                                  \/ n = Len(field) + 1 /\ field'[n] = p
  BY <1>1, <1>3
<1>5. WireInv'
  BY <1>1, <1>3, <1>4 DEF ReplayInv, WireInv
<1>6. SpentInv'
  <2>1. ASSUME NEW n \in DOMAIN field', NEW q \in wire, q.id = field'[n].id
        PROVE  Spent(q)'
    <3>1. CASE n \in DOMAIN field /\ field'[n] = field[n]
      BY <1>2, <2>1, <3>1 DEF ReplayInv, SpentInv
    <3>2. CASE field'[n] = p
      BY <1>2, <2>1, <3>2 DEF ReplayInv, WireInv
    <3> QED
      BY <1>4, <3>1, <3>2
  <2> QED
    BY <1>3, <2>1 DEF SpentInv
<1>7. NonceWrittenOnce'
  <2>1. \A m, n \in DOMAIN field' : field'[m].id = field'[n].id => m = n
    <3>1. \A m, n \in DOMAIN field : field[m].id = field[n].id => m = n
      BY <1>3, NonceNames DEF ReplayInv, NonceWrittenOnce
    <3> QED
      BY <1>2, <1>4, <3>1
  <2>2. \A m \in DOMAIN field' : field'[m] \in Payload
    BY <1>4
  <2>3. \A m, n \in DOMAIN field' : Nonce(field'[m]) = Nonce(field'[n]) => m = n
    BY <2>1, <2>2, NonceNames
  <2> QED
    BY <2>3 DEF NonceWrittenOnce, Nonce
<1> QED
  BY <1>2, <1>5, <1>6, <1>7 DEF ReplayInv

(* The other steps of the gateway write nothing.                            *)
LEMMA CommanderKept ==
  ASSUME ReplayInv, FewAlive, Commander, UNCHANGED <<now, env>>, ~Write
  PROVE  ReplayInv'
<1>1. wire' = wire /\ now' = now /\ field' = field
  BY DEF Commander, RefuseOutdated, RefuseReplayed, RefuseWrite, PostAck, PostReadback, env
<1>2. inbox' \in Seq(wire)
  <2>1. inbox' = inbox \/ (~Waiting /\ inbox' = Tail(inbox))
    BY DEF Commander, RefuseOutdated, RefuseReplayed, RefuseWrite, PostAck, PostReadback, Done
  <2> QED
    BY <2>1, HeadOnWire DEF ReplayInv, WireInv
<1>3. SeenInv' /\ \A q \in wire : Spent(q) => Spent(q)'
  <2>1. CASE seen' = seen
    BY <1>1, <2>1 DEF ReplayInv, SeenInv, Spent, Nonce, Outdated, Clock
  <2>2. CASE seen' = Remembered
    <3>1. SeenInv'
      BY <1>1, <2>2 DEF ReplayInv, SeenInv, Nonce, Remembered
    <3>2. ASSUME NEW q \in wire, Spent(q)
          PROVE  Spent(q)'
      <4>1. Outdated(q) \/ Replayed(q)
        BY <3>2, SpentReplayed
      <4> QED
        BY <1>1, <2>2, <4>1 DEF Spent, Replayed, Outdated, Clock, Nonce
    <3> QED
      BY <3>1, <3>2
  <2>3. CASE RefuseWrite
    BY <1>1, <2>3, AdmitKept DEF RefuseWrite
  <2> QED
    BY <2>1, <2>2, <2>3 DEF Commander, RefuseOutdated, RefuseReplayed, PostAck, PostReadback
<1>4. WireInv' /\ SpentInv' /\ NonceWrittenOnce'
  BY <1>1, <1>2, <1>3 DEF ReplayInv, WireInv, SpentInv, NonceWrittenOnce, Nonce
<1> QED
  BY <1>3, <1>4 DEF ReplayInv

(* A payload is signed for a command that has none and was not written.     *)
LEMMA SignKept ==
  ASSUME ReplayInv, Sign
  PROVE  ReplayInv'
<1>1. PICK i \in Ids, s \in Points, life \in 1..Lifetime :
        /\ \A p \in wire : p.id # i
        /\ \A j \in DOMAIN field : field[j].id # i
        /\ wire' = wire \cup {[id |-> i, claim |-> 1, sensor |-> s, exp |-> now + life, at |-> now]}
        /\ UNCHANGED <<now, gateway, batches>>
  BY DEF Sign
<1> DEFINE new == [id |-> i, claim |-> 1, sensor |-> s, exp |-> now + life, at |-> now]
<1>2. new \in Payload /\ new.id = i
  BY DEF Payload, ReplayInv, WireInv
<1>3. now' = now /\ inbox' = inbox /\ field' = field /\ seen' = seen /\ wire' = wire \cup {new}
  BY <1>1 DEF gateway
<1> HIDE DEF new
<1>4. IsFiniteSet(wire') /\ inbox' \in Seq(wire')
  <2>1. IsFiniteSet(wire')
    BY <1>3, FS_AddElement DEF ReplayInv, WireInv
  <2>2. inbox' \in Seq(wire')
    BY <1>3, SeqMonotonic DEF ReplayInv, WireInv
  <2> QED
    BY <2>1, <2>2
<1>5. WireInv'
  BY <1>1, <1>2, <1>3, <1>4 DEF ReplayInv, WireInv
<1>6. SeenInv'
  BY <1>3 DEF ReplayInv, SeenInv, Nonce
<1>7. SpentInv'
  BY <1>1, <1>2, <1>3 DEF ReplayInv, SpentInv, Spent, Outdated, Clock, Nonce
<1>8. NonceWrittenOnce'
  BY <1>3 DEF ReplayInv, NonceWrittenOnce, Nonce
<1> QED
  BY <1>5, <1>6, <1>7, <1>8 DEF ReplayInv

LEMMA DeliverKept ==
  ASSUME ReplayInv, Deliver
  PROVE  ReplayInv'
<1>1. PICK batch \in SUBSET wire : Receive(batch)
  BY DEF Deliver
<1>2. /\ now' = now /\ wire' = wire /\ field' = field /\ seen' = seen
      /\ inbox' \in [1..Cardinality(batch) -> batch]
  BY <1>1 DEF Deliver, Receive
<1>3. Cardinality(batch) \in Nat
  BY FS_Subset, FS_CardinalityType DEF ReplayInv, WireInv
<1>4. inbox' \in Seq(wire)
  BY <1>2, <1>3
<1> QED
  BY <1>2, <1>4 DEF ReplayInv, WireInv, SeenInv, SpentInv, Spent, Outdated, Clock, NonceWrittenOnce, Nonce

(* What the dead process was handed is gone with what it remembered.        *)
LEMMA DieKept ==
  ASSUME ReplayInv, Die
  PROVE  ReplayInv'
<1>1. inbox' = <<>> /\ seen' = {} /\ field' = field /\ wire' = {} /\ now' = now
  BY DEF Die, Restart
<1>2. IsFiniteSet(wire')
  BY <1>1, FS_EmptySet
<1> QED
  BY <1>1, <1>2 DEF ReplayInv, WireInv, SeenInv, SpentInv, NonceWrittenOnce, Nonce

LEMMA PassKept ==
  ASSUME ReplayInv, now' = now \/ now' = now + 1, UNCHANGED <<gateway, env>>
  PROVE  ReplayInv'
<1>1. inbox' = inbox /\ seen' = seen /\ field' = field /\ wire' = wire /\ now \in Int /\ wire \subseteq Payload
  BY DEF gateway, env, ReplayInv, WireInv
<1>2. \A q \in wire : Spent(q) => Spent(q)'
  BY <1>1, OutdatedStays DEF Spent, Nonce
<1> QED
  BY <1>1, <1>2 DEF ReplayInv, WireInv, SeenInv, SpentInv, NonceWrittenOnce, Nonce

LEMMA ReplayInit == MCInit => ReplayInv
<1> SUFFICES ASSUME MCInit PROVE ReplayInv
  OBVIOUS
<1>1. inbox = <<>> /\ seen = {} /\ field = <<>> /\ wire = {} /\ now = 0
  BY DEF MCInit, GatewayInit
<1>2. IsFiniteSet(wire)
  BY <1>1, FS_EmptySet
<1> QED
  BY <1>1, <1>2 DEF ReplayInv, WireInv, SeenInv, SpentInv, NonceWrittenOnce

LEMMA ReplayStep == ReplayInv /\ FewAlive /\ [MCNext]_all => ReplayInv'
<1> SUFFICES ASSUME ReplayInv, FewAlive, [MCNext]_all PROVE ReplayInv'
  OBVIOUS
<1>1. CASE Work
  BY <1>1, WriteKept, CommanderKept DEF Work
<1>2. CASE Pass \/ UNCHANGED all
  BY <1>2, PassKept DEF Pass, all
<1> QED
  BY <1>1, <1>2, SignKept, DeliverKept, DieKept DEF MCNext

(* A signed payload is written at most once by a running gateway, however   *)
(* often it is handed in, for any skew, offset of clocks, driver and number *)
(* of commands, as long as no more payloads are alive at a time than the    *)
(* cache has room for (CommandVerifier.verify).                             *)
THEOREM NonceCorrect == MCSpec /\ []FewAlive => []NonceWrittenOnce
<1>1. ReplayInv => NonceWrittenOnce
  BY DEF ReplayInv
<1> QED
  BY <1>1, ReplayInit, ReplayStep, PTL DEF MCSpec

(* In particular when there are no more commands than that.                 *)
THEOREM FewCommandsCorrect ==
  ASSUME IsFiniteSet(Ids), Cardinality(Ids) <= CacheMax
  PROVE  MCSpec => []NonceWrittenOnce
<1>1. WireInv => FewAlive
  <2> SUFFICES ASSUME WireInv PROVE FewAlive
    OBVIOUS
  <2> DEFINE f == [p \in Alive |-> p.id]
  <2>1. Alive \subseteq wire /\ \A p \in Alive : p.id \in Ids
    BY DEF Alive, WireInv, Payload
  <2>2. f \in [Alive -> Ids]
    BY <2>1
  <2>3. \A p, q \in Alive : f[p] = f[q] => p = q
    BY <2>1 DEF WireInv
  <2> HIDE DEF f
  <2>4. f \in Injection(Alive, Ids)
    BY <2>2, <2>3 DEF Injection, IsInjective
  <2>5. IsFiniteSet(Alive) /\ Cardinality(Alive) <= Cardinality(Ids)
    BY <2>4, FS_Injection
  <2>6. Cardinality(Alive) \in Nat /\ Cardinality(Ids) \in Nat
    BY <2>5, FS_CardinalityType
  <2> QED
    BY <2>5, <2>6, Bounds DEF FewAlive
<1>2. ReplayInv /\ [MCNext]_all => ReplayInv'
  BY <1>1, ReplayStep DEF ReplayInv
<1>3. ReplayInv => NonceWrittenOnce
  BY DEF ReplayInv
<1> QED
  BY <1>2, <1>3, ReplayInit, PTL DEF MCSpec
=============================================================================
