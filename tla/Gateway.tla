------------------------------- MODULE Gateway -------------------------------
(***************************************************************************)
(* The command channel of the field gateway: Commander and CommandVerifier *)
(* of deploy/gateway/ges_gateway.py.                                       *)
(*                                                                         *)
(* A claim returns a batch of signed payloads.  For each in turn the       *)
(* gateway verifies it, writes the point, posts the result and, if the     *)
(* write went well, reads the point back and posts what it read.  The      *)
(* posts travel to the server on their own: they may be late or lost.      *)
(* Nothing here survives a restart.  Signatures are taken to be genuine.   *)
(***************************************************************************)
EXTENDS Integers, Sequences, FiniteSets, SequencesExt

CONSTANTS
  Points,    \* tags the server may command
  Writable,  \* tags this gateway may write, with cmd_min and cmd_max
  Skew,      \* clock_skew_s
  Offset,    \* the gateway's clock minus the server's
  CacheMax,  \* cache_max, nonces remembered
  Outcomes   \* what a driver's write may come to, see Effects

(* A write is done, is refused before it reaches the plant, or reaches the  *)
(* plant and raises all the same (a confirmation that never came).          *)
Effects == {"done", "refused", "unconfirmed"}

ASSUME GatewayAssumption ==
  /\ Writable \subseteq Points
  /\ Skew \in Nat
  /\ Offset \in Int
  /\ CacheMax \in Nat \ {0}
  /\ Outcomes \subseteq Effects

VARIABLES
  now,      \* the server's clock
  inbox,    \* what is left of the claimed batch, the payload at work first
  step,     \* where the gateway is with it: "write", "ack" or "readback"
  verdict,  \* the result it will post
  seen,     \* the verifier's nonces, numbered in the order they came
  posts,    \* acks and read-backs on their way to the server
  field     \* every write that reached the plant, oldest first (history)

gateway == <<inbox, step, verdict, seen, posts, field>>

Nonce(p) == <<p.id, p.claim>>

Clock == now + Offset

GatewayInit ==
  /\ inbox = <<>>
  /\ step = "write"
  /\ verdict = "failed"
  /\ seen = {}
  /\ posts = {}
  /\ field = <<>>

Waiting == inbox = <<>>

(* The answer to a claim, in id order.                                      *)
Receive(batch) ==
  /\ Waiting
  /\ inbox' \in [1..Cardinality(batch) -> batch]
  /\ \A m, n \in DOMAIN inbox' : m < n => inbox'[m].id < inbox'[n].id
  /\ UNCHANGED <<step, verdict, seen, posts, field>>

-----------------------------------------------------------------------------
(* CommandVerifier.verify.  Definitions named Mutant... are plausible bugs  *)
(* in the definition that follows them; no specification uses them.         *)

(* clock_skew_s is allowed on both sides.                                   *)
MutantOutdated(p) == Clock - Skew > p.exp + Skew

Outdated(p) == Clock > p.exp + Skew

(* A nonce is forgotten when the payload expires, skew or no skew.          *)
MutantRemembered == {e \in seen : ~(e.exp < Clock)}

Remembered == {e \in seen : ~(e.exp + Skew < Clock)}

Replayed(p) == \E e \in Remembered : e.nonce = Nonce(p)

Oldest == CHOOSE e \in Remembered : \A f \in Remembered : e.nth <= f.nth

(* A full cache forgets its oldest nonce.                                   *)
Kept == IF Cardinality(Remembered) >= CacheMax THEN Remembered \ {Oldest} ELSE Remembered

Remember(p) ==
  Kept \cup {[nonce |-> Nonce(p), exp |-> p.exp,
              nth |-> 1 + Max({e.nth : e \in Kept} \cup {0})]}

Fail == step' = "ack" /\ verdict' = "failed"

RefuseOutdated ==
  /\ ~Waiting /\ step = "write"
  /\ Outdated(Head(inbox))
  /\ Fail
  /\ UNCHANGED <<inbox, seen, posts, field>>

RefuseReplayed ==
  /\ ~Waiting /\ step = "write"
  /\ ~Outdated(Head(inbox)) /\ Replayed(Head(inbox))
  /\ seen' = Remembered
  /\ Fail
  /\ UNCHANGED <<inbox, posts, field>>

(* The nonce is spent before check_write and the driver are tried.          *)
Admit(p) ==
  /\ ~Waiting /\ step = "write" /\ p = Head(inbox)
  /\ ~Outdated(p) /\ ~Replayed(p)
  /\ seen' = Remember(p)

(* check_write: not a writable tag, no limits, or a value outside them.     *)
RefuseWrite ==
  \E p \in ToSet(inbox) :
    /\ Admit(p)
    /\ p.sensor \notin Writable
    /\ Fail
    /\ UNCHANGED <<inbox, posts, field>>

(* A write that raised is reported done.                                    *)
MutantReport(effect) == "acked"

Report(effect) == IF effect = "done" THEN "acked" ELSE "failed"

Write ==
  \E p \in ToSet(inbox), effect \in Outcomes :
    /\ Admit(p)
    /\ p.sensor \in Writable
    /\ field' = IF effect = "refused" THEN field ELSE Append(field, p)
    /\ verdict' = Report(effect)
    /\ step' = "ack"
    /\ UNCHANGED <<inbox, posts>>

-----------------------------------------------------------------------------
(* The results.  requests.post that raises is logged and forgotten.         *)

Post(m) == posts' = posts \cup {m} \/ UNCHANGED posts

Done == inbox' = Tail(inbox) /\ step' = "write"

PostAck ==
  /\ ~Waiting /\ step = "ack"
  /\ Post([kind |-> "ack", id |-> Head(inbox).id, claim |-> Head(inbox).claim, body |-> verdict])
  /\ IF verdict = "acked" THEN step' = "readback" /\ UNCHANGED inbox ELSE Done
  /\ UNCHANGED <<verdict, seen, field>>

(* What is read back is up to the plant; it may also not be readable.       *)
PostReadback ==
  /\ ~Waiting /\ step = "readback"
  /\ \E body \in {"match", "differ"} :
       Post([kind |-> "readback", id |-> Head(inbox).id, claim |-> Head(inbox).claim, body |-> body])
  /\ Done
  /\ UNCHANGED <<verdict, seen, field>>

(* The process dies and is started again.                                   *)
Restart ==
  /\ inbox' = <<>> /\ step' = "write" /\ verdict' = "failed" /\ seen' = {}
  /\ UNCHANGED <<posts, field>>

Commander ==
  \/ RefuseOutdated \/ RefuseReplayed \/ RefuseWrite \/ Write
  \/ PostAck \/ PostReadback

-----------------------------------------------------------------------------
(* Properties.                                                              *)

GatewayTypeOK ==
  /\ step \in {"write", "ack", "readback"}
  /\ verdict \in {"acked", "failed"}
  /\ \A p \in ToSet(inbox) \cup ToSet(field) : p.sensor \in Points
  /\ IsFiniteSet(seen) /\ Cardinality(seen) <= CacheMax
  /\ \A e \in seen : e.nth \in Nat
  /\ \A m \in posts : m.kind \in {"ack", "readback"}

(* deploy/gateway/README.md: a repeated command is not written.  However    *)
(* often one running gateway is handed a signed payload, it is written at   *)
(* most once: the nonce is forgotten only when the payload has expired.     *)
NonceWrittenOnce ==
  \A i, j \in DOMAIN field : Nonce(field[i]) = Nonce(field[j]) => i = j
=============================================================================
