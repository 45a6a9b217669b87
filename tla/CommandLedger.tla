---------------------------- MODULE CommandLedger ----------------------------
(***************************************************************************)
(* What supervisory control promises of each command, without clocks,      *)
(* tables or handlers: it is signed, released to the plant at most once,   *)
(* and settled once.  Commands with a single session implements this.      *)
(***************************************************************************)
CONSTANTS
  Ids,     \* commands
  Authors, \* who may ask for one
  Seconds, \* who may give the second signature
  Tickets  \* what identifies one release to the plant

VARIABLES
  stage,    \* of each command
  signers,  \* who has signed it
  released  \* under which tickets it went to the plant

ledger == <<stage, signers, released>>

(* "none", "requested" (waits for a second signature), "authorised",        *)
(* "released" (with the gateway), "settled" (the plant answered),           *)
(* "dropped" (never went to the plant).                                     *)
Stages == {"none", "requested", "authorised", "released", "settled", "dropped"}

Rest(i) == stage'[i] = stage[i] /\ signers'[i] = signers[i] /\ released'[i] = released[i]

Request(i, u) ==
  /\ stage[i] = "none" /\ stage'[i] \in {"requested", "authorised"}
  /\ signers'[i] = {u}
  /\ released'[i] = released[i]

Authorise(i, u) ==
  /\ stage[i] = "requested" /\ stage'[i] = "authorised"
  /\ u \notin signers[i]
  /\ signers'[i] = signers[i] \cup {u}
  /\ released'[i] = released[i]

Release(i, t) ==
  /\ stage[i] = "authorised" /\ stage'[i] = "released"
  /\ signers'[i] = signers[i]
  /\ released'[i] = released[i] \cup {t}

Settle(i) ==
  /\ stage[i] = "released" /\ stage'[i] = "settled"
  /\ signers'[i] = signers[i] /\ released'[i] = released[i]

Drop(i) ==
  /\ stage[i] \in {"requested", "authorised"} /\ stage'[i] = "dropped"
  /\ signers'[i] = signers[i] /\ released'[i] = released[i]

Step(i) ==
  \/ \E u \in Authors : Request(i, u)
  \/ \E u \in Seconds : Authorise(i, u)
  \/ \E t \in Tickets : Release(i, t)
  \/ Settle(i)
  \/ Drop(i)

LedgerInit ==
  /\ stage = [i \in Ids |-> "none"]
  /\ \A i \in Ids : released[i] = {}

(* One transaction may move several commands, each by one step of its own.  *)
LedgerNext == \A i \in Ids : Step(i) \/ Rest(i)

LedgerSpec == LedgerInit /\ [][LedgerNext]_ledger
=============================================================================
