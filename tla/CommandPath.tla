---------------------------- MODULE CommandPath ----------------------------
(***************************************************************************)
(* The whole way of a supervisory command: the server (Commands) and one   *)
(* field gateway (Gateway) with the HTTP between them.                     *)
(*                                                                         *)
(* The gateway asks for commands when it has none; if it stops waiting for *)
(* the answer (a timeout, a restart), the answer is lost though the server *)
(* has marked the rows "sent".  Its acknowledgements and read-backs reach  *)
(* the server late, out of order, or never; the server refuses with 409    *)
(* those it does not expect.  Only maintenance staff and the clock change  *)
(* anything besides.                                                       *)
(***************************************************************************)
EXTENDS Commands, Sequences

CONSTANTS Writable, Skew, Offset, CacheMax, Outcomes  \* as in Gateway

VARIABLES
  inbox, step, verdict, seen, posts, field,  \* as in Gateway
  answered,    \* the last poll whose answer the gateway has or has given up
  lockedSince  \* when the lockout in force at each point began (history)

G == INSTANCE Gateway WITH Points <- Sensors

ASSUME PathAssumption ==
  /\ Writable \subseteq Sensors
  /\ Skew \in Nat
  /\ Offset \in Int
  /\ CacheMax \in Nat \ {0}
  /\ Outcomes \subseteq G!Effects

server  == <<blocked, tokens, commands, session, claims, handed>>
gateway == <<inbox, step, verdict, seen, posts, field>>
path    == <<vars, gateway, answered, lockedSince>>

PathInit == Init /\ G!GatewayInit /\ answered = 0 /\ lockedSince = [s \in Sensors |-> 0]

-----------------------------------------------------------------------------
(* The gateway, single threaded, polls when its batch is done.  It may have *)
(* given up on an earlier poll that the server is still busy with.          *)
Poll(k) == Claim(k) /\ G!Waiting /\ UNCHANGED <<gateway, answered, lockedSince>>

(* Only the answer of the latest poll finds the gateway waiting.            *)
Batch == {p \in handed : p.claim = claims}

Deliver ==
  /\ answered < claims /\ Batch # {}
  /\ G!Receive(Batch)
  /\ answered' = claims
  /\ UNCHANGED <<now, server, lockedSince>>

Work == G!Commander /\ UNCHANGED <<now, server, answered, lockedSince>>

Restart ==
  /\ G!Restart
  /\ answered' = claims
  /\ UNCHANGED <<now, server, lockedSince>>

Taken(m) == posts' = posts \ {m} /\ UNCHANGED <<inbox, step, verdict, seen, field>>

(* The server begins to handle a post.                                      *)
Handle(k, m) ==
  /\ IF m.kind = "ack" THEN Ack(k, m.id, m.body) ELSE Readback(k, m.id, m.body = "match")
  /\ Taken(m)
  /\ UNCHANGED <<answered, lockedSince>>

(* 409, which the gateway ignores.                                          *)
Refuse(m) ==
  /\ commands[m.id].status \notin
       (IF m.kind = "ack" THEN {"sent", "unknown"} ELSE {"sent", "acked", "unknown"})
  /\ Taken(m)
  /\ UNCHANGED <<now, server, answered, lockedSince>>

Meet ==
  \/ \E k \in Sessions : Poll(k) \/ \E m \in posts : Handle(k, m)
  \/ \E m \in posts : Refuse(m)
  \/ Deliver

(* Lockouts are dated; all else the server does without the gateway.        *)
Lock(s, c) ==
  /\ Obstruct(s, c)
  /\ lockedSince' = [lockedSince EXCEPT ![s] = IF c = "loto" THEN now ELSE @]
  /\ UNCHANGED <<gateway, answered>>

Alone ==
  /\ \/ People
     \/ \E k \in Sessions : Sweep(k) \/ Commit(k) \/ Rollback(k)
     \/ Tick
  /\ UNCHANGED <<gateway, answered, lockedSince>>

PathNext ==
  \/ Alone
  \/ \E s \in Sensors, c \in Conditions : Lock(s, c)
  \/ Meet
  \/ Work
  \/ Restart

PathSpec == PathInit /\ [][PathNext]_path

-----------------------------------------------------------------------------
(* Properties.                                                              *)

(* Every variable holds a value of the kind the code keeps there.           *)
PathTypeOK ==
  /\ TypeOK
  /\ G!GatewayTypeOK
  /\ answered \in 0..claims
  /\ lockedSince \in [Sensors -> 0..now]

WrittenIds == {field[n].id : n \in DOMAIN field}

(* A payload reaches the plant in this step.                                *)
Written(p) == field' # field /\ p = field'[Len(field')]

(* watchdog_sent gives up on a command and frees its point only when the    *)
(* gateway can no longer write it: at every write the row still says        *)
(* "sent", so no other command for that point can be in flight.  It holds   *)
(* when SentTimeout >= CommandTTL + Skew - Offset and no update is lost.    *)
HeldWhileWritten ==
  [][\A p \in handed : Written(p) => commands[p.id].status = "sent"]_path

(* The gateway's README: a repeated command is not written.  Over polls,    *)
(* lost answers and restarts, the plant sees each command at most once.     *)
WrittenOnce ==
  \A m, n \in DOMAIN field : field[m].id = field[n].id => m = n

(* "acked" and "mismatch" are said only of commands that reached the plant. *)
AckedMeansWritten ==
  \A i \in CommandIds : commands[i].status \in {"acked", "mismatch"} => i \in WrittenIds

(* cancel_command refuses what the gateway may have: what is cancelled or   *)
(* expired was never written, and never will be.                            *)
CancelledNeverWritten ==
  \A i \in WrittenIds : commands[i].status \notin {"cancelled", "expired"}

(* claim_commands is the last look at lockouts, the gateway knows of none.  *)
(* So a point may be written under a lockout, but only if the lockout came  *)
(* after the claim, and no longer than the payload remains valid.           *)
LockoutHorizon ==
  [][\A p \in handed :
       Written(p) /\ "loto" \in blocked[p.sensor] =>
         /\ p.at <= lockedSince[p.sensor]
         /\ now <= lockedSince[p.sensor] + CommandTTL + Skew - Offset]_path
=============================================================================
