------------------------------ MODULE Commands ------------------------------
(***************************************************************************)
(* Supervisory commands on the server: monitoring/control.py over the      *)
(* `commands` table of orm.py.                                             *)
(*                                                                         *)
(* An operator selects a point (a signed token that lives SelectTTL), then *)
(* executes the token (a row is inserted), a second person approves it on  *)
(* dual-approval points, the gateway claims what is pending, and its       *)
(* acknowledgement and read-back close the row.  A background sweep        *)
(* expires what was not claimed and gives up on what was not answered.     *)
(*                                                                         *)
(* Every handler reads rows, decides, and commits an UPDATE by primary     *)
(* key: no row lock and no version column.  So a handler is two steps here,*)
(* one that reads and decides (Execute, Approve, Claim ...) and Commit,    *)
(* and the handlers of different Sessions interleave between the two.      *)
(* With a single session the handlers are serialised.                      *)
(***************************************************************************)
EXTENDS Integers, FiniteSets

CONSTANTS
  Users,        \* people of the project
  Operators,    \* hold scada.command: select, execute, cancel
  Approvers,    \* hold scada.command.approve: the second signature
  Overriders,   \* hold scada.interlock.override
  NoUser,       \* the NULL of the approved_by column
  Sensors,      \* writable points
  DualSensors,  \* those with requires_dual_approval
  Conditions,   \* which obstructions may arise, see Obstructions
  Sessions,     \* database sessions that may be open at the same time
  CommandTTL,   \* sensor.command_ttl_s
  ApprovalTTL,  \* settings.command_approval_ttl_s
  SentTimeout,  \* settings.command_sent_timeout_s
  SelectTTL,    \* SELECT_TTL_S
  MaxCommands,  \* bound: rows of the table
  MaxClaims,    \* bound: claim transactions
  MaxTokens,    \* bound: select tokens alive at the same time
  MaxTime       \* bound: the clock

(* "closed": not writable, disabled, readdressed or out of the envelope;   *)
(* "loto": an active lockout/tagout; "interlock": a condition that fails   *)
(* or cannot be evaluated.                                                 *)
Obstructions == {"closed", "loto", "interlock"}

ASSUME PeopleAssumption ==
  /\ Operators \subseteq Users
  /\ Approvers \subseteq Users
  /\ Overriders \subseteq Users
  /\ Users # {}
  /\ NoUser \notin Users

ASSUME PointsAssumption ==
  /\ Sensors # {}
  /\ DualSensors \subseteq Sensors
  /\ Conditions \subseteq Obstructions

ASSUME BoundsAssumption ==
  /\ CommandTTL \in Nat \ {0}
  /\ ApprovalTTL \in Nat \ {0}
  /\ SentTimeout \in Nat
  /\ SelectTTL \in Nat
  /\ MaxCommands \in Nat
  /\ MaxClaims \in Nat
  /\ MaxTokens \in Nat
  /\ MaxTime \in Nat

VARIABLES
  now,       \* utcnow(), in ticks
  blocked,   \* obstructions in force at each point
  tokens,    \* unexpired select tokens, in the hands of their users
  commands,  \* the table
  session,   \* the open transaction of each session
  claims,    \* claim transactions begun, the source of fresh nonces
  handed     \* every signed payload a claim ever returned (history)

vars == <<now, blocked, tokens, commands, session, claims, handed>>

-----------------------------------------------------------------------------
(* The table and what a transaction is about to write to it.               *)

CommandIds == 1..MaxCommands

CommandStatus == {"pending_approval", "pending", "sent", "acked", "failed",
                  "cancelled", "expired", "mismatch", "unknown"}

Row == [sensor   : Sensors,
        author   : Users,
        override : BOOLEAN,
        status   : CommandStatus \cup {"absent"},
        approver : Users \cup {NoUser},
        expires  : Nat,
        sentAt   : Nat]

Token == [user : Users, sensor : Sensors, override : BOOLEAN, exp : Nat]

(* A signed payload; the nonce is fresh, it is the pair <<id, claim>>.      *)
(* `at` is the sent_at written with it.  The code cuts `exp` to whole       *)
(* seconds; a tick is at least one, and the cut only brings `exp` forward.  *)
Payload == [id : CommandIds, sensor : Sensors, claim : Nat, exp : Nat, at : Nat]

(* The new status of each row, "keep" for a row the transaction leaves.     *)
Plan == [CommandIds -> CommandStatus \cup {"keep"}]

Operations == {"execute", "approve", "cancel", "claim", "ack", "readback", "expire", "sweep"}

NoPlan == [i \in CommandIds |-> "keep"]

(* What a slot of the table holds before a row is inserted there.           *)
AbsentRow == [sensor   |-> CHOOSE s \in Sensors : TRUE,
              author   |-> CHOOSE u \in Users : TRUE,
              override |-> FALSE,
              status   |-> "absent",
              approver |-> NoUser,
              expires  |-> 0,
              sentAt   |-> 0]

Idle == [op |-> "idle", plan |-> NoPlan, user |-> NoUser, at |-> 0,
         row |-> AbsentRow, out |-> {}, read |-> [i \in CommandIds |-> "absent"]]

(* A handler has read and decided.  Its signer and its time stamp are kept  *)
(* where the commit writes them.  `read` is the status it loaded of each    *)
(* row it will write (history: the UPDATE does not look at it).             *)
Open(k, op, plan, user, row, out) ==
  /\ session[k] = Idle
  /\ session' = [session EXCEPT ![k] =
       [op |-> op, plan |-> plan, user |-> user, row |-> row, out |-> out,
        at |-> IF op \in {"approve", "claim"} THEN now ELSE 0,
        read |-> [i \in CommandIds |-> IF plan[i] = "keep" THEN "absent" ELSE commands[i].status]]]
  /\ UNCHANGED <<now, blocked, tokens, commands, handed>>

(* Definitions named Mutant... are plausible bugs in the definition that    *)
(* follows them; no specification uses them.                                *)

(* A "sent" command may be approved again, to repeat it.                    *)
MutantTransitions ==
  [s \in CommandStatus |->
     CASE s = "pending_approval" -> {"pending", "cancelled", "expired"}
       [] s = "pending" -> {"sent", "cancelled", "expired"}
       [] s = "sent"    -> {"pending", "sent", "acked", "failed", "mismatch", "unknown"}
       [] s = "unknown" -> {"acked", "failed", "mismatch"}
       [] s = "acked"   -> {"acked", "mismatch"}
       [] OTHER         -> {}]

TRANSITIONS ==
  [s \in CommandStatus |->
     CASE s = "pending_approval" -> {"pending", "cancelled", "expired"}
       [] s = "pending" -> {"sent", "cancelled", "expired"}
       [] s = "sent"    -> {"sent", "acked", "failed", "mismatch", "unknown"}
       [] s = "unknown" -> {"acked", "failed", "mismatch"}
       [] s = "acked"   -> {"acked", "mismatch"}
       [] OTHER         -> {}]

can_transition(old, new) == old \in CommandStatus /\ new \in TRANSITIONS[old]

(* set_status: the UPDATE carries the column only when the value changes.   *)
SetStatus(i, new) ==
  IF commands[i].status = new THEN NoPlan ELSE [NoPlan EXCEPT ![i] = new]

(* Whatever is open expires, what the gateway holds included.               *)
MutantExpired(i) == /\ commands[i].status \in {"pending", "pending_approval", "sent"}
                    /\ commands[i].expires <= now

(* A command that waits for approval does not expire.                       *)
MutantExpiredPending(i) == /\ commands[i].status = "pending"
                           /\ commands[i].expires <= now

(* expire_pending *)
Expired(i) == /\ commands[i].status \in {"pending", "pending_approval"}
              /\ commands[i].expires <= now

ExpirePlan == [i \in CommandIds |-> IF Expired(i) THEN "expired" ELSE "keep"]

(* recheck_command and the same tests in select and execute: a lockout and  *)
(* a closed point always refuse, an interlock unless overridden.            *)
Clear(s, override) ==
  /\ blocked[s] \cap {"closed", "loto"} = {}
  /\ "interlock" \in blocked[s] => override

-----------------------------------------------------------------------------
(* The handlers, up to their commit.                                        *)

MutantMayOverride(u, s) == "interlock" \in blocked[s]

MayOverride(u, s) == u \in Overriders /\ "interlock" \in blocked[s]

(* select_command writes no row.  The token records an override only when   *)
(* there was an interlock to override.                                      *)
Select(u, s, override) ==
  /\ u \in Operators
  /\ Cardinality(tokens) < MaxTokens
  /\ Clear(s, override)
  /\ override => MayOverride(u, s)
  /\ tokens' = tokens \cup
       {[user |-> u, sensor |-> s, override |-> override, exp |-> now + SelectTTL]}
  /\ UNCHANGED <<now, blocked, commands, session, claims, handed>>

NewRow(t) ==
  LET dual == t.sensor \in DualSensors IN
  [sensor   |-> t.sensor,
   author   |-> t.user,
   override |-> t.override,
   status   |-> IF dual THEN "pending_approval" ELSE "pending",
   approver |-> NoUser,
   expires  |-> now + (IF dual THEN ApprovalTTL ELSE CommandTTL),
   sentAt   |-> 0]

(* Only what the index of the table covers.                                 *)
MutantBusy(s) ==
  \E i \in CommandIds :
    /\ commands[i].sensor = s
    /\ commands[i].status \in {"pending", "sent"}
    /\ ~Expired(i)

(* The open command execute_command looks for, after expire_pending.        *)
Busy(s) ==
  \E i \in CommandIds :
    /\ commands[i].sensor = s
    /\ commands[i].status \in {"pending", "sent", "pending_approval"}
    /\ ~Expired(i)

(* execute_command: the token is not consumed.                              *)
Execute(k, t) ==
  /\ now <= t.exp
  /\ Clear(t.sensor, t.override)
  /\ ~Busy(t.sensor)
  /\ Open(k, "execute", ExpirePlan, NoUser, NewRow(t), {})
  /\ UNCHANGED claims

(* Authors may sign for themselves.                                         *)
MutantMaySign(u, i) == u \in Approvers /\ commands[i].status # "absent"

MaySign(u, i) ==
  u \in Approvers /\ commands[i].status # "absent" /\ commands[i].author # u

(* approve_command commits the expiry of overdue rows first, on its own ... *)
ApproveExpires(k, u, i) ==
  /\ MaySign(u, i)
  /\ \E j \in CommandIds : Expired(j)
  /\ Open(k, "expire", ExpirePlan, NoUser, AbsentRow, {})
  /\ UNCHANGED claims

(* ... and then signs.                                                      *)
Approve(k, u, i) ==
  /\ MaySign(u, i)
  /\ \A j \in CommandIds : ~Expired(j)
  /\ can_transition(commands[i].status, "pending")
  /\ Clear(commands[i].sensor, commands[i].override)
  /\ Open(k, "approve", SetStatus(i, "pending"), u, AbsentRow, {})
  /\ UNCHANGED claims

Cancel(k, u, i) ==
  /\ u \in Operators
  /\ commands[i].status \in {"pending", "pending_approval"}
  /\ can_transition(commands[i].status, "cancelled")
  /\ Open(k, "cancel", SetStatus(i, "cancelled"), NoUser, AbsentRow, {})
  /\ UNCHANGED claims

Ready == {i \in CommandIds : commands[i].status = "pending" /\ ~Expired(i)}

(* The audit action "command.blocked" is taken for a status.                *)
MutantClaimStatus(i) ==
  IF Clear(commands[i].sensor, commands[i].override) THEN "sent" ELSE "blocked"

(* No last check: the one at approval is relied on.                         *)
MutantUnchecked(i) == "sent"

(* claim_commands: the last check before the gateway.                       *)
ClaimStatus(i) ==
  IF Clear(commands[i].sensor, commands[i].override) THEN "sent" ELSE "cancelled"

(* A poll that finds nothing writes nothing and is left out.                *)
Claim(k) ==
  /\ claims < MaxClaims
  /\ Ready # {} \/ \E i \in CommandIds : Expired(i)
  /\ claims' = claims + 1
  /\ Open(k, "claim",
          [i \in CommandIds |-> IF i \in Ready THEN ClaimStatus(i) ELSE ExpirePlan[i]],
          NoUser, AbsentRow,
          {[id |-> i, sensor |-> commands[i].sensor, claim |-> claims + 1,
            exp |-> commands[i].expires, at |-> now] : i \in {j \in Ready : ClaimStatus(j) = "sent"}})

Ack(k, i, body) ==
  /\ commands[i].status \in {"sent", "unknown"}
  /\ can_transition(commands[i].status, body)
  /\ Open(k, "ack", SetStatus(i, body), NoUser, AbsentRow, {})
  /\ UNCHANGED claims

(* `matches`: the value read back is within the tolerance of the setpoint.  *)
Readback(k, i, matches) ==
  LET new == IF matches THEN "acked" ELSE "mismatch" IN
  /\ commands[i].status \in {"sent", "acked", "unknown"}
  /\ can_transition(commands[i].status, new)
  /\ Open(k, "readback", SetStatus(i, new), NoUser, AbsentRow, {})
  /\ UNCHANGED claims

(* The two times are swapped.                                               *)
MutantUnanswered(i) == /\ commands[i].status = "sent"
                       /\ commands[i].sentAt - now > SentTimeout

(* watchdog_sent *)
Unanswered(i) == /\ commands[i].status = "sent"
                 /\ now - commands[i].sentAt > SentTimeout

(* tick: the background loop, expiry and watchdog in one transaction.       *)
Sweep(k) ==
  /\ \E i \in CommandIds : Expired(i) \/ Unanswered(i)
  /\ Open(k, "sweep",
          [i \in CommandIds |-> IF Unanswered(i) THEN "unknown" ELSE ExpirePlan[i]],
          NoUser, AbsentRow, {})
  /\ UNCHANGED claims

-----------------------------------------------------------------------------
(* The commit.                                                              *)

(* Approval leaves expires_at as execute_command set it.                    *)
MutantUpdated(r, s, new) ==
  CASE new = "keep"    -> r
    [] new = "pending" -> [r EXCEPT !.status = new, !.approver = s.user]
    [] new = "sent"    -> [r EXCEPT !.status = new, !.sentAt = s.at]
    [] OTHER           -> [r EXCEPT !.status = new]

Updated(r, s, new) ==
  CASE new = "keep"    -> r
    [] new = "pending" -> [r EXCEPT !.status = new, !.approver = s.user,
                                    !.expires = s.at + CommandTTL]
    [] new = "sent"    -> [r EXCEPT !.status = new, !.sentAt = s.at]
    [] OTHER           -> [r EXCEPT !.status = new]

(* Where the transaction inserts its row: the next id, or nowhere (0).      *)
Slots(k) ==
  IF session[k].op = "execute"
  THEN {n \in CommandIds : /\ commands[n].status = "absent"
                           /\ \A m \in 1..(n - 1) : commands[m].status # "absent"}
  ELSE {0}

After(k, n) ==
  [i \in CommandIds |-> IF i = n THEN session[k].row
                        ELSE Updated(commands[i], session[k], session[k].plan[i])]

(* uq_commands_sensor_open, a partial unique index.                         *)
UniqueOpen(table) ==
  \A i, j \in CommandIds :
    /\ table[i].status \in {"pending", "sent"}
    /\ table[j].status \in {"pending", "sent"}
    /\ table[i].sensor = table[j].sensor
    => i = j

Commit(k) ==
  /\ session[k].op # "idle"
  /\ \E n \in Slots(k) :
       /\ UniqueOpen(After(k, n))
       /\ commands' = After(k, n)
  /\ handed' = handed \cup session[k].out
  /\ session' = [session EXCEPT ![k] = Idle]
  /\ UNCHANGED <<now, blocked, tokens, claims>>

(* IntegrityError: the index refuses the transaction as a whole.  An insert *)
(* beyond MaxCommands ends here too (bound).                                *)
Rollback(k) ==
  /\ session[k].op # "idle"
  /\ \A n \in Slots(k) : ~UniqueOpen(After(k, n))
  /\ session' = [session EXCEPT ![k] = Idle]
  /\ UNCHANGED <<now, blocked, tokens, commands, claims, handed>>

-----------------------------------------------------------------------------
(* The surroundings: time, engineers and maintenance staff.                 *)

Tick ==
  /\ now < MaxTime
  /\ now' = now + 1
  /\ tokens' = {t \in tokens : now' <= t.exp}
  /\ UNCHANGED <<blocked, commands, session, claims, handed>>

Obstruct(s, c) ==
  /\ blocked' = [blocked EXCEPT ![s] = IF c \in @ THEN @ \ {c} ELSE @ \cup {c}]
  /\ UNCHANGED <<now, tokens, commands, session, claims, handed>>

-----------------------------------------------------------------------------
Init ==
  /\ now = 0
  /\ blocked = [s \in Sensors |-> {}]
  /\ tokens = {}
  /\ commands = [i \in CommandIds |-> AbsentRow]
  /\ session = [k \in Sessions |-> Idle]
  /\ claims = 0
  /\ handed = {}

People ==
  \/ \E u \in Users, s \in Sensors, override \in BOOLEAN : Select(u, s, override)
  \/ \E k \in Sessions, t \in tokens : Execute(k, t)
  \/ \E k \in Sessions, u \in Users, i \in CommandIds :
       \/ ApproveExpires(k, u, i)
       \/ Approve(k, u, i)
       \/ Cancel(k, u, i)

(* What a gateway may call for any command it likes; CommandPath replaces   *)
(* this by what the gateway of ges_gateway.py does call.                    *)
Calls ==
  \E k \in Sessions, i \in CommandIds :
    \/ \E body \in {"sent", "acked", "failed"} : Ack(k, i, body)
    \/ \E matches \in BOOLEAN : Readback(k, i, matches)

Server ==
  \E k \in Sessions : Claim(k) \/ Sweep(k) \/ Commit(k) \/ Rollback(k)

Surroundings == Tick \/ \E s \in Sensors, c \in Conditions : Obstruct(s, c)

Next == People \/ Calls \/ Server \/ Surroundings

Spec == Init /\ [][Next]_vars

(* A begun handler runs to its end; the background loop comes round again   *)
(* whatever the requests do, on a session of its own; time passes.          *)
Fairness ==
  /\ WF_vars(Tick)
  /\ \A k \in Sessions : WF_vars(Commit(k) \/ Rollback(k))
  /\ SF_vars(\E k \in Sessions : Sweep(k))

FairSpec == Spec /\ Fairness

-----------------------------------------------------------------------------
(* Properties.                                                              *)

Transaction == [op : Operations \cup {"idle"}, plan : Plan, user : Users \cup {NoUser},
                at : Nat, row : Row, out : SUBSET Payload,
                read : [CommandIds -> CommandStatus \cup {"absent"}]]

(* Every variable holds a value of the kind the code keeps there.           *)
TypeOK ==
  /\ now \in Nat
  /\ blocked \in [Sensors -> SUBSET Obstructions]
  /\ tokens \subseteq Token
  /\ commands \in [CommandIds -> Row]
  /\ session \in [Sessions -> Transaction]
  /\ claims \in Nat
  /\ handed \subseteq Payload

(* Two-person rule (approve_command, requires_dual_approval): whatever      *)
(* interleaving of handlers led there, a payload for a dual-approval point  *)
(* leaves the server only with the signature of an approver who is not the  *)
(* author.                                                                  *)
TwoPersonRule ==
  \A p \in handed :
    commands[p.id].sensor \in DualSensors =>
      commands[p.id].approver \in Approvers \ {commands[p.id].author}

(* A stale setpoint is not carried out (docs/admin.md on command_ttl_s): a  *)
(* payload is claimed before it expires, and the expiry it carries lies at  *)
(* most CommandTTL ahead, however long the command waited for approval.     *)
FreshHandover ==
  \A p \in handed : p.at < p.exp /\ p.exp <= p.at + CommandTTL

(* What leaves under a failing interlock was asked for by a person entitled *)
(* to override: an override granted by select_command is still that         *)
(* person's after execution, approval and any number of failing and passing *)
(* evaluations in between.                                                  *)
OverrideEntitled ==
  [][\A k \in Sessions : session'[k].op = "claim" /\ session[k].op = "idle" =>
       \A p \in session'[k].out :
         "interlock" \in blocked[p.sensor] => commands[p.id].author \in Overriders]_vars

Lawful(old, new) ==
  \/ new = old
  \/ old = "absent" /\ new \in {"pending", "pending_approval"}
  \/ can_transition(old, new)

(* Session k commits its move of row i over a status it has not seen.       *)
Overwrites(k, i) ==
  /\ session'[k] = Idle
  /\ session[k].plan[i] # "keep" /\ commands'[i].status = session[k].plan[i]
  /\ commands[i].status # session[k].read[i]

(* The docstring of control.py: no move outside TRANSITIONS.  Overlapping   *)
(* handlers break it, but in one way only: wherever a row makes such a move,*)
(* a handler has overwritten the status another committed after it loaded   *)
(* the row; an UPDATE that compared the loaded status would refuse it.      *)
OnlyLostUpdates ==
  [][\A i \in CommandIds :
       \/ Lawful(commands[i].status, commands'[i].status)
       \/ \E k \in Sessions : Overwrites(k, i)]_vars

(* docs/admin.md, and the query of execute_command: a point has one open    *)
(* command at a time, one that waits for approval included.                 *)
OneOpenCommand ==
  \A i, j \in CommandIds :
    /\ commands[i].status \in {"pending_approval", "pending", "sent"}
    /\ commands[j].status \in {"pending_approval", "pending", "sent"}
    /\ commands[i].sensor = commands[j].sensor
    => i = j

(* A point is not held for ever: a command that waits is gone by its        *)
(* deadline, and one that was sent and not answered is given up.  Deadlines *)
(* beyond the modelled time are left out.                                   *)
Waits(i) == /\ commands[i].status \in {"pending", "pending_approval"}
            /\ commands[i].expires <= MaxTime

WaitingEnds == \A i \in CommandIds : Waits(i) ~> ~Waits(i)

(* The same of a command the gateway holds: the watchdog.                   *)
IsOut(i) == /\ commands[i].status = "sent"
            /\ commands[i].sentAt + SentTimeout < MaxTime

SentEnds == \A i \in CommandIds : IsOut(i) ~> ~IsOut(i)

-----------------------------------------------------------------------------
(* The abstract view: CommandLedger.                                        *)

StageOf ==
  [s \in CommandStatus \cup {"absent"} |->
     CASE s = "absent"                             -> "none"
       [] s = "pending_approval"                   -> "requested"
       [] s = "pending"                            -> "authorised"
       [] s \in {"sent", "unknown"}                -> "released"
       [] s \in {"acked", "failed", "mismatch"}    -> "settled"
       [] s \in {"cancelled", "expired"}           -> "dropped"]

SignersOf(r) ==
  IF r.status = "absent" THEN {} ELSE {r.author} \cup ({r.approver} \ {NoUser})

Ledger == INSTANCE CommandLedger WITH
  Ids      <- CommandIds,
  Authors  <- Users,
  Seconds  <- Approvers,
  Tickets  <- 1..MaxClaims,
  stage    <- [i \in CommandIds |-> StageOf[commands[i].status]],
  signers  <- [i \in CommandIds |-> SignersOf(commands[i])],
  released <- [i \in CommandIds |-> {p.claim : p \in {q \in handed : q.id = i}}]

(* With one session the server implements the ledger: no command is given   *)
(* out twice, none that was dropped is given out, none that was settled is  *)
(* given out again, and the second signature is another person's.           *)
ImplementsLedger == Ledger!LedgerSpec
=============================================================================
