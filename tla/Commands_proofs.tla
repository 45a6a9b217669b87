-------------------------- MODULE Commands_proofs --------------------------
(***************************************************************************)
(* Theorems about Commands, for every choice of people, points and bounds. *)
(* First, for any number of sessions, types, the two-person rule, fresh    *)
(* payloads, overrides, and how far TRANSITIONS and one open command per   *)
(* point can fail.  Then, where no handler overwrites a status that changed*)
(* after it loaded the row: the ledger of CommandLedger is implemented.    *)
(***************************************************************************)
EXTENDS Commands, TLAPS

-----------------------------------------------------------------------------
(* What the helpers return.                                                 *)

LEMMA AbsentRowType == AbsentRow \in Row
BY PeopleAssumption, PointsAssumption DEF AbsentRow, Row

LEMMA NoPlanType == NoPlan \in Plan
BY DEF NoPlan, Plan

LEMMA IdleType == Idle \in Transaction
BY AbsentRowType, NoPlanType DEF Idle, Transaction

LEMMA ExpirePlanType == ExpirePlan \in Plan
BY DEF ExpirePlan, Plan, CommandStatus

LEMMA SetStatusType ==
  ASSUME NEW i \in CommandIds, NEW new \in CommandStatus
  PROVE  SetStatus(i, new) \in Plan
BY NoPlanType DEF SetStatus, Plan, NoPlan

LEMMA NewRowType ==
  ASSUME now \in Nat, NEW t \in Token
  PROVE  NewRow(t) \in Row
BY BoundsAssumption DEF NewRow, Row, Token, CommandStatus

LEMMA UpdatedType ==
  ASSUME NEW r \in Row, NEW s \in Transaction, NEW new \in CommandStatus \cup {"keep"}
  PROVE  Updated(r, s, new) \in Row
<1>1. s.user \in Users \cup {NoUser} /\ s.at \in Nat /\ s.at + CommandTTL \in Nat
  BY BoundsAssumption DEF Transaction
<1>2. CASE new = "keep"
  BY <1>2 DEF Updated
<1>3. CASE new = "pending"
  BY <1>1, <1>3 DEF Updated, Row, CommandStatus
<1>4. CASE new = "sent"
  BY <1>1, <1>4 DEF Updated, Row, CommandStatus
<1>5. CASE new \notin {"keep", "pending", "sent"}
  <2>1. Updated(r, s, new) = [r EXCEPT !.status = new]
    BY <1>5 DEF Updated
  <2> QED
    BY <2>1, <1>5 DEF Row
<1> QED
  BY <1>2, <1>3, <1>4, <1>5

LEMMA AfterType ==
  ASSUME TypeOK, NEW k \in Sessions, NEW n
  PROVE  After(k, n) \in [CommandIds -> Row]
<1>1. session[k] \in Transaction
  BY DEF TypeOK
<1>2. session[k].row \in Row /\ session[k].plan \in Plan
  BY <1>1 DEF Transaction
<1>3. \A i \in CommandIds : Updated(commands[i], session[k], session[k].plan[i]) \in Row
  BY <1>1, <1>2, UpdatedType DEF TypeOK, Plan
<1> QED
  BY <1>2, <1>3 DEF After

-----------------------------------------------------------------------------
(* A handler that has read and decided leaves the types alone.              *)
LEMMA OpenType ==
  ASSUME TypeOK,
         NEW k \in Sessions, NEW op \in Operations, NEW plan \in Plan,
         NEW user \in Users \cup {NoUser}, NEW row \in Row, NEW out \in SUBSET Payload,
         Open(k, op, plan, user, row, out),
         claims' \in Nat
  PROVE  TypeOK'
<1> DEFINE t == [op |-> op, plan |-> plan, user |-> user, row |-> row, out |-> out,
                 at |-> IF op \in {"approve", "claim"} THEN now ELSE 0,
                 read |-> [i \in CommandIds |-> IF plan[i] = "keep" THEN "absent"
                                                 ELSE commands[i].status]]
<1>1. t \in Transaction
  BY DEF TypeOK, Transaction, Row
<1>2. session' = [session EXCEPT ![k] = t]
  BY DEF Open
<1>3. session' \in [Sessions -> Transaction]
  BY <1>1, <1>2 DEF TypeOK
<1> QED
  BY <1>3 DEF TypeOK, Open

LEMMA TypeInit == Init => TypeOK
BY AbsentRowType, IdleType DEF Init, TypeOK

LEMMA TypeStep == TypeOK /\ [Next]_vars => TypeOK'
<1> SUFFICES ASSUME TypeOK, [Next]_vars PROVE TypeOK'
  OBVIOUS
<1> USE AbsentRowType
<1>1. ASSUME NEW u \in Users, NEW s \in Sensors, NEW override \in BOOLEAN, Select(u, s, override)
      PROVE  TypeOK'
  BY <1>1, BoundsAssumption DEF Select, TypeOK, Token
<1>2. ASSUME NEW k \in Sessions, NEW t \in tokens, Execute(k, t)
      PROVE  TypeOK'
  <2>1. t \in Token /\ now \in Nat
    BY DEF TypeOK
  <2>2. NewRow(t) \in Row
    BY <2>1, NewRowType
  <2>3. Open(k, "execute", ExpirePlan, NoUser, NewRow(t), {}) /\ claims' \in Nat
    BY <1>2 DEF Execute, TypeOK
  <2> QED
    BY <2>2, <2>3, ExpirePlanType, OpenType DEF Operations
<1>3. ASSUME NEW k \in Sessions, NEW u \in Users, NEW i \in CommandIds,
             ApproveExpires(k, u, i) \/ Approve(k, u, i) \/ Cancel(k, u, i)
      PROVE  TypeOK'
  <2>1. SetStatus(i, "pending") \in Plan /\ SetStatus(i, "cancelled") \in Plan
    BY SetStatusType DEF CommandStatus
  <2>2. CASE ApproveExpires(k, u, i)
    <3>1. Open(k, "expire", ExpirePlan, NoUser, AbsentRow, {}) /\ claims' \in Nat
      BY <2>2 DEF ApproveExpires, TypeOK
    <3> QED
      BY <3>1, ExpirePlanType, OpenType DEF Operations
  <2>3. CASE Approve(k, u, i)
    <3>1. Open(k, "approve", SetStatus(i, "pending"), u, AbsentRow, {}) /\ claims' \in Nat
      BY <2>3 DEF Approve, TypeOK
    <3> QED
      BY <2>1, <3>1, OpenType DEF Operations
  <2>4. CASE Cancel(k, u, i)
    <3>1. Open(k, "cancel", SetStatus(i, "cancelled"), NoUser, AbsentRow, {}) /\ claims' \in Nat
      BY <2>4 DEF Cancel, TypeOK
    <3> QED
      BY <2>1, <3>1, OpenType DEF Operations
  <2> QED
    BY <1>3, <2>2, <2>3, <2>4
<1>4. ASSUME NEW k \in Sessions, NEW i \in CommandIds,
             \/ \E body \in {"sent", "acked", "failed"} : Ack(k, i, body)
             \/ \E matches \in BOOLEAN : Readback(k, i, matches)
      PROVE  TypeOK'
  <2>1. ASSUME NEW body \in {"sent", "acked", "failed"}, Ack(k, i, body) PROVE TypeOK'
    <3>1. SetStatus(i, body) \in Plan
      BY SetStatusType DEF CommandStatus
    <3>2. Open(k, "ack", SetStatus(i, body), NoUser, AbsentRow, {}) /\ claims' \in Nat
      BY <2>1 DEF Ack, TypeOK
    <3> QED
      BY <3>1, <3>2, OpenType DEF Operations
  <2>2. ASSUME NEW matches \in BOOLEAN, Readback(k, i, matches) PROVE TypeOK'
    <3> DEFINE new == IF matches THEN "acked" ELSE "mismatch"
    <3>1. SetStatus(i, new) \in Plan
      BY SetStatusType DEF CommandStatus
    <3>2. Open(k, "readback", SetStatus(i, new), NoUser, AbsentRow, {}) /\ claims' \in Nat
      BY <2>2 DEF Readback, TypeOK
    <3> HIDE DEF new
    <3> QED
      BY <3>1, <3>2, OpenType DEF Operations
  <2> QED
    BY <1>4, <2>1, <2>2
<1>5. ASSUME NEW k \in Sessions, Claim(k) PROVE TypeOK'
  <2> DEFINE plan == [i \in CommandIds |-> IF i \in Ready THEN ClaimStatus(i) ELSE ExpirePlan[i]]
             out == {[id |-> i, sensor |-> commands[i].sensor, claim |-> claims + 1,
                      exp |-> commands[i].expires, at |-> now] :
                       i \in {j \in Ready : ClaimStatus(j) = "sent"}}
  <2>1. plan \in Plan
    BY ExpirePlanType DEF Plan, ClaimStatus, CommandStatus
  <2>2. out \in SUBSET Payload
    BY DEF Payload, Ready, TypeOK, Row
  <2>3. Open(k, "claim", plan, NoUser, AbsentRow, out) /\ claims' \in Nat
    BY <1>5 DEF Claim, TypeOK
  <2> HIDE DEF plan, out
  <2> QED
    BY <2>1, <2>2, <2>3, OpenType DEF Operations
<1>6. ASSUME NEW k \in Sessions, Sweep(k) PROVE TypeOK'
  <2> DEFINE plan == [i \in CommandIds |-> IF Unanswered(i) THEN "unknown" ELSE ExpirePlan[i]]
  <2>1. plan \in Plan
    BY ExpirePlanType DEF Plan, CommandStatus
  <2>2. Open(k, "sweep", plan, NoUser, AbsentRow, {}) /\ claims' \in Nat
    BY <1>6 DEF Sweep, TypeOK
  <2> HIDE DEF plan
  <2> QED
    BY <2>1, <2>2, OpenType DEF Operations
<1>7. ASSUME NEW k \in Sessions, Commit(k) \/ Rollback(k) PROVE TypeOK'
  <2>1. session' \in [Sessions -> Transaction]
    BY <1>7, IdleType DEF Commit, Rollback, TypeOK
  <2>2. commands' \in [CommandIds -> Row]
    BY <1>7, AfterType DEF Commit, Rollback, TypeOK
  <2>3. handed' \subseteq Payload
    BY <1>7 DEF Commit, Rollback, TypeOK, Transaction
  <2> QED
    BY <1>7, <2>1, <2>2, <2>3 DEF Commit, Rollback, TypeOK
<1>8. CASE Tick
  BY <1>8 DEF Tick, TypeOK
<1>9. ASSUME NEW s \in Sensors, NEW c \in Conditions, Obstruct(s, c) PROVE TypeOK'
  BY <1>9, PointsAssumption DEF Obstruct, TypeOK
<1>10. CASE UNCHANGED vars
  BY <1>10 DEF vars, TypeOK
<1> QED
  BY <1>1, <1>2, <1>3, <1>4, <1>5, <1>6, <1>7, <1>8, <1>9, <1>10
  DEF Next, People, Calls, Server, Surroundings

(* Every variable of the server keeps its type, whatever handlers           *)
(* interleave.                                                              *)
THEOREM TypeCorrect == Spec => []TypeOK
BY TypeInit, TypeStep, PTL DEF Spec

-----------------------------------------------------------------------------
(* What a commit does to the table.                                         *)

LEMMA UpdatedFields ==
  ASSUME NEW r \in Row, NEW s \in Transaction, NEW new \in CommandStatus \cup {"keep"}
  PROVE  LET u == Updated(r, s, new) IN
         /\ u.sensor = r.sensor /\ u.author = r.author /\ u.override = r.override
         /\ u.status = IF new = "keep" THEN r.status ELSE new
         /\ u.approver = IF new = "pending" THEN s.user ELSE r.approver
         /\ u.expires = IF new = "pending" THEN s.at + CommandTTL ELSE r.expires
         /\ u.sentAt = IF new = "sent" THEN s.at ELSE r.sentAt
<1>1. CASE new = "keep"
  BY <1>1 DEF Updated, Row
<1>2. CASE new = "pending"
  BY <1>2 DEF Updated, Row
<1>3. CASE new = "sent"
  BY <1>3 DEF Updated, Row
<1>4. CASE new \notin {"keep", "pending", "sent"}
  <2>1. Updated(r, s, new) = [r EXCEPT !.status = new]
    BY <1>4 DEF Updated
  <2> QED
    BY <2>1, <1>4 DEF Row
<1> QED
  BY <1>1, <1>2, <1>3, <1>4

(* Row n is inserted in an empty slot, or nowhere.                          *)
Inserts(k, n) ==
  n \in CommandIds =>
    /\ commands[n].status = "absent"
    /\ session[k].op = "execute"
    /\ commands'[n] = session[k].row

(* Row i is written as planned.                                             *)
Follows(k, i) ==
  LET new == session[k].plan[i] IN
  /\ commands'[i].sensor = commands[i].sensor
  /\ commands'[i].author = commands[i].author
  /\ commands'[i].override = commands[i].override
  /\ commands'[i].status = IF new = "keep" THEN commands[i].status ELSE new
  /\ commands'[i].approver = IF new = "pending" THEN session[k].user ELSE commands[i].approver
  /\ commands'[i].expires = IF new = "pending" THEN session[k].at + CommandTTL
                                               ELSE commands[i].expires
  /\ commands'[i].sentAt = IF new = "sent" THEN session[k].at ELSE commands[i].sentAt

LEMMA CommitEffect ==
  ASSUME TypeOK, NEW k \in Sessions, Commit(k)
  PROVE  /\ \E n : Inserts(k, n) /\ \A i \in CommandIds \ {n} : Follows(k, i)
         /\ session' = [session EXCEPT ![k] = Idle]
         /\ handed' = handed \cup session[k].out
<1>1. PICK n \in Slots(k) : commands' = After(k, n)
  BY DEF Commit
<1>2. n \in CommandIds => session[k].op = "execute" /\ commands[n].status = "absent"
  BY <1>1, BoundsAssumption DEF Slots, CommandIds
<1>3. Inserts(k, n)
  BY <1>1, <1>2 DEF Inserts, After
<1>4. ASSUME NEW i \in CommandIds \ {n} PROVE Follows(k, i)
  <2> DEFINE new == session[k].plan[i]
  <2>1. session[k] \in Transaction /\ commands[i] \in Row /\ new \in CommandStatus \cup {"keep"}
    BY DEF TypeOK, Transaction, Plan
  <2>2. commands'[i] = Updated(commands[i], session[k], new)
    BY <1>1 DEF After
  <2> QED
    BY <2>1, <2>2, UpdatedFields DEF Follows
<1> QED
  BY <1>3, <1>4 DEF Commit

-----------------------------------------------------------------------------
(* The two-person rule.  TwoPersonRule speaks of payloads already handed    *)
(* out; a step preserves it only because the rows a claim can read were     *)
(* signed, because nothing a handler still plans to write was decided on an *)
(* unsigned row, and because no commit takes a signature away.              *)

Cleared(i) ==
  /\ commands[i].status # "absent"
  /\ commands[i].sensor \in DualSensors =>
       commands[i].approver \in Approvers \ {commands[i].author}

Signed == {"pending", "sent", "acked", "failed", "mismatch", "unknown"}

RowsCleared == \A i \in CommandIds : commands[i].status \in Signed => Cleared(i)

PlanCleared(k, i) ==
  LET new == session[k].plan[i] IN
  /\ new # "keep" => commands[i].status # "absent"
  /\ new = "pending" => session[k].user \in Approvers \ {commands[i].author}
  /\ new \in Signed \ {"pending"} => Cleared(i)

PlansCleared == \A k \in Sessions, i \in CommandIds : PlanCleared(k, i)

InsertsWait ==
  \A k \in Sessions :
    session[k].op = "execute" =>
      /\ session[k].row.status \in {"pending", "pending_approval"}
      /\ session[k].row.sensor \in DualSensors => session[k].row.status = "pending_approval"

PayloadsCleared ==
  /\ \A k \in Sessions : \A p \in session[k].out : Cleared(p.id)
  /\ \A p \in handed : Cleared(p.id)

TwoPersonInv == RowsCleared /\ PlansCleared /\ InsertsWait /\ PayloadsCleared

(* A handler that begins keeps the invariant if its own plan, row and       *)
(* payloads do.                                                             *)
LEMMA TwoPersonOpen ==
  ASSUME TypeOK, TwoPersonInv,
         NEW k \in Sessions, NEW op, NEW plan \in Plan, NEW user, NEW row, NEW out,
         Open(k, op, plan, user, row, out),
         \A i \in CommandIds :
           /\ plan[i] # "keep" => commands[i].status # "absent"
           /\ plan[i] = "pending" => user \in Approvers \ {commands[i].author}
           /\ plan[i] \in Signed \ {"pending"} => Cleared(i),
         op = "execute" =>
           /\ row.status \in {"pending", "pending_approval"}
           /\ row.sensor \in DualSensors => row.status = "pending_approval",
         \A p \in out : Cleared(p.id)
  PROVE  TwoPersonInv'
<1>1. commands' = commands /\ handed' = handed
  BY DEF Open
<1>2. /\ session'[k].op = op /\ session'[k].plan = plan /\ session'[k].user = user
      /\ session'[k].row = row /\ session'[k].out = out
      /\ \A j \in Sessions \ {k} : session'[j] = session[j]
  BY DEF Open, TypeOK
<1>3. \A i : Cleared(i)' <=> Cleared(i)
  BY <1>1 DEF Cleared
<1>4. RowsCleared'
  BY <1>1, <1>3 DEF TwoPersonInv, RowsCleared
<1>5. PlansCleared'
  <2> SUFFICES ASSUME NEW j \in Sessions, NEW i \in CommandIds PROVE PlanCleared(j, i)'
    BY DEF PlansCleared
  <2>1. CASE j = k
    BY <1>1, <1>2, <1>3, <2>1 DEF PlanCleared
  <2>2. CASE j # k
    BY <1>1, <1>2, <1>3, <2>2 DEF TwoPersonInv, PlansCleared, PlanCleared
  <2> QED
    BY <2>1, <2>2
<1>6. InsertsWait'
  BY <1>2 DEF TwoPersonInv, InsertsWait
<1>7. PayloadsCleared'
  BY <1>1, <1>2, <1>3 DEF TwoPersonInv, PayloadsCleared
<1> QED
  BY <1>4, <1>5, <1>6, <1>7 DEF TwoPersonInv

(* A commit keeps every row that was there, its point and author, and its   *)
(* second signature.                                                        *)
LEMMA CommitKeeps ==
  ASSUME TypeOK, TwoPersonInv, NEW k \in Sessions, Commit(k)
  PROVE  \A i \in CommandIds :
           commands[i].status # "absent" =>
             /\ commands'[i].status # "absent"
             /\ commands'[i].author = commands[i].author
             /\ Cleared(i) => Cleared(i)'
<1>1. PICK n : Inserts(k, n) /\ \A i \in CommandIds \ {n} : Follows(k, i)
  BY CommitEffect
<1> SUFFICES ASSUME NEW i \in CommandIds, commands[i].status # "absent"
             PROVE  /\ commands'[i].status # "absent"
                    /\ commands'[i].author = commands[i].author
                    /\ Cleared(i) => Cleared(i)'
  OBVIOUS
<1>2. Follows(k, i)
  BY <1>1 DEF Inserts
<1>3. session[k].plan[i] \in CommandStatus \cup {"keep"} /\ PlanCleared(k, i)
  BY DEF TypeOK, Transaction, Plan, TwoPersonInv, PlansCleared
<1> QED
  BY <1>2, <1>3 DEF Follows, PlanCleared, Cleared, CommandStatus

LEMMA TwoPersonCommit ==
  ASSUME TypeOK, TwoPersonInv, NEW k \in Sessions, Commit(k)
  PROVE  TwoPersonInv'
<1>1. PICK n : Inserts(k, n) /\ \A i \in CommandIds \ {n} : Follows(k, i)
  BY CommitEffect
<1>2. session' = [session EXCEPT ![k] = Idle] /\ handed' = handed \cup session[k].out
  BY CommitEffect
<1>3. /\ session'[k] = Idle
      /\ \A j \in Sessions \ {k} : session'[j] = session[j]
  BY <1>2 DEF TypeOK
<1>4. \A p \in Payload : p.id \in CommandIds
  BY DEF Payload
<1>5. \A j \in Sessions : session[j].out \subseteq Payload /\ handed \subseteq Payload
  BY DEF TypeOK, Transaction
<1>6. RowsCleared'
  <2> SUFFICES ASSUME NEW i \in CommandIds, commands'[i].status \in Signed PROVE Cleared(i)'
    BY DEF RowsCleared
  <2>1. CASE i = n
    BY <1>1, <2>1 DEF Inserts, TwoPersonInv, InsertsWait, Cleared, Signed
  <2>2. CASE i # n
    <3>1. Follows(k, i) /\ PlanCleared(k, i)
      BY <1>1, <2>2 DEF TwoPersonInv, PlansCleared
    <3>2. CASE session[k].plan[i] = "keep"
      BY <3>1, <3>2, CommitKeeps DEF Follows, TwoPersonInv, RowsCleared, Cleared
    <3>3. CASE session[k].plan[i] = "pending"
      BY <3>1, <3>3 DEF Follows, PlanCleared, Cleared
    <3>4. CASE session[k].plan[i] \notin {"keep", "pending"}
      BY <3>1, <3>4, CommitKeeps DEF Follows, PlanCleared, Cleared
    <3> QED
      BY <3>2, <3>3, <3>4
  <2> QED
    BY <2>1, <2>2
<1>7. PlansCleared'
  <2> SUFFICES ASSUME NEW j \in Sessions, NEW i \in CommandIds PROVE PlanCleared(j, i)'
    BY DEF PlansCleared
  <2>1. CASE j = k
    BY <1>3, <2>1 DEF PlanCleared, Idle, NoPlan, Signed
  <2>2. CASE j # k
    <3>1. PlanCleared(j, i) /\ session'[j] = session[j]
      BY <1>3, <2>2 DEF TwoPersonInv, PlansCleared
    <3> QED
      BY <3>1, CommitKeeps DEF PlanCleared, Signed
  <2> QED
    BY <2>1, <2>2
<1>8. InsertsWait'
  BY <1>3 DEF TwoPersonInv, InsertsWait, Idle
<1>9. PayloadsCleared'
  <2>1. \A p \in Payload : Cleared(p.id) => Cleared(p.id)'
    BY <1>4, CommitKeeps DEF Cleared
  <2>2. \A j \in Sessions : \A p \in session'[j].out : Cleared(p.id)'
    BY <1>3, <1>5, <2>1 DEF TwoPersonInv, PayloadsCleared, Idle
  <2> QED
    BY <1>2, <1>5, <2>1, <2>2 DEF TwoPersonInv, PayloadsCleared
<1> QED
  BY <1>6, <1>7, <1>8, <1>9 DEF TwoPersonInv

LEMMA TwoPersonInit == Init => TwoPersonInv
<1> SUFFICES ASSUME Init PROVE TwoPersonInv
  OBVIOUS
<1>1. RowsCleared
  BY DEF Init, AbsentRow, RowsCleared, Signed
<1>2. PlansCleared
  BY DEF Init, Idle, NoPlan, PlansCleared, PlanCleared, Signed
<1>3. InsertsWait
  BY DEF Init, Idle, InsertsWait
<1>4. PayloadsCleared
  BY DEF Init, Idle, PayloadsCleared
<1> QED
  BY <1>1, <1>2, <1>3, <1>4 DEF TwoPersonInv

(* What the plans of expire_pending and set_status contain.                 *)
LEMMA ExpirePlanEntries ==
  \A i \in CommandIds :
    \/ ExpirePlan[i] = "keep"
    \/ ExpirePlan[i] = "expired" /\ commands[i].status \in {"pending", "pending_approval"}
BY DEF ExpirePlan, Expired

LEMMA SetStatusEntries ==
  ASSUME NEW i \in CommandIds, NEW new \in CommandStatus
  PROVE  \A j \in CommandIds : \/ SetStatus(i, new)[j] = "keep"
                               \/ j = i /\ SetStatus(i, new)[j] = new
<1>1. \A j \in CommandIds : NoPlan[j] = "keep"
  BY DEF NoPlan
<1>2. \A j \in CommandIds :
        [NoPlan EXCEPT ![i] = new][j] = IF j = i THEN new ELSE NoPlan[j]
  BY DEF NoPlan
<1> QED
  BY <1>1, <1>2 DEF SetStatus

LEMMA TwoPersonStep == TypeOK /\ TwoPersonInv /\ [Next]_vars => TwoPersonInv'
<1> SUFFICES ASSUME TypeOK, TwoPersonInv, [Next]_vars PROVE TwoPersonInv'
  OBVIOUS
<1> DEFINE Same == commands' = commands /\ session' = session /\ handed' = handed
<1>same. ASSUME Same PROVE TwoPersonInv'
  BY <1>same DEF TwoPersonInv, RowsCleared, PlansCleared, PlanCleared, InsertsWait,
                 PayloadsCleared, Cleared
<1>1. ASSUME NEW u \in Users, NEW s \in Sensors, NEW override \in BOOLEAN, Select(u, s, override)
      PROVE  TwoPersonInv'
  BY <1>1, <1>same DEF Select
<1>2. ASSUME NEW k \in Sessions, NEW t \in tokens, Execute(k, t)
      PROVE  TwoPersonInv'
  <2>1. NewRow(t).status \in {"pending", "pending_approval"}
    BY DEF NewRow
  <2>2. NewRow(t).sensor \in DualSensors => NewRow(t).status = "pending_approval"
    BY DEF NewRow
  <2>3. Open(k, "execute", ExpirePlan, NoUser, NewRow(t), {})
    BY <1>2 DEF Execute
  <2> QED
    BY <2>1, <2>2, <2>3, ExpirePlanType, ExpirePlanEntries, TwoPersonOpen DEF Signed
<1>3. ASSUME NEW k \in Sessions, NEW u \in Users, NEW i \in CommandIds,
             ApproveExpires(k, u, i)
      PROVE  TwoPersonInv'
  <2>1. Open(k, "expire", ExpirePlan, NoUser, AbsentRow, {})
    BY <1>3 DEF ApproveExpires
  <2> QED
    BY <2>1, ExpirePlanType, ExpirePlanEntries, TwoPersonOpen DEF Signed
<1>4. ASSUME NEW k \in Sessions, NEW u \in Users, NEW i \in CommandIds, Approve(k, u, i)
      PROVE  TwoPersonInv'
  <2>1. Open(k, "approve", SetStatus(i, "pending"), u, AbsentRow, {})
    BY <1>4 DEF Approve
  <2>2. u \in Approvers \ {commands[i].author} /\ commands[i].status # "absent"
    BY <1>4 DEF Approve, MaySign
  <2> QED
    BY <2>1, <2>2, SetStatusType, SetStatusEntries, TwoPersonOpen DEF Signed, CommandStatus
<1>5. ASSUME NEW k \in Sessions, NEW u \in Users, NEW i \in CommandIds, Cancel(k, u, i)
      PROVE  TwoPersonInv'
  <2>1. Open(k, "cancel", SetStatus(i, "cancelled"), NoUser, AbsentRow, {})
        /\ commands[i].status # "absent"
    BY <1>5 DEF Cancel
  <2> QED
    BY <2>1, SetStatusType, SetStatusEntries, TwoPersonOpen DEF Signed, CommandStatus
<1>6. ASSUME NEW k \in Sessions, NEW i \in CommandIds, NEW body \in {"sent", "acked", "failed"},
             Ack(k, i, body)
      PROVE  TwoPersonInv'
  <2>1. Open(k, "ack", SetStatus(i, body), NoUser, AbsentRow, {})
        /\ commands[i].status \in {"sent", "unknown"}
    BY <1>6 DEF Ack
  <2>2. Cleared(i)
    BY <2>1 DEF TwoPersonInv, RowsCleared, Signed
  <2>3. SetStatus(i, body) \in Plan
    BY SetStatusType DEF CommandStatus
  <2>4. \A j \in CommandIds : \/ SetStatus(i, body)[j] = "keep"
                              \/ j = i /\ SetStatus(i, body)[j] # "pending"
    BY SetStatusEntries DEF CommandStatus
  <2>5. commands[i].status # "absent"
    BY <2>2 DEF Cleared
  <2> QED
    BY <2>1, <2>2, <2>3, <2>4, <2>5, TwoPersonOpen DEF Signed
<1>7. ASSUME NEW k \in Sessions, NEW i \in CommandIds, NEW matches \in BOOLEAN,
             Readback(k, i, matches)
      PROVE  TwoPersonInv'
  <2> DEFINE new == IF matches THEN "acked" ELSE "mismatch"
  <2>1. Open(k, "readback", SetStatus(i, new), NoUser, AbsentRow, {})
        /\ commands[i].status \in {"sent", "acked", "unknown"}
    BY <1>7 DEF Readback
  <2>2. Cleared(i)
    BY <2>1 DEF TwoPersonInv, RowsCleared, Signed
  <2>3. new \in CommandStatus \ {"pending"}
    BY DEF CommandStatus
  <2> HIDE DEF new
  <2>4. SetStatus(i, new) \in Plan
    BY <2>3, SetStatusType
  <2>5. \A j \in CommandIds : \/ SetStatus(i, new)[j] = "keep"
                              \/ j = i /\ SetStatus(i, new)[j] # "pending"
    BY <2>3, SetStatusEntries
  <2>6. commands[i].status # "absent"
    BY <2>2 DEF Cleared
  <2> QED
    BY <2>1, <2>2, <2>4, <2>5, <2>6, TwoPersonOpen DEF Signed
<1>8. ASSUME NEW k \in Sessions, Claim(k) PROVE TwoPersonInv'
  <2> DEFINE plan == [i \in CommandIds |-> IF i \in Ready THEN ClaimStatus(i) ELSE ExpirePlan[i]]
             out == {[id |-> i, sensor |-> commands[i].sensor, claim |-> claims + 1,
                      exp |-> commands[i].expires, at |-> now] :
                       i \in {j \in Ready : ClaimStatus(j) = "sent"}}
  <2>1. Open(k, "claim", plan, NoUser, AbsentRow, out)
    BY <1>8 DEF Claim
  <2>2. \A i \in Ready : Cleared(i)
    BY DEF Ready, TwoPersonInv, RowsCleared, Signed
  <2>3. plan \in Plan
    BY ExpirePlanType DEF Plan, ClaimStatus, CommandStatus
  <2>4. \A i \in CommandIds :
          /\ plan[i] # "keep" => commands[i].status # "absent"
          /\ plan[i] # "pending"
          /\ plan[i] \in Signed \ {"pending"} => Cleared(i)
    BY <2>2, ExpirePlanEntries DEF Ready, ClaimStatus, Signed
  <2>5. \A p \in out : p.id \in Ready
    OBVIOUS
  <2>6. \A p \in out : Cleared(p.id)
    BY <2>2, <2>5
  <2> HIDE DEF plan, out
  <2> QED
    BY <2>1, <2>3, <2>4, <2>6, TwoPersonOpen
<1>9. ASSUME NEW k \in Sessions, Sweep(k) PROVE TwoPersonInv'
  <2> DEFINE plan == [i \in CommandIds |-> IF Unanswered(i) THEN "unknown" ELSE ExpirePlan[i]]
  <2>1. Open(k, "sweep", plan, NoUser, AbsentRow, {})
    BY <1>9 DEF Sweep
  <2>2. \A i \in CommandIds : Unanswered(i) => Cleared(i)
    BY DEF Unanswered, TwoPersonInv, RowsCleared, Signed
  <2>3. plan \in Plan
    BY ExpirePlanType DEF Plan, CommandStatus
  <2>4. \A i \in CommandIds :
          /\ plan[i] # "keep" => commands[i].status # "absent"
          /\ plan[i] # "pending"
          /\ plan[i] \in Signed \ {"pending"} => Cleared(i)
    BY <2>2, ExpirePlanEntries DEF Signed, Cleared
  <2> HIDE DEF plan
  <2> QED
    BY <2>1, <2>3, <2>4, TwoPersonOpen
<1>10. ASSUME NEW k \in Sessions, Commit(k) PROVE TwoPersonInv'
  BY <1>10, TwoPersonCommit
<1>11. ASSUME NEW k \in Sessions, Rollback(k) PROVE TwoPersonInv'
  <2>1. /\ commands' = commands /\ handed' = handed
        /\ session'[k] = Idle
        /\ \A j \in Sessions \ {k} : session'[j] = session[j]
    BY <1>11 DEF Rollback, TypeOK
  <2>2. \A j \in Sessions : session'[j] = Idle \/ session'[j] = session[j]
    BY <2>1
  <2> QED
    BY <2>1, <2>2 DEF TwoPersonInv, RowsCleared, PlansCleared, PlanCleared, InsertsWait,
                      PayloadsCleared, Cleared, Idle, NoPlan, Signed
<1>12. CASE Tick
  BY <1>12, <1>same DEF Tick
<1>13. ASSUME NEW s \in Sensors, NEW c \in Conditions, Obstruct(s, c) PROVE TwoPersonInv'
  BY <1>13, <1>same DEF Obstruct
<1>14. CASE UNCHANGED vars
  BY <1>14, <1>same DEF vars
<1> QED
  BY <1>1, <1>2, <1>3, <1>4, <1>5, <1>6, <1>7, <1>8, <1>9, <1>10, <1>11, <1>12, <1>13, <1>14
  DEF Next, People, Calls, Server, Surroundings

(* The two-person rule holds whatever handlers interleave, for any people,  *)
(* points and number of sessions.                                           *)
THEOREM TwoPersonCorrect == Spec => []TwoPersonRule
<1>1. TwoPersonInv => TwoPersonRule
  BY DEF TwoPersonInv, PayloadsCleared, Cleared, TwoPersonRule
<1> QED
  BY <1>1, TypeInit, TypeStep, TwoPersonInit, TwoPersonStep, PTL DEF Spec

-----------------------------------------------------------------------------
(* Freshness.  A claim copies expires_at into the payload, so the bound on  *)
(* the payload is a bound on every row that says "pending", and on every    *)
(* row a transaction is about to insert or sign.                            *)

Fresh(p) == p.at < p.exp /\ p.exp <= p.at + CommandTTL

FreshInv ==
  /\ \A i \in CommandIds : commands[i].status = "pending" => commands[i].expires <= now + CommandTTL
  /\ \A k \in Sessions :
       /\ session[k].at <= now
       /\ session[k].op = "execute" /\ session[k].row.status = "pending" =>
            session[k].row.expires <= now + CommandTTL
       /\ \A p \in session[k].out : Fresh(p)
  /\ \A p \in handed : Fresh(p)

(* A handler that begins keeps the invariant if its own row and payloads do.*)
LEMMA FreshOpen ==
  ASSUME TypeOK, FreshInv,
         NEW k \in Sessions, NEW op, NEW plan, NEW user, NEW row, NEW out,
         Open(k, op, plan, user, row, out),
         op = "execute" /\ row.status = "pending" => row.expires <= now + CommandTTL,
         \A p \in out : Fresh(p)
  PROVE  FreshInv'
<1>1. commands' = commands /\ handed' = handed /\ now' = now
  BY DEF Open
<1>2. /\ session'[k].op = op /\ session'[k].row = row /\ session'[k].out = out
      /\ session'[k].at <= now
      /\ \A j \in Sessions \ {k} : session'[j] = session[j]
  BY DEF Open, TypeOK
<1>3. \A j \in Sessions :
        /\ session'[j].at <= now'
        /\ session'[j].op = "execute" /\ session'[j].row.status = "pending" =>
             session'[j].row.expires <= now' + CommandTTL
        /\ \A p \in session'[j].out : Fresh(p)
  BY <1>1, <1>2 DEF FreshInv
<1> QED
  BY <1>1, <1>3 DEF FreshInv, Fresh

LEMMA FreshCommit ==
  ASSUME TypeOK, FreshInv, NEW k \in Sessions, Commit(k)
  PROVE  FreshInv'
<1>1. PICK n : Inserts(k, n) /\ \A i \in CommandIds \ {n} : Follows(k, i)
  BY CommitEffect
<1>2. now' = now /\ session' = [session EXCEPT ![k] = Idle] /\ handed' = handed \cup session[k].out
  BY CommitEffect DEF Commit
<1>3. session'[k] = Idle /\ \A j \in Sessions \ {k} : session'[j] = session[j]
  BY <1>2 DEF TypeOK
<1>4. ASSUME NEW i \in CommandIds, commands'[i].status = "pending"
      PROVE  commands'[i].expires <= now + CommandTTL
  <2>1. CASE i = n
    BY <1>1, <1>4, <2>1 DEF Inserts, FreshInv
  <2>2. CASE i # n
    <3>1. Follows(k, i)
      BY <1>1, <2>2
    <3>2. session[k].at \in Nat /\ session[k].at <= now /\ now \in Nat /\ CommandTTL \in Nat
      BY BoundsAssumption DEF FreshInv, TypeOK, Transaction
    <3> QED
      BY <1>4, <3>1, <3>2 DEF Follows, FreshInv
  <2> QED
    BY <2>1, <2>2
<1>5. \A j \in Sessions :
        /\ session'[j].at <= now
        /\ session'[j].op = "execute" /\ session'[j].row.status = "pending" =>
             session'[j].row.expires <= now + CommandTTL
        /\ \A p \in session'[j].out : Fresh(p)
  BY <1>3 DEF FreshInv, Idle, TypeOK
<1>6. \A p \in handed' : Fresh(p)
  BY <1>2 DEF FreshInv
<1> QED
  BY <1>2, <1>4, <1>5, <1>6 DEF FreshInv, Fresh

LEMMA FreshStep == TypeOK /\ FreshInv /\ [Next]_vars => FreshInv'
<1> SUFFICES ASSUME TypeOK, FreshInv, [Next]_vars PROVE FreshInv'
  OBVIOUS
<1> USE BoundsAssumption
<1>same. ASSUME commands' = commands, session' = session, handed' = handed, now' \in {now, now + 1}
         PROVE  FreshInv'
  <2>1. now \in Nat /\ now <= now' /\ now' \in Nat /\ CommandTTL \in Nat
    BY <1>same DEF TypeOK
  <2>2. \A i \in CommandIds : commands[i].expires \in Nat
    BY DEF TypeOK, Row
  <2>3. \A k \in Sessions : session[k].at \in Nat /\ session[k].row.expires \in Nat
    BY DEF TypeOK, Transaction, Row
  <2>4. \A i \in CommandIds :
          commands[i].status = "pending" => commands[i].expires <= now' + CommandTTL
    BY <2>1, <2>2 DEF FreshInv
  <2>5. \A k \in Sessions :
          /\ session[k].at <= now'
          /\ session[k].op = "execute" /\ session[k].row.status = "pending" =>
               session[k].row.expires <= now' + CommandTTL
    BY <2>1, <2>3 DEF FreshInv
  <2> QED
    BY <1>same, <2>4, <2>5 DEF FreshInv, Fresh
<1>1. ASSUME NEW u \in Users, NEW s \in Sensors, NEW override \in BOOLEAN, Select(u, s, override)
      PROVE  FreshInv'
  BY <1>1, <1>same DEF Select
<1>2. ASSUME NEW k \in Sessions, NEW t \in tokens, Execute(k, t)
      PROVE  FreshInv'
  <2>1. NewRow(t).status = "pending" => NewRow(t).expires <= now + CommandTTL
    BY DEF NewRow, TypeOK
  <2>2. Open(k, "execute", ExpirePlan, NoUser, NewRow(t), {})
    BY <1>2 DEF Execute
  <2> QED
    BY <2>1, <2>2, FreshOpen
<1>3. ASSUME NEW k \in Sessions, NEW u \in Users, NEW i \in CommandIds,
             ApproveExpires(k, u, i) \/ Approve(k, u, i) \/ Cancel(k, u, i)
      PROVE  FreshInv'
  BY <1>3, FreshOpen DEF ApproveExpires, Approve, Cancel
<1>4. ASSUME NEW k \in Sessions, NEW i \in CommandIds,
             \/ \E body \in {"sent", "acked", "failed"} : Ack(k, i, body)
             \/ \E matches \in BOOLEAN : Readback(k, i, matches)
      PROVE  FreshInv'
  BY <1>4, FreshOpen DEF Ack, Readback
<1>5. ASSUME NEW k \in Sessions, Claim(k) PROVE FreshInv'
  <2> DEFINE plan == [i \in CommandIds |-> IF i \in Ready THEN ClaimStatus(i) ELSE ExpirePlan[i]]
             out == {[id |-> i, sensor |-> commands[i].sensor, claim |-> claims + 1,
                      exp |-> commands[i].expires, at |-> now] :
                       i \in {j \in Ready : ClaimStatus(j) = "sent"}}
  <2>1. Open(k, "claim", plan, NoUser, AbsentRow, out)
    BY <1>5 DEF Claim
  <2>2. \A i \in Ready : now < commands[i].expires /\ commands[i].expires <= now + CommandTTL
    BY DEF Ready, Expired, FreshInv, TypeOK, Row
  <2>3. \A p \in out : Fresh(p)
    BY <2>2 DEF Fresh
  <2> HIDE DEF plan, out
  <2> QED
    BY <2>1, <2>3, FreshOpen
<1>6. ASSUME NEW k \in Sessions, Sweep(k) PROVE FreshInv'
  BY <1>6, FreshOpen DEF Sweep
<1>7. ASSUME NEW k \in Sessions, Commit(k) PROVE FreshInv'
  BY <1>7, FreshCommit
<1>8. ASSUME NEW k \in Sessions, Rollback(k) PROVE FreshInv'
  <2>1. /\ commands' = commands /\ handed' = handed /\ now' = now
        /\ \A j \in Sessions : session'[j] = Idle \/ session'[j] = session[j]
    BY <1>8 DEF Rollback, TypeOK
  <2> QED
    BY <2>1 DEF FreshInv, Fresh, Idle, TypeOK
<1>9. CASE Tick
  BY <1>9, <1>same DEF Tick
<1>10. ASSUME NEW s \in Sensors, NEW c \in Conditions, Obstruct(s, c) PROVE FreshInv'
  BY <1>10, <1>same DEF Obstruct
<1>11. CASE UNCHANGED vars
  BY <1>11, <1>same DEF vars
<1> QED
  BY <1>1, <1>2, <1>3, <1>4, <1>5, <1>6, <1>7, <1>8, <1>9, <1>10, <1>11
  DEF Next, People, Calls, Server, Surroundings

(* No payload leaves the server expired or with more than one CommandTTL to *)
(* live, whatever handlers interleave.                                      *)
THEOREM FreshCorrect == Spec => []FreshHandover
<1>1. Init => FreshInv
  BY DEF Init, AbsentRow, Idle, FreshInv
<1>2. FreshInv => FreshHandover
  BY DEF FreshInv, Fresh, FreshHandover
<1> QED
  BY <1>1, <1>2, TypeInit, TypeStep, FreshStep, PTL DEF Spec

-----------------------------------------------------------------------------
(* Overrides, with any number of sessions.  The flag travels from the token *)
(* to the row to be inserted to the table, and no handler sets it.          *)

OverrideInv ==
  /\ \A t \in tokens : t.override => t.user \in Overriders
  /\ \A k \in Sessions : session[k].row.override => session[k].row.author \in Overriders
  /\ \A i \in CommandIds : commands[i].override => commands[i].author \in Overriders

LEMMA OverrideStep == TypeOK /\ OverrideInv /\ [Next]_vars => OverrideInv'
<1> SUFFICES ASSUME TypeOK, OverrideInv, [Next]_vars PROVE OverrideInv'
  OBVIOUS
<1>open. ASSUME NEW k \in Sessions, NEW op, NEW plan, NEW user, NEW row, NEW out,
                Open(k, op, plan, user, row, out),
                row.override => row.author \in Overriders
         PROVE  OverrideInv'
  <2>1. session'[k].row = row /\ \A j \in Sessions \ {k} : session'[j] = session[j]
    BY <1>open DEF Open, TypeOK
  <2> QED
    BY <1>open, <2>1 DEF OverrideInv, Open
<1>absent. AbsentRow.override => AbsentRow.author \in Overriders
  BY DEF AbsentRow
<1>1. ASSUME NEW u \in Users, NEW s \in Sensors, NEW override \in BOOLEAN, Select(u, s, override)
      PROVE  OverrideInv'
  BY <1>1 DEF Select, MayOverride, OverrideInv
<1>2. ASSUME NEW k \in Sessions, NEW t \in tokens, Execute(k, t)
      PROVE  OverrideInv'
  <2>1. NewRow(t).override => NewRow(t).author \in Overriders
    BY DEF NewRow, OverrideInv
  <2>2. Open(k, "execute", ExpirePlan, NoUser, NewRow(t), {})
    BY <1>2 DEF Execute
  <2> QED
    BY <2>1, <2>2, <1>open
<1>3. ASSUME NEW k \in Sessions, NEW u \in Users, NEW i \in CommandIds,
             ApproveExpires(k, u, i) \/ Approve(k, u, i) \/ Cancel(k, u, i)
      PROVE  OverrideInv'
  BY <1>3, <1>absent, <1>open DEF ApproveExpires, Approve, Cancel
<1>4. ASSUME NEW k \in Sessions, NEW i \in CommandIds,
             \/ \E body \in {"sent", "acked", "failed"} : Ack(k, i, body)
             \/ \E matches \in BOOLEAN : Readback(k, i, matches)
      PROVE  OverrideInv'
  BY <1>4, <1>absent, <1>open DEF Ack, Readback
<1>5. ASSUME NEW k \in Sessions, Claim(k) \/ Sweep(k) PROVE OverrideInv'
  BY <1>5, <1>absent, <1>open DEF Claim, Sweep
<1>6. ASSUME NEW k \in Sessions, Commit(k) PROVE OverrideInv'
  <2>1. PICK n : Inserts(k, n) /\ \A i \in CommandIds \ {n} : Follows(k, i)
    BY <1>6, CommitEffect
  <2>2. \A i \in CommandIds : commands'[i].override => commands'[i].author \in Overriders
    BY <2>1 DEF Inserts, Follows, OverrideInv
  <2>3. tokens' = tokens /\ \A j \in Sessions : session'[j] = Idle \/ session'[j] = session[j]
    BY <1>6 DEF Commit, TypeOK
  <2> QED
    BY <2>2, <2>3, <1>absent DEF OverrideInv, Idle
<1>7. ASSUME NEW k \in Sessions, Rollback(k) PROVE OverrideInv'
  <2>1. /\ tokens' = tokens /\ commands' = commands
        /\ \A j \in Sessions : session'[j] = Idle \/ session'[j] = session[j]
    BY <1>7 DEF Rollback, TypeOK
  <2> QED
    BY <2>1, <1>absent DEF OverrideInv, Idle
<1>8. CASE Tick
  BY <1>8 DEF Tick, OverrideInv
<1>9. ASSUME NEW s \in Sensors, NEW c \in Conditions, Obstruct(s, c) PROVE OverrideInv'
  BY <1>9 DEF Obstruct, OverrideInv
<1>10. CASE UNCHANGED vars
  BY <1>10 DEF vars, OverrideInv
<1> QED
  BY <1>1, <1>2, <1>3, <1>4, <1>5, <1>6, <1>7, <1>8, <1>9, <1>10
  DEF Next, People, Calls, Server, Surroundings

(* Only a claim opens a claim.                                              *)
LEMMA ClaimOpens ==
  ASSUME TypeOK, [Next]_vars, NEW k \in Sessions,
         session[k].op = "idle", session'[k].op = "claim"
  PROVE  /\ Claim(k)
         /\ session'[k].out =
              {[id |-> i, sensor |-> commands[i].sensor, claim |-> claims + 1,
                exp |-> commands[i].expires, at |-> now] :
                  i \in {j \in Ready : ClaimStatus(j) = "sent"}}
<1> DEFINE Other(j) == session'[j] = session[j] \/ session'[j] = Idle \/ session'[j].op # "claim"
<1>1. ASSUME NEW j \in Sessions, NEW op, NEW plan, NEW user, NEW row, NEW out,
             Open(j, op, plan, user, row, out), op # "claim" \/ j # k
      PROVE  Other(k)
  BY <1>1 DEF Open, TypeOK
<1>2. CASE People \/ Calls \/ Surroundings \/ UNCHANGED vars
  <2>1. Other(k)
    BY <1>1, <1>2 DEF People, Calls, Surroundings, vars, Select, Execute, ApproveExpires, Approve,
                      Cancel, Ack, Readback, Tick, Obstruct
  <2> QED
    BY <2>1 DEF Idle
<1>3. ASSUME NEW j \in Sessions, Sweep(j) \/ Commit(j) \/ Rollback(j) \/ (Claim(j) /\ j # k)
      PROVE  FALSE
  <2>1. Other(k)
    BY <1>1, <1>3 DEF Sweep, Commit, Rollback, Claim, TypeOK
  <2> QED
    BY <2>1 DEF Idle
<1>4. Claim(k)
  BY <1>2, <1>3 DEF Next, Server
<1> QED
  BY <1>4 DEF Claim, Open, TypeOK

(* What leaves under a failing interlock was asked for by a person entitled *)
(* to override, whatever handlers interleave.                               *)
THEOREM OverrideCorrect == Spec => OverrideEntitled
<1> DEFINE Entitled == \A k \in Sessions : session'[k].op = "claim" /\ session[k].op = "idle" =>
             \A p \in session'[k].out :
               "interlock" \in blocked[p.sensor] => commands[p.id].author \in Overriders
<1>1. Init => OverrideInv
  BY DEF Init, AbsentRow, Idle, OverrideInv
<1>2. TypeOK /\ OverrideInv /\ [Next]_vars => [Entitled]_vars
  <2> SUFFICES ASSUME TypeOK, OverrideInv, [Next]_vars, NEW k \in Sessions,
                      session'[k].op = "claim", session[k].op = "idle",
                      NEW p \in session'[k].out, "interlock" \in blocked[p.sensor]
               PROVE  commands[p.id].author \in Overriders
    OBVIOUS
  <2>1. PICK i \in Ready : /\ ClaimStatus(i) = "sent"
                           /\ p.id = i /\ p.sensor = commands[i].sensor
    BY ClaimOpens
  <2> QED
    BY <2>1 DEF ClaimStatus, Clear, Ready, OverrideInv
<1> HIDE DEF Entitled
<1>3. Spec => [][Entitled]_vars
  BY <1>1, <1>2, TypeInit, TypeStep, OverrideStep, PTL DEF Spec
<1> QED
  BY <1>3 DEF OverrideEntitled, Entitled

-----------------------------------------------------------------------------
(* Transitions.  What an open transaction plans was decided on the rows as  *)
(* it loaded them; nothing here looks at the rows as they are since.        *)

Released == {"sent", "acked", "failed", "mismatch", "unknown"}

(* A row that waits for approval has no second signature yet.               *)
Waiting(r) ==
  r.status = "pending_approval" => r.approver = NoUser /\ r.sensor \in DualSensors

(* Every planned status is a transition, and none rewrites the old status.  *)
PlanFits(k, i) ==
  LET new == session[k].plan[i] IN
  new # "keep" => /\ can_transition(session[k].read[i], new)
                  /\ new # session[k].read[i]

InsertFits(k) ==
  session[k].op = "execute" =>
    /\ session[k].row.status \in {"pending", "pending_approval"}
    /\ session[k].row.approver = NoUser
    /\ Waiting(session[k].row)

(* One payload for each row that is to become "sent".                       *)
OutFits(k) ==
  /\ \A p \in session[k].out :
       /\ session[k].plan[p.id] = "sent"
       /\ p.at = session[k].at
       /\ p.claim \in 1..claims /\ p.claim <= MaxClaims
  /\ \A p, q \in session[k].out : p.id = q.id => p = q
  /\ \A i \in CommandIds : session[k].plan[i] = "sent" => \E p \in session[k].out : p.id = i

DecidedInv ==
  /\ \A i \in CommandIds : Waiting(commands[i])
  /\ \A k \in Sessions, i \in CommandIds : PlanFits(k, i)
  /\ \A k \in Sessions : InsertFits(k) /\ OutFits(k)
  /\ UniqueOpen(commands)

(* Only a commit writes the table or hands payloads out.                    *)
LEMMA OnlyCommitWrites ==
  ASSUME [Next]_vars
  PROVE  \/ commands' = commands /\ handed' = handed
         \/ \E k \in Sessions : Commit(k)
BY DEF Next, People, Calls, Server, Surroundings, vars, Select, Execute, ApproveExpires, Approve,
       Cancel, Ack, Readback, Claim, Sweep, Open, Rollback, Tick, Obstruct

(* The table of transitions, row by row.                                    *)
LEMMA Transitions ==
  ASSUME NEW old, NEW new, can_transition(old, new)
  PROVE  /\ old \in {"pending_approval", "pending", "sent", "unknown", "acked"}
         /\ new \in CommandStatus \ {"pending_approval"}
         /\ old = "pending_approval" => new \in {"pending", "cancelled", "expired"}
         /\ old = "pending" => new \in {"sent", "cancelled", "expired"}
         /\ old = "sent" => new \in {"sent", "acked", "failed", "mismatch", "unknown"}
         /\ old = "unknown" => new \in {"acked", "failed", "mismatch"}
         /\ old = "acked" => new \in {"acked", "mismatch"}
BY DEF can_transition, TRANSITIONS, CommandStatus

LEMMA DecidedInit == Init => DecidedInv
BY DEF Init, AbsentRow, Idle, NoPlan, DecidedInv, Waiting, PlanFits, InsertFits, OutFits,
       UniqueOpen

(* A handler that begins keeps the invariant if what it decided fits.       *)
LEMMA DecidedOpen ==
  ASSUME TypeOK, DecidedInv,
         NEW k \in Sessions, NEW op, NEW plan, NEW user, NEW row, NEW out \in SUBSET Payload,
         Open(k, op, plan, user, row, out), claims' \in {claims, claims + 1},
         \A i \in CommandIds : plan[i] # "keep" =>
           can_transition(commands[i].status, plan[i]) /\ plan[i] # commands[i].status,
         op = "execute" =>
           /\ row.status \in {"pending", "pending_approval"}
           /\ row.approver = NoUser /\ Waiting(row),
         \A p \in out :
           /\ plan[p.id] = "sent"
           /\ op = "claim" /\ p.at = now
           /\ p.claim \in 1..claims' /\ p.claim <= MaxClaims,
         \A p, q \in out : p.id = q.id => p = q,
         \A i \in CommandIds : plan[i] = "sent" => \E p \in out : p.id = i
  PROVE  DecidedInv'
<1>1. commands' = commands
  BY DEF Open
<1>2. /\ session'[k].op = op /\ session'[k].plan = plan /\ session'[k].row = row
      /\ session'[k].out = out /\ session'[k].at = IF op \in {"approve", "claim"} THEN now ELSE 0
      /\ \A i \in CommandIds : plan[i] # "keep" => session'[k].read[i] = commands[i].status
      /\ \A j \in Sessions \ {k} : session'[j] = session[j]
  BY DEF Open, TypeOK
<1>3. (\A i \in CommandIds : Waiting(commands[i]))' /\ UniqueOpen(commands)'
  BY <1>1 DEF DecidedInv, Waiting, UniqueOpen
<1>4. ASSUME NEW j \in Sessions, NEW i \in CommandIds PROVE PlanFits(j, i)'
  BY <1>2 DEF DecidedInv, PlanFits
<1>5. ASSUME NEW j \in Sessions PROVE InsertFits(j)'
  BY <1>2 DEF DecidedInv, InsertFits, Waiting
<1>6. ASSUME NEW j \in Sessions PROVE OutFits(j)'
  <2>1. CASE j = k
    <3>1. /\ session'[j].op = op /\ session'[j].plan = plan /\ session'[j].out = out
          /\ op = "claim" => session'[j].at = now
      BY <1>2, <2>1
    <3> QED
      BY <3>1 DEF OutFits
  <2>2. CASE j # k
    <3>1. session'[j] = session[j] /\ OutFits(j)
      BY <1>2, <2>2 DEF DecidedInv
    <3>2. claims \in Nat
      BY DEF TypeOK
    <3>3. \A c : c \in 1..claims => c \in 1..claims'
      BY <3>2
    <3> QED
      BY <3>1, <3>3 DEF OutFits
  <2> QED
    BY <2>1, <2>2
<1> QED
  BY <1>3, <1>4, <1>5, <1>6 DEF DecidedInv

LEMMA DecidedCommit ==
  ASSUME TypeOK, DecidedInv, NEW k \in Sessions, Commit(k)
  PROVE  DecidedInv'
<1>1. PICK n : Inserts(k, n) /\ \A i \in CommandIds \ {n} : Follows(k, i)
  BY CommitEffect
<1>2. claims' = claims /\ \A j \in Sessions : session'[j] = Idle \/ session'[j] = session[j]
  BY DEF Commit, TypeOK
<1>3. ASSUME NEW i \in CommandIds PROVE Waiting(commands'[i])
  <2>1. CASE i = n
    BY <1>1, <2>1 DEF Inserts, DecidedInv, InsertFits
  <2>2. CASE i # n
    <3>1. Follows(k, i) /\ PlanFits(k, i)
      BY <1>1, <2>2 DEF DecidedInv
    <3>2. session[k].plan[i] # "pending_approval"
      BY <3>1, Transitions DEF PlanFits
    <3> QED
      BY <3>1, <3>2 DEF Follows, DecidedInv, Waiting
  <2> QED
    BY <2>1, <2>2
<1>4. ASSUME NEW j \in Sessions
      PROVE  (\A i \in CommandIds : PlanFits(j, i)') /\ InsertFits(j)' /\ OutFits(j)'
  <2>1. CASE session'[j] = Idle
    BY <2>1 DEF Idle, NoPlan, PlanFits, InsertFits, OutFits
  <2>2. CASE session'[j] = session[j]
    BY <1>2, <2>2 DEF DecidedInv, PlanFits, InsertFits, Waiting, OutFits
  <2> QED
    BY <1>2, <2>1, <2>2
<1>5. UniqueOpen(commands')
  BY DEF Commit
<1> QED
  BY <1>3, <1>4, <1>5 DEF DecidedInv, Waiting, UniqueOpen

LEMMA DecidedStep == TypeOK /\ DecidedInv /\ [Next]_vars => DecidedInv'
<1> SUFFICES ASSUME TypeOK, DecidedInv, [Next]_vars PROVE DecidedInv'
  OBVIOUS
<1>same. ASSUME commands' = commands, session' = session, claims' = claims
         PROVE  DecidedInv'
  BY <1>same DEF DecidedInv, Waiting, PlanFits, InsertFits, OutFits, UniqueOpen
<1> DEFINE Fits(plan) == \A j \in CommandIds : plan[j] # "keep" =>
             can_transition(commands[j].status, plan[j]) /\ plan[j] # commands[j].status
<1>fits. /\ Fits(ExpirePlan) /\ \A j \in CommandIds : ExpirePlan[j] # "sent"
         /\ ExpirePlan \in Plan
  <2>1. can_transition("pending", "expired") /\ can_transition("pending_approval", "expired")
    BY DEF can_transition, TRANSITIONS, CommandStatus
  <2> QED
    BY <2>1, ExpirePlanEntries, ExpirePlanType
<1>set. ASSUME NEW i \in CommandIds, NEW new \in CommandStatus,
               can_transition(commands[i].status, new)
        PROVE  /\ Fits(SetStatus(i, new))
               /\ \A j \in CommandIds : SetStatus(i, new)[j] = "sent" => new = "sent"
  <2>1. commands[i].status = new => \A j \in CommandIds : SetStatus(i, new)[j] = "keep"
    BY DEF SetStatus, NoPlan
  <2> QED
    BY <1>set, <2>1, SetStatusEntries DEF CommandStatus
<1>1. ASSUME NEW u \in Users, NEW s \in Sensors, NEW override \in BOOLEAN, Select(u, s, override)
      PROVE  DecidedInv'
  BY <1>1, <1>same DEF Select
<1>2. ASSUME NEW k \in Sessions, NEW t \in tokens, Execute(k, t)
      PROVE  DecidedInv'
  <2>1. /\ NewRow(t).status \in {"pending", "pending_approval"}
        /\ NewRow(t).approver = NoUser /\ Waiting(NewRow(t))
    BY DEF NewRow, Waiting
  <2>2. Open(k, "execute", ExpirePlan, NoUser, NewRow(t), {}) /\ claims' = claims
    BY <1>2 DEF Execute
  <2> HIDE DEF Fits
  <2>3. Fits(ExpirePlan) => DecidedInv'
    BY <1>fits, <2>1, <2>2, DecidedOpen DEF Fits
  <2> QED
    BY <1>fits, <2>3
<1>3. ASSUME NEW k \in Sessions, NEW u \in Users, NEW i \in CommandIds, ApproveExpires(k, u, i)
      PROVE  DecidedInv'
  <2>1. Open(k, "expire", ExpirePlan, NoUser, AbsentRow, {}) /\ claims' = claims
    BY <1>3 DEF ApproveExpires
  <2> QED
    BY <1>fits, <2>1, DecidedOpen
<1>set1. ASSUME NEW k \in Sessions, NEW i \in CommandIds, NEW new \in CommandStatus \ {"sent"},
                NEW op \in Operations \ {"execute"}, NEW u,
                can_transition(commands[i].status, new),
                Open(k, op, SetStatus(i, new), u, AbsentRow, {}), UNCHANGED claims
         PROVE  DecidedInv'
  <2>1. Fits(SetStatus(i, new)) /\ \A j \in CommandIds : SetStatus(i, new)[j] # "sent"
    BY <1>set, <1>set1
  <2> QED
    BY <1>set1, <2>1, DecidedOpen
<1>4. ASSUME NEW k \in Sessions, NEW u \in Users, NEW i \in CommandIds,
             Approve(k, u, i) \/ Cancel(k, u, i)
      PROVE  DecidedInv'
  BY <1>4, <1>set1 DEF Approve, Cancel, CommandStatus, Operations
<1>5. ASSUME NEW k \in Sessions, NEW i \in CommandIds, NEW body \in {"sent", "acked", "failed"},
             Ack(k, i, body)
      PROVE  DecidedInv'
  <2>1. CASE body = "sent"
    <3>1. commands[i].status = "sent"
      BY <1>5, <2>1, Transitions DEF Ack
    <3>2. Open(k, "ack", NoPlan, NoUser, AbsentRow, {}) /\ claims' = claims
      BY <1>5, <2>1, <3>1 DEF Ack, SetStatus
    <3> QED
      BY <3>2, DecidedOpen DEF NoPlan
  <2>2. CASE body # "sent"
    BY <1>5, <2>2, <1>set1 DEF Ack, CommandStatus, Operations
  <2> QED
    BY <2>1, <2>2
<1>6. ASSUME NEW k \in Sessions, NEW i \in CommandIds, NEW matches \in BOOLEAN,
             Readback(k, i, matches)
      PROVE  DecidedInv'
  <2> DEFINE new == IF matches THEN "acked" ELSE "mismatch"
  <2>1. new \in CommandStatus \ {"sent"}
    BY DEF CommandStatus
  <2>2. /\ can_transition(commands[i].status, new)
        /\ Open(k, "readback", SetStatus(i, new), NoUser, AbsentRow, {})
        /\ UNCHANGED claims
    BY <1>6 DEF Readback
  <2> HIDE DEF new
  <2> QED
    BY <2>1, <2>2, <1>set1 DEF Operations
<1>7. ASSUME NEW k \in Sessions, Claim(k) PROVE DecidedInv'
  <2> DEFINE plan == [i \in CommandIds |-> IF i \in Ready THEN ClaimStatus(i) ELSE ExpirePlan[i]]
             out == {[id |-> i, sensor |-> commands[i].sensor, claim |-> claims + 1,
                      exp |-> commands[i].expires, at |-> now] :
                       i \in {j \in Ready : ClaimStatus(j) = "sent"}}
  <2>1. Open(k, "claim", plan, NoUser, AbsentRow, out) /\ claims' = claims + 1 /\ claims < MaxClaims
    BY <1>7 DEF Claim
  <2>2. can_transition("pending", "sent") /\ can_transition("pending", "cancelled")
    BY DEF can_transition, TRANSITIONS, CommandStatus
  <2>3. Fits(plan)
    BY <1>fits, <2>2 DEF Ready, ClaimStatus
  <2>4. ASSUME NEW p \in out
        PROVE  /\ plan[p.id] = "sent" /\ p.at = now
               /\ p.claim \in 1..claims' /\ p.claim <= MaxClaims
    BY <2>1, BoundsAssumption DEF Ready, TypeOK
  <2>5. \A p, q \in out : p.id = q.id => p = q
    OBVIOUS
  <2>6. ASSUME NEW i \in CommandIds, plan[i] = "sent" PROVE \E p \in out : p.id = i
    <3>1. i \in Ready /\ ClaimStatus(i) = "sent"
      BY <1>fits, <2>6
    <3>2. [id |-> i, sensor |-> commands[i].sensor, claim |-> claims + 1,
           exp |-> commands[i].expires, at |-> now] \in out
      BY <3>1
    <3> HIDE DEF out
    <3> QED
      BY <3>2
  <2>7. out \in SUBSET Payload
    BY DEF Payload, Ready, TypeOK, Row
  <2> HIDE DEF plan, out
  <2> QED
    BY <2>1, <2>3, <2>4, <2>5, <2>6, <2>7, DecidedOpen
<1>8. ASSUME NEW k \in Sessions, Sweep(k) PROVE DecidedInv'
  <2> DEFINE plan == [i \in CommandIds |-> IF Unanswered(i) THEN "unknown" ELSE ExpirePlan[i]]
  <2>1. Open(k, "sweep", plan, NoUser, AbsentRow, {}) /\ claims' = claims
    BY <1>8 DEF Sweep
  <2>2. can_transition("sent", "unknown")
    BY DEF can_transition, TRANSITIONS, CommandStatus
  <2>3. Fits(plan) /\ \A i \in CommandIds : plan[i] # "sent"
    BY <1>fits, <2>2 DEF Unanswered
  <2> HIDE DEF plan
  <2> QED
    BY <2>1, <2>3, DecidedOpen
<1>9. ASSUME NEW k \in Sessions, Commit(k) PROVE DecidedInv'
  BY <1>9, DecidedCommit
<1>10. ASSUME NEW k \in Sessions, Rollback(k) PROVE DecidedInv'
  <2>1. /\ commands' = commands /\ claims' = claims
        /\ \A j \in Sessions : session'[j] = Idle \/ session'[j] = session[j]
    BY <1>10 DEF Rollback, TypeOK
  <2>2. ASSUME NEW j \in Sessions
        PROVE  (\A i \in CommandIds : PlanFits(j, i)') /\ InsertFits(j)' /\ OutFits(j)'
    <3>1. CASE session'[j] = Idle
      BY <3>1 DEF Idle, NoPlan, PlanFits, InsertFits, OutFits
    <3>2. CASE session'[j] = session[j]
      BY <2>1, <3>2 DEF DecidedInv, PlanFits, InsertFits, Waiting, OutFits
    <3> QED
      BY <2>1, <3>1, <3>2
  <2> QED
    BY <2>1, <2>2 DEF DecidedInv, Waiting, UniqueOpen
<1>11. CASE Tick
  BY <1>11, <1>same DEF Tick
<1>12. ASSUME NEW s \in Sensors, NEW c \in Conditions, Obstruct(s, c) PROVE DecidedInv'
  BY <1>12, <1>same DEF Obstruct
<1>13. CASE UNCHANGED vars
  BY <1>13, <1>same DEF vars
<1> QED
  BY <1>1, <1>2, <1>3, <1>4, <1>5, <1>6, <1>7, <1>8, <1>9, <1>10, <1>11, <1>12, <1>13
  DEF Next, People, Calls, Server, Surroundings

(* Whatever handlers interleave, a status moves outside TRANSITIONS only    *)
(* where a handler overwrites what another has committed since it loaded    *)
(* the row.                                                                 *)
THEOREM LawfulCorrect == Spec => OnlyLostUpdates
<1> DEFINE Moves == \A i \in CommandIds :
             \/ Lawful(commands[i].status, commands'[i].status)
             \/ \E k \in Sessions : Overwrites(k, i)
<1>1. TypeOK /\ DecidedInv /\ [Next]_vars => [Moves]_vars
  <2> SUFFICES ASSUME TypeOK, DecidedInv, [Next]_vars, NEW i \in CommandIds
               PROVE  \/ Lawful(commands[i].status, commands'[i].status)
                      \/ \E k \in Sessions : Overwrites(k, i)
    OBVIOUS
  <2>1. ASSUME NEW k \in Sessions, Commit(k)
        PROVE  Lawful(commands[i].status, commands'[i].status) \/ Overwrites(k, i)
    <3>1. PICK n : Inserts(k, n) /\ \A j \in CommandIds \ {n} : Follows(k, j)
      BY <2>1, CommitEffect
    <3>2. CASE i = n
      BY <3>1, <3>2 DEF Inserts, DecidedInv, InsertFits, Lawful
    <3>3. CASE i # n
      <4>1. Follows(k, i) /\ PlanFits(k, i) /\ session'[k] = Idle
        BY <2>1, <3>1, <3>3 DEF DecidedInv, Commit, TypeOK
      <4> QED
        BY <4>1 DEF Follows, PlanFits, Lawful, Overwrites
    <3> QED
      BY <3>2, <3>3
  <2> QED
    BY <2>1, OnlyCommitWrites DEF Lawful
<1> HIDE DEF Moves
<1>2. Spec => [][Moves]_vars
  BY <1>1, TypeInit, TypeStep, DecidedInit, DecidedStep, PTL DEF Spec
<1> QED
  BY <1>2 DEF OnlyLostUpdates, Moves

(* How far one open command per point can fail: there are two only on a     *)
(* point with dual approval, and one of the two still waits for it, so that *)
(* a point is never with the gateway and on its way there twice.            *)
OpenPairsWait ==
  \A i, j \in CommandIds :
    /\ i # j /\ commands[i].sensor = commands[j].sensor
    /\ commands[i].status \in {"pending_approval", "pending", "sent"}
    /\ commands[j].status \in {"pending_approval", "pending", "sent"}
    => /\ commands[i].sensor \in DualSensors
       /\ "pending_approval" \in {commands[i].status, commands[j].status}

(* Overlapping executions open two commands on one point only where both    *)
(* need a second signature.                                                 *)
THEOREM OpenPairsCorrect == Spec => []OpenPairsWait
<1>1. DecidedInv => OpenPairsWait
  BY DEF DecidedInv, Waiting, UniqueOpen, OpenPairsWait
<1> QED
  BY <1>1, TypeInit, TypeStep, DecidedInit, DecidedStep, PTL DEF Spec

-----------------------------------------------------------------------------
(* Where no update is lost.  Handlers overlap as they like, any number of   *)
(* them, but none commits over a status that changed after it loaded the    *)
(* row: what an UPDATE ... WHERE status = <the loaded one> would ensure, and*)
(* the UPDATE by primary key does not.  The theorems that assume it are     *)
(* false without it: the run path_written_twice shows one way.              *)

CommitsUnder(k) ==
  Commit(k) => \A i \in CommandIds :
    session[k].plan[i] # "keep" => session[k].read[i] = commands[i].status

NothingLost == [][\A k \in Sessions : CommitsUnder(k)]_vars

(* A status that was loaded is the current one or an earlier one.           *)
ReadFits(k, i) ==
  session[k].plan[i] # "keep" =>
    /\ commands[i].status # "absent"
    /\ commands[i].status = "pending_approval" => session[k].read[i] = "pending_approval"
    /\ commands[i].status = "pending" => session[k].read[i] \in {"pending_approval", "pending"}

(* A payload copies its row, as long as that is not given out.              *)
CopyFits(p) ==
  /\ p.sensor = commands[p.id].sensor
  /\ commands[p.id].status = "pending" => p.exp = commands[p.id].expires

(* What was handed out once was released, and stays so.                     *)
HandedFits(p) ==
  /\ commands[p.id].status \in Released
  /\ p.sensor = commands[p.id].sensor /\ p.exp = commands[p.id].expires
  /\ p.at = commands[p.id].sentAt

HandedOnce ==
  /\ \A p \in handed : HandedFits(p)
  /\ \A p, q \in handed : p.id = q.id => p = q

HandoverInv ==
  /\ DecidedInv
  /\ \A k \in Sessions, i \in CommandIds : ReadFits(k, i)
  /\ \A k \in Sessions : \A p \in session[k].out : CopyFits(p)
  /\ HandedOnce

LEMMA HandoverInit == Init => HandoverInv
BY DecidedInit DEF Init, Idle, NoPlan, HandoverInv, ReadFits, HandedOnce

(* A handler that begins reads what is there, and its payloads are copies.  *)
LEMMA HandoverOpen ==
  ASSUME TypeOK, HandoverInv,
         NEW k \in Sessions, NEW op, NEW plan, NEW user, NEW row, NEW out,
         Open(k, op, plan, user, row, out), DecidedInv',
         \A p \in out : CopyFits(p)
  PROVE  HandoverInv'
<1>1. commands' = commands /\ handed' = handed
  BY DEF Open
<1>2. /\ session'[k].plan = plan /\ session'[k].out = out
      /\ \A i \in CommandIds : plan[i] # "keep" => session'[k].read[i] = commands[i].status
      /\ \A j \in Sessions \ {k} : session'[j] = session[j]
  BY DEF Open, TypeOK
<1>3. ASSUME NEW j \in Sessions, NEW i \in CommandIds PROVE ReadFits(j, i)'
  <2>1. CASE j = k
    <3>1. session'[k].plan[i] # "keep" => commands[i].status # "absent"
      BY <1>2, Transitions DEF DecidedInv, PlanFits
    <3> QED
      BY <1>1, <1>2, <2>1, <3>1 DEF ReadFits
  <2>2. CASE j # k
    BY <1>1, <1>2, <2>2 DEF HandoverInv, ReadFits
  <2> QED
    BY <2>1, <2>2
<1>4. \A j \in Sessions : \A p \in session'[j].out : CopyFits(p)'
  BY <1>1, <1>2 DEF HandoverInv, CopyFits
<1>5. HandedOnce'
  BY <1>1 DEF HandoverInv, HandedOnce, HandedFits
<1> QED
  BY <1>3, <1>4, <1>5 DEF HandoverInv

(* A commit that loses no update: a row is inserted in its empty slot, or   *)
(* moves along TRANSITIONS from the status its handler loaded.              *)
LEMMA HandoverRow ==
  ASSUME TypeOK, HandoverInv, NEW k \in Sessions, Commit(k), CommitsUnder(k), NEW i \in CommandIds
  PROVE  \/ /\ commands[i].status = "absent" /\ session[k].op = "execute"
            /\ commands'[i] = session[k].row
            /\ \A j \in Sessions : session[j].plan[i] = "keep"
         \/ /\ Follows(k, i)
            /\ session[k].plan[i] # "keep" =>
                 /\ can_transition(commands[i].status, session[k].plan[i])
                 /\ session[k].plan[i] # commands[i].status
<1>1. PICK n : Inserts(k, n) /\ \A j \in CommandIds \ {n} : Follows(k, j)
  BY CommitEffect
<1>2. CASE i = n
  BY <1>1, <1>2 DEF Inserts, HandoverInv, ReadFits
<1>3. CASE i # n
  BY <1>1, <1>3 DEF CommitsUnder, HandoverInv, DecidedInv, PlanFits
<1> QED
  BY <1>2, <1>3

LEMMA HandoverCommit ==
  ASSUME TypeOK, HandoverInv, NEW k \in Sessions, Commit(k), CommitsUnder(k), DecidedInv'
  PROVE  HandoverInv'
<1>1. /\ handed' = handed \cup session[k].out
      /\ \A j \in Sessions : session'[j] = Idle \/ session'[j] = session[j]
  BY CommitEffect DEF TypeOK
<1>2. handed \subseteq Payload /\ \A j \in Sessions : session[j].out \subseteq Payload
  BY DEF TypeOK, Transaction
<1>3. ASSUME NEW i \in CommandIds
      PROVE  \/ /\ commands[i].status = "absent"
                /\ \A j \in Sessions : session[j].plan[i] = "keep"
             \/ Follows(k, i) /\ session[k].plan[i] = "keep"
             \/ /\ Follows(k, i)
                /\ can_transition(commands[i].status, session[k].plan[i])
                /\ session[k].plan[i] # commands[i].status
                /\ commands'[i].status = session[k].plan[i]
  BY HandoverRow DEF Follows
<1>4. ASSUME NEW j \in Sessions, NEW i \in CommandIds PROVE ReadFits(j, i)'
  <2>1. CASE session'[j] = Idle
    BY <2>1 DEF Idle, NoPlan, ReadFits
  <2>2. CASE session'[j] = session[j] /\ session[j].plan[i] # "keep"
    <3>1. ReadFits(j, i)
      BY DEF HandoverInv
    <3>2. CASE Follows(k, i) /\ session[k].plan[i] = "keep"
      BY <2>2, <3>1, <3>2 DEF Follows, ReadFits
    <3>3. CASE /\ can_transition(commands[i].status, session[k].plan[i])
               /\ commands'[i].status = session[k].plan[i]
      <4>1. /\ commands'[i].status \in CommandStatus \ {"pending_approval"}
            /\ commands'[i].status = "pending" => commands[i].status = "pending_approval"
        BY <3>3, Transitions DEF CommandStatus
      <4> QED
        BY <2>2, <3>1, <4>1 DEF ReadFits, CommandStatus
    <3> QED
      BY <1>3, <2>2, <3>2, <3>3
  <2>3. CASE session'[j] = session[j] /\ session[j].plan[i] = "keep"
    BY <2>3 DEF ReadFits
  <2> QED
    BY <1>1, <2>1, <2>2, <2>3
<1>5. ASSUME NEW j \in Sessions, NEW p \in session'[j].out PROVE CopyFits(p)'
  <2>1. session'[j] = session[j]
    BY <1>1, <1>5 DEF Idle
  <2>2. p \in session[j].out /\ p.id \in CommandIds
    BY <1>2, <1>5, <2>1 DEF Payload
  <2>3. CopyFits(p) /\ ReadFits(j, p.id) /\ session[j].plan[p.id] = "sent"
    BY <2>2 DEF HandoverInv, DecidedInv, OutFits
  <2>4. session[j].read[p.id] = "pending"
    <3>1. PlanFits(j, p.id)
      BY <2>2 DEF HandoverInv, DecidedInv
    <3> QED
      BY <2>3, <3>1, Transitions DEF PlanFits
  <2>5. commands[p.id].status \notin {"absent", "pending_approval"}
    BY <2>3, <2>4 DEF ReadFits
  <2>6. Follows(k, p.id)
    BY <1>3, <2>2, <2>5
  <2>7. session[k].plan[p.id] # "pending"
    BY <1>3, <2>2, <2>5, Transitions
  <2> QED
    BY <2>3, <2>5, <2>6, <2>7 DEF CopyFits, Follows
<1>6. ASSUME NEW p \in handed PROVE HandedFits(p)'
  <2>1. p.id \in CommandIds /\ HandedFits(p)
    BY <1>2 DEF Payload, HandoverInv, HandedOnce
  <2>2. commands[p.id].status \in Released
    BY <2>1 DEF HandedFits
  <2>3. Follows(k, p.id)
    BY <1>3, <2>1, <2>2 DEF Released
  <2>4. session[k].plan[p.id] = "keep" \/ session[k].plan[p.id] \in Released \ {"sent", "pending"}
    BY <1>3, <2>1, <2>2, Transitions DEF Released
  <2> QED
    BY <2>1, <2>3, <2>4 DEF Follows, HandedFits
<1>7. ASSUME NEW p \in session[k].out PROVE HandedFits(p)' /\ commands[p.id].status = "pending"
  <2>1. /\ p.id \in CommandIds /\ session[k].plan[p.id] = "sent"
        /\ CopyFits(p) /\ p.at = session[k].at
    BY <1>2 DEF Payload, HandoverInv, DecidedInv, OutFits
  <2>2. Follows(k, p.id) /\ commands[p.id].status = "pending"
    BY <1>3, <2>1, Transitions
  <2> QED
    BY <2>1, <2>2 DEF Follows, CopyFits, HandedFits, Released
<1>8. HandedOnce'
  <2>1. \A p \in handed, q \in session[k].out : p.id # q.id
    BY <1>7 DEF HandoverInv, HandedOnce, HandedFits, Released
  <2>2. \A p, q \in handed' : p.id = q.id => p = q
    BY <1>1, <2>1 DEF HandoverInv, HandedOnce, DecidedInv, OutFits
  <2> QED
    BY <1>1, <1>6, <1>7, <2>2 DEF HandedOnce
<1> QED
  BY <1>4, <1>5, <1>8 DEF HandoverInv

LEMMA HandoverStep ==
  TypeOK /\ HandoverInv /\ [Next]_vars /\ [\A k \in Sessions : CommitsUnder(k)]_vars
    => HandoverInv'
<1> SUFFICES ASSUME TypeOK, HandoverInv, [Next]_vars,
                    [\A k \in Sessions : CommitsUnder(k)]_vars
             PROVE  HandoverInv'
  OBVIOUS
<1>decided. DecidedInv'
  BY DecidedStep DEF HandoverInv
<1>same. ASSUME commands' = commands, session' = session, handed' = handed
         PROVE  HandoverInv'
  BY <1>same, <1>decided DEF HandoverInv, ReadFits, CopyFits, HandedOnce, HandedFits
<1>plain. ASSUME NEW k \in Sessions, NEW op, NEW plan, NEW user, NEW row,
                 Open(k, op, plan, user, row, {})
          PROVE  HandoverInv'
  BY <1>plain, <1>decided, HandoverOpen
<1>1. CASE People \/ Calls \/ Surroundings
  BY <1>1, <1>same, <1>plain
  DEF People, Calls, Surroundings, Select, Execute, ApproveExpires, Approve, Cancel, Ack, Readback,
      Tick, Obstruct
<1>2. ASSUME NEW k \in Sessions, Claim(k) PROVE HandoverInv'
  <2> DEFINE plan == [i \in CommandIds |-> IF i \in Ready THEN ClaimStatus(i) ELSE ExpirePlan[i]]
             out == {[id |-> i, sensor |-> commands[i].sensor, claim |-> claims + 1,
                      exp |-> commands[i].expires, at |-> now] :
                       i \in {j \in Ready : ClaimStatus(j) = "sent"}}
  <2>1. Open(k, "claim", plan, NoUser, AbsentRow, out)
    BY <1>2 DEF Claim
  <2>2. \A p \in out : CopyFits(p)
    BY DEF CopyFits
  <2> HIDE DEF plan, out
  <2> QED
    BY <2>1, <2>2, <1>decided, HandoverOpen
<1>3. ASSUME NEW k \in Sessions, Sweep(k) PROVE HandoverInv'
  BY <1>3, <1>plain DEF Sweep
<1>4. ASSUME NEW k \in Sessions, Commit(k) PROVE HandoverInv'
  <2>1. CASE UNCHANGED vars
    BY <2>1, <1>same DEF vars
  <2>2. CASE CommitsUnder(k)
    BY <1>4, <2>2, <1>decided, HandoverCommit
  <2> QED
    BY <2>1, <2>2
<1>5. ASSUME NEW k \in Sessions, Rollback(k) PROVE HandoverInv'
  <2>1. /\ commands' = commands /\ handed' = handed
        /\ \A j \in Sessions : session'[j] = Idle \/ session'[j] = session[j]
    BY <1>5 DEF Rollback, TypeOK
  <2>2. ASSUME NEW j \in Sessions, NEW i \in CommandIds PROVE ReadFits(j, i)'
    BY <2>1 DEF HandoverInv, ReadFits, Idle, NoPlan
  <2>3. ASSUME NEW j \in Sessions, NEW p \in session'[j].out PROVE CopyFits(p)'
    BY <2>1, <2>3 DEF HandoverInv, CopyFits, Idle
  <2> QED
    BY <2>1, <2>2, <2>3, <1>decided DEF HandoverInv, HandedOnce, HandedFits
<1>6. CASE UNCHANGED vars
  BY <1>6, <1>same DEF vars
<1> QED
  BY <1>1, <1>2, <1>3, <1>4, <1>5, <1>6 DEF Next, Server

(* Handlers that run one after the other lose nothing: the instance the     *)
(* serial runs check is one of those the theorems below speak of.           *)
THEOREM SerialLosesNothing ==
  ASSUME \A j, k \in Sessions : j = k
  PROVE  Spec => NothingLost
<1> DEFINE Current == \A k \in Sessions, i \in CommandIds :
             session[k].plan[i] # "keep" => session[k].read[i] = commands[i].status
           Keeps == \A k \in Sessions : CommitsUnder(k)
<1>1. Init => Current
  BY DEF Init, Idle, NoPlan
<1>2. TypeOK /\ Current /\ [Next]_vars => Current'
  <2> SUFFICES ASSUME TypeOK, Current, [Next]_vars PROVE Current'
    OBVIOUS
  <2>1. ASSUME NEW k \in Sessions, NEW op, NEW plan, NEW user, NEW row, NEW out,
               Open(k, op, plan, user, row, out)
        PROVE  Current'
    <3>1. /\ commands' = commands /\ session'[k].plan = plan
          /\ \A i \in CommandIds : plan[i] # "keep" => session'[k].read[i] = commands[i].status
          /\ \A j \in Sessions : j = k
      BY <2>1 DEF Open, TypeOK
    <3> QED
      BY <3>1
  <2>2. ASSUME NEW k \in Sessions, Commit(k) \/ Rollback(k) PROVE Current'
    <3>1. \A j \in Sessions : session'[j] = Idle
      BY <2>2 DEF Commit, Rollback, TypeOK
    <3> QED
      BY <3>1 DEF Idle, NoPlan
  <2>3. CASE session' = session /\ commands' = commands
    BY <2>3
  <2> HIDE DEF Current
  <2> QED
    BY <2>1, <2>2, <2>3
    DEF Next, People, Calls, Server, Surroundings, vars, Select, Execute, ApproveExpires, Approve,
        Cancel, Ack, Readback, Claim, Sweep, Tick, Obstruct
<1>3. Current => Keeps
  BY DEF CommitsUnder
<1> HIDE DEF Current, Keeps
<1>4. Spec => [][Keeps]_vars
  BY <1>1, <1>2, <1>3, TypeInit, TypeStep, PTL DEF Spec
<1> QED
  BY <1>4 DEF NothingLost, Keeps

-----------------------------------------------------------------------------
(* The refinement: a commit takes every command one step of the ledger, or  *)
(* leaves it; no other step is seen there.                                  *)

LEMMA Stages ==
  /\ StageOf["absent"] = "none" /\ StageOf["pending_approval"] = "requested"
  /\ StageOf["pending"] = "authorised"
  /\ \A s \in {"sent", "unknown"} : StageOf[s] = "released"
  /\ \A s \in {"acked", "failed", "mismatch"} : StageOf[s] = "settled"
  /\ \A s \in {"cancelled", "expired"} : StageOf[s] = "dropped"
BY DEF StageOf, CommandStatus

(* The tickets of command i.                                                *)
Tickets(i) == {p.claim : p \in {q \in handed : q.id = i}}

LEMMA LedgerCommit ==
  ASSUME TypeOK, HandoverInv, TwoPersonInv, NEW k \in Sessions, Commit(k), CommitsUnder(k),
         NEW i \in CommandIds
  PROVE  \/ /\ StageOf[commands'[i].status] = StageOf[commands[i].status]
            /\ SignersOf(commands'[i]) = SignersOf(commands[i])
            /\ Tickets(i)' = Tickets(i)
         \/ \E u \in Users :
              /\ StageOf[commands[i].status] = "none"
              /\ StageOf[commands'[i].status] \in {"requested", "authorised"}
              /\ SignersOf(commands'[i]) = {u}
              /\ Tickets(i)' = Tickets(i)
         \/ \E u \in Approvers :
              /\ StageOf[commands[i].status] = "requested"
              /\ StageOf[commands'[i].status] = "authorised"
              /\ u \notin SignersOf(commands[i])
              /\ SignersOf(commands'[i]) = SignersOf(commands[i]) \cup {u}
              /\ Tickets(i)' = Tickets(i)
         \/ \E t \in 1..MaxClaims :
              /\ StageOf[commands[i].status] = "authorised"
              /\ StageOf[commands'[i].status] = "released"
              /\ SignersOf(commands'[i]) = SignersOf(commands[i])
              /\ Tickets(i)' = Tickets(i) \cup {t}
         \/ /\ StageOf[commands[i].status] = "released"
            /\ StageOf[commands'[i].status] = "settled"
            /\ SignersOf(commands'[i]) = SignersOf(commands[i])
            /\ Tickets(i)' = Tickets(i)
         \/ /\ StageOf[commands[i].status] \in {"requested", "authorised"}
            /\ StageOf[commands'[i].status] = "dropped"
            /\ SignersOf(commands'[i]) = SignersOf(commands[i])
            /\ Tickets(i)' = Tickets(i)
<1> DEFINE old == commands[i].status
           new == session[k].plan[i]
<1>1. handed' = handed \cup session[k].out
  BY CommitEffect
<1>2. ASSUME \A p \in session[k].out : p.id # i
      PROVE  Tickets(i)' = Tickets(i)
  BY <1>1, <1>2 DEF Tickets
<1>3. commands[i] \in Row /\ session[k].row \in Row
  BY DEF TypeOK, Transaction
<1>4. CASE /\ old = "absent" /\ session[k].op = "execute"
           /\ commands'[i] = session[k].row
           /\ \A j \in Sessions : session[j].plan[i] = "keep"
  <2>1. /\ commands'[i].status \in {"pending", "pending_approval"}
        /\ commands'[i].approver = NoUser /\ commands'[i].author \in Users
    BY <1>3, <1>4 DEF HandoverInv, DecidedInv, InsertFits, Row
  <2>2. SignersOf(commands'[i]) = {commands'[i].author}
    BY <2>1 DEF SignersOf
  <2>3. \A p \in session[k].out : p.id # i
    BY <1>4 DEF HandoverInv, DecidedInv, OutFits
  <2> QED
    BY <1>2, <1>4, <2>1, <2>2, <2>3, Stages
<1>5. CASE Follows(k, i) /\ (new # "keep" => can_transition(old, new) /\ new # old)
  <2>1. /\ new # "keep" => old # "absent" /\ commands'[i].status = new /\ new # "absent"
        /\ new = "keep" => commands'[i].status = old
        /\ commands'[i].author = commands[i].author
        /\ new # "pending" => commands'[i].approver = commands[i].approver
    BY <1>5, Transitions DEF Follows, CommandStatus
  <2>2. new # "pending" => SignersOf(commands'[i]) = SignersOf(commands[i])
    BY <2>1 DEF SignersOf
  <2>3. new # "sent" => Tickets(i)' = Tickets(i)
    BY <1>2 DEF HandoverInv, DecidedInv, OutFits
  <2>4. CASE new = "keep"
    BY <2>1, <2>2, <2>3, <2>4
  <2>5. CASE new = "pending"
    <3>1. old = "pending_approval" /\ commands[i].approver = NoUser
      BY <1>5, <2>5, Transitions DEF HandoverInv, DecidedInv, Waiting
    <3>2. /\ session[k].user \in Approvers \ {commands[i].author}
          /\ session[k].user # NoUser
      BY <2>5, PeopleAssumption DEF TwoPersonInv, PlansCleared, PlanCleared
    <3>3. SignersOf(commands[i]) = {commands[i].author}
      BY <3>1 DEF SignersOf
    <3>4. commands'[i].approver = session[k].user
      BY <1>5, <2>5 DEF Follows
    <3>5. SignersOf(commands'[i]) = {commands[i].author, session[k].user}
      BY <2>1, <2>5, <3>2, <3>4 DEF SignersOf
    <3>6. session[k].user \notin SignersOf(commands[i])
      BY <3>2, <3>3
    <3>7. SignersOf(commands'[i]) = SignersOf(commands[i]) \cup {session[k].user}
      BY <3>3, <3>5
    <3> QED
      BY <2>1, <2>3, <2>5, <3>1, <3>2, <3>6, <3>7, Stages
  <2>6. CASE new = "sent"
    <3>1. PICK p \in session[k].out : p.id = i
      BY <2>6 DEF HandoverInv, DecidedInv, OutFits
    <3>2. old = "pending" /\ p.claim \in 1..MaxClaims
      BY <1>5, <2>6, <3>1, BoundsAssumption, Transitions DEF HandoverInv, DecidedInv, OutFits, TypeOK
    <3>3. \A q \in session[k].out : q.id = i => q = p
      BY <3>1 DEF HandoverInv, DecidedInv, OutFits
    <3>4. Tickets(i)' = Tickets(i) \cup {p.claim}
      BY <1>1, <3>1, <3>3 DEF Tickets
    <3> QED
      BY <2>1, <2>2, <2>6, <3>2, <3>4, Stages
  <2>7. CASE new \notin {"keep", "pending", "sent"}
    <3>1. \/ /\ old \in {"pending_approval", "pending"} /\ new \in {"cancelled", "expired"}
          \/ /\ old \in {"sent", "unknown"} /\ new \in {"acked", "failed", "mismatch", "unknown"}
          \/ /\ old = "acked" /\ new \in {"acked", "mismatch"}
      BY <1>5, <2>7, Transitions
    <3> HIDE DEF old, new
    <3>2. /\ SignersOf(commands'[i]) = SignersOf(commands[i])
          /\ Tickets(i)' = Tickets(i) /\ commands'[i].status = new
      BY <2>1, <2>2, <2>3, <2>7
    <3>3. \/ StageOf[new] = StageOf[old]
          \/ StageOf[old] = "released" /\ StageOf[new] = "settled"
          \/ StageOf[old] \in {"requested", "authorised"} /\ StageOf[new] = "dropped"
      BY <3>1, Stages
    <3> QED
      BY <3>2, <3>3 DEF old
  <2> QED
    BY <2>4, <2>5, <2>6, <2>7
<1> QED
  BY <1>4, <1>5, HandoverRow

LEMMA LedgerStep ==
  /\ TypeOK /\ HandoverInv /\ TwoPersonInv
  /\ [Next]_vars /\ [\A k \in Sessions : CommitsUnder(k)]_vars
  => [Ledger!LedgerNext]_(Ledger!ledger)
<1> SUFFICES ASSUME TypeOK, HandoverInv, TwoPersonInv, [Next]_vars,
                    [\A k \in Sessions : CommitsUnder(k)]_vars
             PROVE  [Ledger!LedgerNext]_(Ledger!ledger)
  OBVIOUS
<1>1. ASSUME NEW k \in Sessions, Commit(k), CommitsUnder(k) PROVE Ledger!LedgerNext
  <2> SUFFICES ASSUME NEW i \in CommandIds PROVE Ledger!Step(i) \/ Ledger!Rest(i)
    BY DEF Ledger!LedgerNext
  <2> QED
    BY <1>1, LedgerCommit
    DEF Tickets, Ledger!Step, Ledger!Rest, Ledger!Request, Ledger!Authorise, Ledger!Release,
        Ledger!Settle, Ledger!Drop
<1>2. CASE commands' = commands /\ handed' = handed
  BY <1>2 DEF Ledger!ledger
<1> QED
  BY <1>1, <1>2, OnlyCommitWrites DEF vars

(* Where no update is lost the server implements the ledger, however many   *)
(* handlers overlap: each command is given out at most once, never after it *)
(* was dropped or settled, and a second signature is another person's.      *)
THEOREM LedgerCorrect == Spec /\ NothingLost => ImplementsLedger
<1>1. Init => Ledger!LedgerInit
  BY Stages DEF Init, AbsentRow, Ledger!LedgerInit
<1> QED
  BY <1>1, TypeInit, TypeStep, HandoverInit, HandoverStep, TwoPersonInit, TwoPersonStep,
     LedgerStep, PTL
  DEF Spec, NothingLost, ImplementsLedger, Ledger!LedgerSpec
=============================================================================
