----------------------------- MODULE Jobs_proofs -----------------------------
(***************************************************************************)
(* Theorems about Jobs, for any jobs, workers, rooms, leases, limits and   *)
(* number of lost processes.                                               *)
(***************************************************************************)
EXTENDS Jobs, TLAPS

-----------------------------------------------------------------------------
(* Types and tries.                                                         *)

(* What a verdict that is not written yet is about.                         *)
Seized == verdict.requeue \cup verdict.fail

(* The runner claims or reconciles, one thing at a time.                    *)
Turns ==
  /\ looking => state[Server] = "up" /\ ~verdict.open
  /\ verdict.open => state[Server] \in {"starting", "up"}
  /\ ~verdict.open => Seized = {}

Limit(j) == MaxAttempts[setting.kind[j]]

(* A row that waits has a try left, and so has every row that a verdict     *)
(* will queue: only a derived job, whose tries then start afresh, is queued *)
(* by somebody else before the verdict is written.                          *)
Good(j, row) ==
  /\ row.attempts <= Limit(j)
  /\ row.status \in {"absent", "queued"} => row.attempts < Limit(j)
  /\ j \in verdict.requeue => row.attempts < Limit(j)
  /\ j \in Seized => /\ row.status # "absent"
                     /\ row.status = "queued" => setting.kind[j] = "derived"

Tries == \A j \in Jobs : Good(j, jobs[j])

TypedInv == TypeOK /\ Turns /\ Tries

LEMMA SettingType ==
  ASSUME TypeOK, NEW j \in Jobs
  PROVE  setting.kind[j] \in Kinds /\ Limit(j) \in Nat \ {0}
<1>1. setting \in Setting
  BY JobsAssumption DEF TypeOK
<1>2. setting.kind[j] \in Kinds
  BY <1>1 DEF Setting
<1> QED
  BY <1>2, JobsAssumption DEF Limit

LEMMA WorkerIdType ==
  ASSUME TypeOK, NEW p \in Procs
  PROVE  WorkerId(p) \in WorkerIds
BY DEF TypeOK, WorkerId, WorkerIds

LEMMA NoRowType == NoRow \in Row
BY JobsAssumption DEF NoRow, Row, Status

(* One row is written; verdict is as it was, or dropped.                    *)
LEMMA OneRow ==
  ASSUME TypeOK, Tries, NEW j \in Jobs, NEW row \in Row, Good(j, row),
         jobs' = [jobs EXCEPT ![j] = row],
         UNCHANGED setting, verdict' \in {verdict, NoVerdict}
  PROVE  /\ jobs' \in [Jobs -> Row]
         /\ \A k \in Jobs : jobs'[k].attempts <= MaxAttempts[setting'.kind[k]]
         /\ Tries'
<1>1. jobs' \in [Jobs -> Row]
  BY DEF TypeOK
<1>2. \A k \in Jobs : jobs'[k] = IF k = j THEN row ELSE jobs[k]
  BY DEF TypeOK
<1>3. \A k \in Jobs : Good(k, jobs'[k])
  BY <1>2 DEF Tries
<1>4. verdict'.requeue \subseteq verdict.requeue /\ verdict'.fail \subseteq verdict.fail
  BY DEF NoVerdict
<1>5. \A k \in Jobs : Good(k, jobs[k])'
  BY <1>3, <1>4 DEF Good, Seized, Limit
<1>6. Tries'
  BY <1>5 DEF Tries
<1> QED
  BY <1>1, <1>3, <1>6 DEF Good, Limit

(* No row is written.                                                       *)
LEMMA NoRowWritten ==
  ASSUME TypeOK, Tries, UNCHANGED <<setting, jobs>>, verdict' \in {verdict, NoVerdict}
  PROVE  /\ jobs' \in [Jobs -> Row]
         /\ \A k \in Jobs : jobs'[k].attempts <= MaxAttempts[setting'.kind[k]]
         /\ Tries'
<1>1. verdict'.requeue \subseteq verdict.requeue /\ verdict'.fail \subseteq verdict.fail
  BY DEF NoVerdict
<1>2. \A k \in Jobs : Good(k, jobs[k])'
  BY <1>1 DEF Tries, Good, Seized, Limit
<1> QED
  BY <1>2 DEF Tries, TypeOK

LEMMA ClaimType ==
  ASSUME TypedInv, NEW p \in Procs, NEW j \in Jobs, NEW phase \in {"waiting", "admitted"},
         Claim(p, j, phase), p = Server => ~verdict.open
  PROVE  /\ jobs' \in [Jobs -> Row]
         /\ \A k \in Jobs : jobs'[k].attempts <= MaxAttempts[setting'.kind[k]]
         /\ Tries'
         /\ tasks' \subseteq Task /\ claims' \in [Jobs -> 0..MaxClaims]
         /\ UNCHANGED <<setting, state, pid, verdict, enqueues, crashes>>
<1>1. jobs[j] \in Row /\ jobs[j].status = "queued" /\ claims[j] \in 0..MaxClaims /\ claims[j] < MaxClaims
  BY DEF TypedInv, TypeOK, Claim, IsNext, Suits
<1>2. Limit(j) \in Nat /\ Claimed(p, jobs[j]).attempts = jobs[j].attempts + 1 /\ jobs[j].attempts \in Nat
  BY <1>1, SettingType DEF TypedInv, Claimed, Row
<1>3. Claimed(p, jobs[j]) \in Row
  BY <1>1, WorkerIdType, JobsAssumption DEF TypedInv, Claimed, Row, Status
<1>4. Good(j, jobs[j])
  BY DEF TypedInv, Tries
<1>5. j \notin Seized
  <2>1. CASE p = Server
    BY <2>1 DEF TypedInv, Turns
  <2>2. CASE p # Server
    BY <2>2, <1>1, <1>4 DEF Claim, IsNext, Suits, Good
  <2> QED
    BY <2>1, <2>2
<1>6. Good(j, Claimed(p, jobs[j]))
  <2>1. jobs[j].attempts < Limit(j)
    BY <1>1, <1>4 DEF Good
  <2>2. Claimed(p, jobs[j]).status = "running"
    BY DEF Claimed
  <2> QED
    BY <1>2, <1>5, <2>1, <2>2 DEF Good, Seized
<1>7. jobs' = [jobs EXCEPT ![j] = Claimed(p, jobs[j])] /\ UNCHANGED <<setting, verdict>>
  BY DEF Claim
<1>8. [at |-> p, job |-> j, claim |-> claims[j] + 1, phase |-> phase, renewing |-> FALSE] \in Task
  BY <1>1, JobsAssumption DEF Task
<1>9. tasks' \subseteq Task
  BY <1>8 DEF Claim, TypedInv, TypeOK
<1>10. claims' \in [Jobs -> 0..MaxClaims]
  BY <1>1, JobsAssumption DEF Claim, TypedInv, TypeOK
<1> QED
  BY <1>3, <1>6, <1>7, <1>9, <1>10, OneRow DEF TypedInv, Claim

LEMMA TypedRest ==
  ASSUME TypedInv,
         jobs' \in [Jobs -> Row],
         \A k \in Jobs : jobs'[k].attempts <= MaxAttempts[setting'.kind[k]],
         UNCHANGED <<setting, state, pid, looking, verdict, crashes>>,
         tasks' \subseteq Task, claims' \in [Jobs -> 0..MaxClaims], enqueues' \in 0..MaxEnqueues
  PROVE  TypeOK' /\ Turns'
BY DEF TypedInv, TypeOK, Turns, Seized

LEMMA InitTyped == Init => TypedInv
<1> SUFFICES ASSUME Init PROVE TypedInv
  OBVIOUS
<1>1. NoRow \in Row /\ NoRow.attempts = 0 /\ NoRow.status = "absent"
  BY NoRowType DEF NoRow
<1>2. setting \in Setting
  BY JobsAssumption DEF Init
<1>3. \A j \in Jobs : Limit(j) \in Nat \ {0}
  BY <1>2, JobsAssumption DEF Setting, Limit
<1>4. verdict.requeue = {} /\ verdict.fail = {} /\ verdict \in Verdict /\ ~verdict.open
  BY DEF Init, NoVerdict, Verdict
<1>5. \A j \in Jobs : jobs[j] = NoRow
  BY DEF Init
<1>6. Tries
  BY <1>1, <1>3, <1>4, <1>5 DEF Tries, Good, Seized
<1>7. Turns
  BY <1>4 DEF Turns, Seized, Init
<1>8. jobs \in [Jobs -> Row] /\ \A j \in Jobs : jobs[j].attempts <= MaxAttempts[setting.kind[j]]
  BY <1>1, <1>3, <1>5 DEF Init, Limit
<1>9. /\ state \in [Procs -> {"down", "starting", "up", "stalled"}]
      /\ pid \in [Procs -> 0..MaxCrashes] /\ claims \in [Jobs -> 0..MaxClaims]
      /\ enqueues \in 0..MaxEnqueues /\ crashes \in 0..MaxCrashes
  BY JobsAssumption DEF Init
<1>10. TypeOK
  BY <1>4, <1>8, <1>9 DEF Init, TypeOK
<1> QED
  BY <1>6, <1>7, <1>10 DEF TypedInv

LEMMA RequestTyped ==
  ASSUME TypedInv, NEW j \in Jobs, Create(j) \/ Enqueue(j) \/ Delete(j)
  PROVE  TypedInv'
<1>1. /\ jobs[j] \in Row /\ Limit(j) \in Nat \ {0} /\ Good(j, jobs[j])
      /\ jobs[j].attempts \in Nat
  BY SettingType DEF TypedInv, TypeOK, Tries, Row
<1>2. UNCHANGED <<setting, state, pid, tasks, looking, verdict, claims, crashes>>
  BY DEF Create, Enqueue, Delete
<1>3. ASSUME NEW row \in Row, Good(j, row), jobs' = [jobs EXCEPT ![j] = row],
             enqueues' \in 0..MaxEnqueues
      PROVE  TypedInv'
  <2>1. /\ jobs' \in [Jobs -> Row]
        /\ \A k \in Jobs : jobs'[k].attempts <= MaxAttempts[setting'.kind[k]]
        /\ Tries'
    BY <1>2, <1>3, OneRow DEF TypedInv
  <2>2. tasks' \subseteq Task /\ claims' \in [Jobs -> 0..MaxClaims]
    BY <1>2 DEF TypedInv, TypeOK
  <2> QED
    BY <2>1, <2>2, <1>2, <1>3, TypedRest DEF TypedInv
<1>4. ASSUME NEW row \in Row PROVE Queued(row) \in Row
  BY DEF Queued, Row, Status
<1>5. CASE Create(j)
  <2>1. Good(j, Queued(jobs[j])) /\ Queued(jobs[j]) \in Row
    BY <1>1, <1>4, <1>5 DEF Create, Good, Queued
  <2>2. enqueues' \in 0..MaxEnqueues
    BY <1>5 DEF Create, TypedInv, TypeOK
  <2>3. jobs' = [jobs EXCEPT ![j] = Queued(jobs[j])]
    BY <1>5 DEF Create
  <2> QED
    BY <2>1, <2>2, <2>3, <1>3
<1>6. CASE Enqueue(j)
  <2>1. enqueues' \in 0..MaxEnqueues
    BY <1>6, JobsAssumption DEF Enqueue, TypedInv, TypeOK
  <2>2. setting.kind[j] = "derived"
    BY <1>6 DEF Enqueue
  <2>3. ASSUME NEW row \in Row, row.attempts = 0, row.status = "queued" PROVE Good(j, row)
    BY <1>1, <2>2, <2>3 DEF Good
  <2>4. CASE jobs' = [jobs EXCEPT ![j] = [Queued(jobs[j]) EXCEPT !.attempts = 0]]
    <3> DEFINE row == [Queued(jobs[j]) EXCEPT !.attempts = 0]
    <3>1. row \in Row /\ row.attempts = 0 /\ row.status = "queued"
      BY <1>1 DEF Queued, Row, Status
    <3>2. jobs' = [jobs EXCEPT ![j] = row]
      BY <2>4
    <3> HIDE DEF row
    <3> QED
      BY <3>1, <3>2, <2>1, <2>3, <1>3
  <2>5. CASE jobs' = [jobs EXCEPT ![j] = Queued(NoRow)]
    <3>1. Queued(NoRow) \in Row /\ Queued(NoRow).attempts = 0 /\ Queued(NoRow).status = "queued"
      BY <1>4, NoRowType DEF Queued, NoRow
    <3> QED
      BY <3>1, <2>1, <2>3, <2>5, <1>3
  <2> QED
    BY <1>6, <2>4, <2>5 DEF Enqueue
<1>7. CASE Delete(j)
  <2> DEFINE row == [NoRow EXCEPT !.status = "deleted"]
  <2>1. row \in Row /\ row.attempts = 0 /\ row.status = "deleted"
    BY NoRowType DEF NoRow, Row, Status
  <2>2. jobs' = [jobs EXCEPT ![j] = row] /\ enqueues' \in 0..MaxEnqueues
    BY <1>7 DEF Delete, TypedInv, TypeOK
  <2> HIDE DEF row
  <2>3. Good(j, row)
    BY <2>1, <1>1 DEF Good
  <2> QED
    BY <2>1, <2>2, <2>3, <1>3
<1> QED
  BY <1>5, <1>6, <1>7

LEMMA TaskType ==
  ASSUME TypeOK, NEW t \in tasks
  PROVE  /\ t \in Task /\ t.at \in Procs /\ t.job \in Jobs
         /\ \A phase \in {"waiting", "admitted", "running"}, r \in BOOLEAN :
              /\ [t EXCEPT !.phase = phase] \in Task
              /\ [t EXCEPT !.phase = phase, !.renewing = r] \in Task
         /\ [t EXCEPT !.renewing = FALSE] \in Task
<1>1. t \in Task
  BY DEF TypeOK
<1>2. t.at \in Procs /\ t.job \in Jobs
  BY <1>1 DEF Task
<1>3. ASSUME NEW phase \in {"waiting", "admitted", "running"}, NEW r \in BOOLEAN
      PROVE  /\ [t EXCEPT !.phase = phase] \in Task
             /\ [t EXCEPT !.phase = phase, !.renewing = r] \in Task
  BY <1>1 DEF Task
<1>4. [t EXCEPT !.renewing = FALSE] \in Task
  BY <1>1 DEF Task
<1> QED
  BY <1>1, <1>2, <1>3, <1>4

(* The row of an execution that reports.                                    *)
Reported(row, outcome) == [row EXCEPT !.status = outcome, !.lease = 0]

LEMMA ReportedType ==
  ASSUME NEW row \in Row, NEW outcome \in {"done", "failed"}
  PROVE  /\ Reported(row, outcome) \in Row
         /\ Reported(row, outcome).attempts = row.attempts
         /\ Reported(row, outcome).status = outcome
<1>1. outcome \in Status
  BY DEF Status
<1>2. 0 \in 0..LeaseS
  BY JobsAssumption
<1> QED
  BY <1>1, <1>2 DEF Reported, Row

(* What an execution does to its row.                                       *)
LEMMA ExecutionTyped ==
  ASSUME TypedInv, NEW t \in tasks, Admit(t) \/ Begin(t) \/ Renew(t) \/ Finish(t)
  PROVE  TypedInv'
<1> DEFINE j == t.job
<1>1. j \in Jobs /\ t \in Task
  BY TaskType DEF TypedInv
<1>2. UNCHANGED <<setting, state, pid, looking, verdict, claims, enqueues, crashes>>
  BY DEF Admit, Begin, Renew, Finish
<1>3. tasks' \subseteq Task
  <2>1. tasks \subseteq Task
    BY DEF TypedInv, TypeOK
  <2>2. CASE Admit(t)
    BY <2>1, <2>2, TaskType DEF Admit, TypedInv
  <2>3. CASE Begin(t)
    BY <2>1, <2>3, TaskType DEF Begin, TypedInv
  <2>4. CASE Renew(t)
    BY <2>1, <2>4, TaskType DEF Renew, TypedInv
  <2>5. CASE Finish(t)
    BY <2>1, <2>5 DEF Finish
  <2> QED
    BY <2>2, <2>3, <2>4, <2>5
<1>4. claims' \in [Jobs -> 0..MaxClaims] /\ enqueues' \in 0..MaxEnqueues
  BY <1>2 DEF TypedInv, TypeOK
<1>5. CASE jobs' = jobs
  <2>1. /\ jobs' \in [Jobs -> Row]
        /\ \A k \in Jobs : jobs'[k].attempts <= MaxAttempts[setting'.kind[k]]
        /\ Tries'
    BY <1>2, <1>5, NoRowWritten DEF TypedInv
  <2> QED
    BY <2>1, <1>2, <1>3, <1>4, TypedRest DEF TypedInv
<1>6. ASSUME NEW row \in Row, Good(j, row), jobs' = [jobs EXCEPT ![j] = row]
      PROVE  TypedInv'
  <2>1. /\ jobs' \in [Jobs -> Row]
        /\ \A k \in Jobs : jobs'[k].attempts <= MaxAttempts[setting'.kind[k]]
        /\ Tries'
    BY <1>1, <1>2, <1>6, OneRow DEF TypedInv
  <2> QED
    BY <2>1, <1>2, <1>3, <1>4, TypedRest DEF TypedInv
<1>7. jobs[j] \in Row /\ Good(j, jobs[j])
  BY <1>1 DEF TypedInv, TypeOK, Tries
<1> HIDE DEF j
<1>8. ASSUME Renew(t), jobs' # jobs PROVE TypedInv'
  <2> DEFINE row == [jobs[j] EXCEPT !.lease = LeaseS]
  <2>1. jobs' = [jobs EXCEPT ![j] = row]
    BY <1>8 DEF Renew, j
  <2>2. row \in Row /\ row.attempts = jobs[j].attempts /\ row.status = jobs[j].status
    BY <1>7, JobsAssumption DEF Row
  <2> HIDE DEF row
  <2>3. Good(j, row)
    BY <2>2, <1>7 DEF Good
  <2> QED
    BY <2>1, <2>2, <2>3, <1>6
<1>9. ASSUME Finish(t), jobs' # jobs PROVE TypedInv'
  <2>1. PICK outcome \in {"done", "failed"} :
          jobs' = [jobs EXCEPT ![j].status = outcome, ![j].lease = 0]
    BY <1>9 DEF Finish, j
  <2> DEFINE row == Reported(jobs[j], outcome)
  <2>2. jobs' = [jobs EXCEPT ![j] = row]
    BY <2>1, <1>1 DEF TypedInv, TypeOK, Reported, j
  <2>3. row \in Row /\ row.attempts = jobs[j].attempts /\ row.status = outcome
    BY <1>7, ReportedType DEF Reported
  <2> HIDE DEF row
  <2>4. Good(j, row)
    BY <2>3, <1>7 DEF Good
  <2> QED
    BY <2>2, <2>3, <2>4, <1>6
<1> QED
  BY <1>5, <1>8, <1>9 DEF Admit, Begin

LEMMA TickType ==
  ASSUME TypedInv, Tick
  PROVE  TypedInv'
<1>1. UNCHANGED <<setting, state, pid, tasks, looking, verdict, claims, enqueues, crashes>>
  BY DEF Tick
<1>2. ASSUME NEW j \in Jobs
      PROVE  /\ jobs'[j] \in Row /\ jobs'[j].attempts = jobs[j].attempts
             /\ jobs'[j].status = jobs[j].status
  <2>1. jobs[j] \in Row
    BY DEF TypedInv, TypeOK
  <2>2. jobs'[j] = IF jobs[j].lease > 0 THEN [jobs[j] EXCEPT !.lease = @ - 1] ELSE jobs[j]
    BY DEF Tick
  <2>3. jobs[j].lease > 0 => jobs[j].lease - 1 \in 0..LeaseS
    BY <2>1, JobsAssumption DEF Row
  <2> QED
    BY <2>1, <2>2, <2>3 DEF Row
<1>3. jobs' \in [Jobs -> Row]
  <2>1. jobs' = [j \in Jobs |-> jobs'[j]]
    BY DEF Tick
  <2> QED
    BY <2>1, <1>2
<1>4. Tries'
  BY <1>1, <1>2 DEF TypedInv, Tries, Good, Seized, Limit
<1>5. \A k \in Jobs : jobs'[k].attempts <= MaxAttempts[setting'.kind[k]]
  BY <1>1, <1>2 DEF TypedInv, TypeOK
<1>6. tasks' \subseteq Task /\ claims' \in [Jobs -> 0..MaxClaims] /\ enqueues' \in 0..MaxEnqueues
  BY <1>1 DEF TypedInv, TypeOK
<1> QED
  BY <1>1, <1>3, <1>4, <1>5, <1>6, TypedRest DEF TypedInv

(* What a reconciliation does.                                              *)
LEMMA ReconcileTyped ==
  ASSUME TypedInv, ReadOrphans \/ WriteVerdict
  PROVE  TypedInv'
<1>1. UNCHANGED <<setting, pid, tasks, looking, claims, enqueues, crashes>>
  BY DEF ReadOrphans, WriteVerdict
<1>2. /\ tasks' \subseteq Task /\ claims' \in [Jobs -> 0..MaxClaims] /\ enqueues' \in 0..MaxEnqueues
      /\ pid' \in [Procs -> 0..MaxCrashes] /\ crashes' \in 0..MaxCrashes
      /\ setting' \in Settings /\ looking' \in BOOLEAN
  BY <1>1 DEF TypedInv, TypeOK
<1>3. CASE ReadOrphans
  <2>1. /\ verdict'.requeue = {j \in Jobs : Orphan(j) /\ TriesLeft(j)}
        /\ verdict'.fail = {j \in Jobs : Orphan(j) /\ ~TriesLeft(j)}
        /\ verdict'.open /\ verdict' \in Verdict
        /\ state[Server] \in {"starting", "up"} /\ ~looking /\ UNCHANGED <<jobs, state>>
    BY <1>3 DEF ReadOrphans, Verdict
  <2>2. ASSUME NEW j \in Jobs PROVE Good(j, jobs[j])'
    <3>1. Good(j, jobs[j])
      BY DEF TypedInv, Tries
    <3>2. j \in verdict'.requeue => jobs[j].status = "running" /\ jobs[j].attempts < Limit(j)
      BY <2>1 DEF Orphan, TriesLeft, Limit
    <3>3. j \in Seized' => jobs[j].status = "running"
      BY <2>1 DEF Orphan, Seized
    <3> QED
      BY <1>1, <2>1, <3>1, <3>2, <3>3 DEF Good, Limit
  <2>3. Tries' /\ Turns'
    BY <1>1, <2>1, <2>2 DEF Tries, Turns
  <2>4. TypeOK'
    BY <1>1, <1>2, <2>1 DEF TypedInv, TypeOK
  <2> QED
    BY <2>3, <2>4 DEF TypedInv
<1>4. CASE WriteVerdict
  <2>1. /\ verdict'.requeue = {} /\ verdict'.fail = {} /\ ~verdict'.open /\ verdict' \in Verdict
        /\ verdict.open
    BY <1>4 DEF WriteVerdict, NoVerdict, Verdict
  <2>2. ~looking
    BY <2>1 DEF TypedInv, Turns
  <2>3. state' \in [Procs -> {"down", "starting", "up", "stalled"}]
    BY <1>4 DEF WriteVerdict, TypedInv, TypeOK
  <2>4. Turns'
    BY <1>1, <2>1, <2>2 DEF Turns, Seized
  <2>5. ASSUME NEW j \in Jobs
        PROVE  /\ jobs'[j] \in Row /\ jobs'[j].attempts <= Limit(j)
               /\ jobs'[j].status \in {"absent", "queued"} => jobs'[j].attempts < Limit(j)
    <3>1. jobs[j] \in Row /\ Good(j, jobs[j])
      BY DEF TypedInv, TypeOK, Tries
    <3>2. CASE jobs'[j] = jobs[j]
      BY <3>1, <3>2 DEF Good
    <3>3. ASSUME jobs'[j] = Judged(j), jobs'[j] # jobs[j]
          PROVE  \/ /\ j \in verdict.requeue
                    /\ jobs'[j] = [Queued(jobs[j]) EXCEPT !.worker = <<>>, !.lease = 0]
                 \/ jobs'[j] = [jobs[j] EXCEPT !.status = "failed"]
      BY <3>3 DEF Judged
    <3>4. CASE j \in verdict.requeue /\ jobs'[j] = [Queued(jobs[j]) EXCEPT !.worker = <<>>, !.lease = 0]
      <4>1. /\ jobs'[j].attempts = jobs[j].attempts
            /\ jobs'[j] = [status |-> "queued", worker |-> <<>>, lease |-> 0, attempts |-> jobs[j].attempts]
        BY <3>1, <3>4 DEF Queued, Row
      <4>2. jobs'[j] \in Row
        BY <3>1, <4>1, JobsAssumption DEF Row, Status
      <4> QED
        BY <3>1, <3>4, <4>1, <4>2 DEF Good
    <3>5. CASE jobs'[j] = [jobs[j] EXCEPT !.status = "failed"]
      <4>1. jobs'[j] \in Row /\ jobs'[j].attempts = jobs[j].attempts /\ jobs'[j].status = "failed"
        BY <3>1, <3>5 DEF Row, Status
      <4> QED
        BY <3>1, <4>1 DEF Good
    <3>6. jobs'[j] = Judged(j) \/ jobs'[j] = jobs[j]
      BY <1>4 DEF WriteVerdict
    <3> QED
      BY <3>2, <3>3, <3>4, <3>5, <3>6
  <2>6. jobs' \in [Jobs -> Row]
    <3>1. jobs' = [j \in Jobs |-> jobs'[j]]
      BY <1>4 DEF WriteVerdict, TypedInv, TypeOK
    <3> QED
      BY <3>1, <2>5
  <2>7. Tries' /\ \A k \in Jobs : jobs'[k].attempts <= MaxAttempts[setting'.kind[k]]
    BY <1>1, <2>1, <2>5 DEF Tries, Good, Seized, Limit
  <2>8. TypeOK'
    BY <1>1, <1>2, <2>1, <2>3, <2>6, <2>7 DEF TypeOK
  <2> QED
    BY <2>4, <2>7, <2>8 DEF TypedInv
<1> QED
  BY <1>3, <1>4

LEMMA ProcessTyped ==
  ASSUME TypedInv, NEW p \in Procs, Crash(p) \/ Restart(p)
  PROVE  TypedInv'
<1>1. UNCHANGED <<setting, jobs, claims, enqueues>> /\ verdict' \in {verdict, NoVerdict}
  BY DEF Crash, Restart
<1>2. /\ jobs' \in [Jobs -> Row]
      /\ \A k \in Jobs : jobs'[k].attempts <= MaxAttempts[setting'.kind[k]]
      /\ Tries'
  BY <1>1, NoRowWritten DEF TypedInv
<1>3. CASE Crash(p)
  <2>1. /\ crashes' \in 0..MaxCrashes /\ UNCHANGED pid
        /\ state' = [state EXCEPT ![p] = "down"]
        /\ tasks' \subseteq Task /\ looking' \in BOOLEAN
    BY <1>3, JobsAssumption DEF Crash, TypedInv, TypeOK
  <2>2. verdict' \in Verdict
    <3>1. NoVerdict \in Verdict
      BY DEF NoVerdict, Verdict
    <3> QED
      BY <1>1, <3>1 DEF TypedInv, TypeOK
  <2>3. TypeOK'
    BY <1>1, <1>2, <2>1, <2>2 DEF TypedInv, TypeOK
  <2>4. Turns'
    <3>1. CASE p = Server
      BY <1>3, <3>1 DEF Crash, Turns, Seized, NoVerdict
    <3>2. CASE p # Server
      <4>1. state'[Server] = state[Server] /\ verdict' = verdict /\ looking' = looking
        BY <1>3, <2>1, <3>2 DEF Crash, TypedInv, TypeOK, Procs
      <4> QED
        BY <4>1 DEF TypedInv, Turns, Seized
    <3> QED
      BY <3>1, <3>2
  <2> QED
    BY <1>2, <2>3, <2>4 DEF TypedInv
<1>4. CASE Restart(p)
  <2>1. /\ UNCHANGED <<tasks, looking, verdict, crashes>> /\ state[p] = "down"
        /\ state' = [state EXCEPT ![p] = IF p = Server THEN "starting" ELSE "up"]
    BY <1>4 DEF Restart
  <2>2. pid' \in [Procs -> 0..MaxCrashes]
    <3>1. PICK n \in {pid[p], crashes} : pid' = [pid EXCEPT ![p] = n]
      BY <1>4 DEF Restart
    <3>2. n \in 0..MaxCrashes
      BY DEF TypedInv, TypeOK
    <3> QED
      BY <3>1, <3>2 DEF TypedInv, TypeOK
  <2>3. state' \in [Procs -> {"down", "starting", "up", "stalled"}]
    BY <2>1 DEF TypedInv, TypeOK
  <2>4. TypeOK'
    BY <1>1, <1>2, <2>1, <2>2, <2>3 DEF TypedInv, TypeOK
  <2>5. Turns'
    <3>1. CASE p = Server
      BY <2>1, <3>1 DEF TypedInv, Turns, Seized
    <3>2. CASE p # Server
      <4>1. state'[Server] = state[Server]
        BY <2>1, <3>2 DEF TypedInv, TypeOK, Procs
      <4> QED
        BY <2>1, <4>1 DEF TypedInv, Turns, Seized
    <3> QED
      BY <3>1, <3>2
  <2> QED
    BY <1>2, <2>4, <2>5 DEF TypedInv
<1> QED
  BY <1>3, <1>4

(* What the runner and the workers do with the queue.                       *)
LEMMA QueueTyped ==
  ASSUME TypedInv, Look \/ RunnerClaims \/ \E p \in Workers : WorkerClaims(p)
  PROVE  TypedInv'
<1>1. CASE Look
  <2>1. /\ UNCHANGED <<setting, jobs, state, pid, tasks, verdict, claims, enqueues, crashes>>
        /\ looking' = TRUE /\ state[Server] = "up" /\ ~verdict.open
    BY <1>1 DEF Look
  <2>2. TypeOK' /\ Turns'
    BY <2>1 DEF TypedInv, TypeOK, Turns, Seized
  <2> QED
    BY <2>1, <2>2, NoRowWritten DEF TypedInv
<1>2. CASE RunnerClaims /\ UNCHANGED jobs /\ \A j \in Jobs : ~Claim(Server, j, "waiting")
  <2>1. /\ UNCHANGED <<setting, jobs, state, pid, tasks, verdict, claims, enqueues, crashes>>
        /\ looking' = FALSE
    BY <1>2 DEF RunnerClaims
  <2>2. TypeOK' /\ Turns'
    BY <2>1 DEF TypedInv, TypeOK, Turns, Seized
  <2> QED
    BY <2>1, <2>2, NoRowWritten DEF TypedInv
<1>3. ASSUME NEW p \in Procs, NEW j \in Jobs, NEW phase \in {"waiting", "admitted"},
             Claim(p, j, phase), p = Server => looking,
             looking' \in BOOLEAN, looking' => looking
      PROVE  TypedInv'
  <2>1. p = Server => ~verdict.open
    BY <1>3 DEF TypedInv, Turns
  <2>2. /\ jobs' \in [Jobs -> Row]
        /\ \A k \in Jobs : jobs'[k].attempts <= MaxAttempts[setting'.kind[k]]
        /\ Tries'
        /\ tasks' \subseteq Task /\ claims' \in [Jobs -> 0..MaxClaims]
        /\ UNCHANGED <<setting, state, pid, verdict, enqueues, crashes>>
    BY <1>3, <2>1, ClaimType
  <2>3. TypeOK' /\ Turns'
    BY <1>3, <2>2 DEF TypedInv, TypeOK, Turns, Seized
  <2> QED
    BY <2>2, <2>3 DEF TypedInv
<1>4. CASE RunnerClaims /\ \E j \in Jobs : Claim(Server, j, "waiting")
  <2>1. Server \in Procs /\ looking
    BY <1>4 DEF Procs, RunnerClaims
  <2>2. looking' \in BOOLEAN
    BY <1>4 DEF RunnerClaims, Locked
  <2> QED
    BY <1>3, <1>4, <2>1, <2>2
<1>5. CASE \E p \in Workers : WorkerClaims(p)
  <2>1. PICK p \in Workers : WorkerClaims(p)
    BY <1>5
  <2>2. PICK j \in Jobs : Claim(p, j, "admitted") /\ UNCHANGED looking
    BY <2>1 DEF WorkerClaims
  <2>3. p \in Procs /\ p # Server /\ looking \in BOOLEAN
    BY JobsAssumption DEF Procs, TypedInv, TypeOK
  <2> QED
    BY <1>3, <2>2, <2>3
<1> QED
  BY <1>1, <1>2, <1>4, <1>5 DEF RunnerClaims

LEMMA TypedStep == TypedInv /\ [Next]_vars => TypedInv'
<1> SUFFICES ASSUME TypedInv, [Next]_vars PROVE TypedInv'
  OBVIOUS
<1>1. CASE UNCHANGED vars
  <2>1. TypeOK' /\ Turns' /\ UNCHANGED <<setting, jobs, verdict>>
    BY <1>1 DEF vars, TypedInv, TypeOK, Turns, Seized
  <2> QED
    BY <2>1, NoRowWritten DEF TypedInv
<1>2. CASE Next
  BY <1>2, RequestTyped, QueueTyped, ExecutionTyped, ReconcileTyped, ProcessTyped, TickType DEF Next
<1> QED
  BY <1>1, <1>2

(* Every variable stays in its type, and no job is tried more often than    *)
(* its max_attempts, whatever overlaps and whatever is lost.                *)
THEOREM TypeCorrect == Spec => []TypeOK
<1>1. TypedInv => TypeOK
  BY DEF TypedInv
<1> QED
  BY InitTyped, TypedStep, <1>1, PTL DEF Spec

-----------------------------------------------------------------------------
(* One execution for one job, and what the others find of it.               *)

(* What a process has claimed is lost with it.                              *)
Alive == \A t \in tasks : state[t.at] # "down"

(* As long as renewals succeed and nothing claimed waits for a lease's      *)
(* length, the row of what is claimed or executed is either held, by that   *)
(* very process and with some of its lease left, or deleted.                *)
Deleted(t) == jobs[t.job].status = "deleted" /\ setting.kind[t.job] # "derived"

Held(t) == jobs[t.job].status = "running" /\ Owns(t) /\ jobs[t.job].lease > 0

Tended == \A t \in tasks : Deleted(t) \/ Held(t)

(* Waiting, admitted or running, it is the only one for its job.            *)
Alone == \A t, u \in tasks : t.job = u.job => t = u

(* A reconciliation judges nobody's job, and nobody takes it or ends it     *)
(* before the verdict is written.                                           *)
Untended ==
  \A j \in Seized : /\ jobs[j].status \in {"running", "deleted"}
                    /\ \A t \in tasks : t.job # j

Kept == Tended /\ Alone /\ Untended

LEMMA AliveStep == TypedInv /\ Alive /\ [Next]_vars => Alive'
<1> SUFFICES ASSUME TypedInv, Alive, [Next]_vars, NEW u \in tasks' PROVE state'[u.at] # "down"
  BY DEF Alive
<1>1. state \in [Procs -> {"down", "starting", "up", "stalled"}] /\ Server \in Procs
  BY DEF TypedInv, TypeOK, Procs
<1>2. ASSUME NEW t \in tasks, t.at = u.at, state' = state PROVE state'[u.at] # "down"
  BY <1>2 DEF Alive
<1>3. CASE UNCHANGED <<state, tasks>>
  BY <1>2, <1>3
<1>4. ASSUME NEW p \in Procs, state[p] = "up", NEW j, NEW phase, Claim(p, j, phase)
      PROVE  state'[u.at] # "down"
  <2>1. u \in tasks \/ u.at = p
    BY <1>4 DEF Claim
  <2> QED
    BY <1>2, <1>4, <2>1 DEF Claim
<1>5. CASE RunnerClaims
  <2>1. state[Server] = "up"
    BY <1>5 DEF RunnerClaims, TypedInv, Turns
  <2> QED
    BY <1>1, <1>3, <1>4, <1>5, <2>1 DEF RunnerClaims
<1>6. CASE \E p \in Workers : WorkerClaims(p)
  <2>1. PICK p \in Workers : WorkerClaims(p)
    BY <1>6
  <2>2. PICK j \in Jobs : Claim(p, j, "admitted")
    BY <2>1 DEF WorkerClaims
  <2>3. p \in Procs /\ state[p] = "up"
    BY <2>1 DEF Procs, WorkerClaims
  <2> QED
    BY <1>4, <2>2, <2>3
<1>7. CASE \E t \in tasks : Admit(t) \/ Begin(t) \/ Renew(t) \/ Finish(t)
  <2>1. PICK t \in tasks : Admit(t) \/ Begin(t) \/ Renew(t) \/ Finish(t)
    BY <1>7
  <2>2. state' = state /\ t \in Task
    BY <2>1, TaskType DEF Admit, Begin, Renew, Finish, TypedInv
  <2>3. \E v \in tasks : v.at = u.at
    <3>1. CASE Admit(t)
      BY <3>1, <2>2 DEF Admit, Task
    <3>2. CASE Begin(t)
      BY <3>2, <2>2 DEF Begin, Task
    <3>3. CASE Renew(t)
      BY <3>3, <2>2 DEF Renew, Task
    <3>4. CASE Finish(t)
      BY <3>4 DEF Finish
    <3> QED
      BY <2>1, <3>1, <3>2, <3>3, <3>4
  <2> QED
    BY <1>2, <2>2, <2>3
<1>8. CASE WriteVerdict
  <2>1. tasks' = tasks /\ state[Server] \in {"starting", "up"} /\ u.at \in Procs
    BY <1>8, TaskType DEF WriteVerdict, TypedInv, Turns
  <2>2. state[u.at] # "down"
    BY <2>1 DEF Alive
  <2>3. \/ state' = [state EXCEPT ![Server] = "up"]
        \/ state' = [state EXCEPT ![Server] = IF @ = "starting" THEN "stalled" ELSE @]
    BY <1>8 DEF WriteVerdict
  <2> QED
    BY <1>1, <2>1, <2>2, <2>3
<1>9. ASSUME NEW p \in Procs, Crash(p) PROVE state'[u.at] # "down"
  <2>1. u \in tasks /\ u.at # p /\ state' = [state EXCEPT ![p] = "down"]
    BY <1>9 DEF Crash
  <2>2. state'[u.at] = state[u.at]
    BY <1>1, <2>1, TaskType DEF TypedInv
  <2> QED
    BY <2>1, <2>2 DEF Alive
<1>10. ASSUME NEW p \in Procs, Restart(p) PROVE state'[u.at] # "down"
  <2>1. u \in tasks /\ state' = [state EXCEPT ![p] = IF p = Server THEN "starting" ELSE "up"]
    BY <1>10 DEF Restart
  <2>2. u.at \in Procs /\ state[u.at] # "down"
    BY <2>1, TaskType DEF TypedInv, Alive
  <2> QED
    BY <1>1, <2>1, <2>2
<1>11. CASE \E j \in Jobs : Create(j) \/ Enqueue(j) \/ Delete(j)
  BY <1>3, <1>11 DEF Create, Enqueue, Delete
<1>12. CASE Look \/ ReadOrphans \/ Tick \/ UNCHANGED vars
  BY <1>3, <1>12 DEF Look, ReadOrphans, Tick, vars
<1> QED
  BY <1>5, <1>6, <1>7, <1>8, <1>9, <1>10, <1>11, <1>12 DEF Next

LEMMA HeldByNone ==
  ASSUME Kept, NEW j \in Jobs, jobs[j].status \notin {"running", "deleted"}
  PROVE  j \notin Seized /\ \A t \in tasks : t.job # j
BY DEF Kept, Tended, Deleted, Held, Untended

(* No row is written, and what is claimed was claimed before.               *)
LEMMA NoRowKept ==
  ASSUME Kept, UNCHANGED <<setting, jobs, pid>>, Seized' \subseteq Seized,
         \A u \in tasks' : \E t \in tasks : t.at = u.at /\ t.job = u.job,
         Alone'
  PROVE  Kept'
<1>1. ASSUME NEW u \in tasks' PROVE (Deleted(u) \/ Held(u))'
  <2>1. PICK t \in tasks : t.at = u.at /\ t.job = u.job
    OBVIOUS
  <2>2. Deleted(t) \/ Held(t)
    BY DEF Kept, Tended
  <2> QED
    BY <2>1, <2>2 DEF Deleted, Held, Owns, WorkerId
<1>2. ASSUME NEW j \in Seized'
      PROVE  jobs'[j].status \in {"running", "deleted"} /\ \A u \in tasks' : u.job # j
  <2>1. jobs[j].status \in {"running", "deleted"} /\ \A t \in tasks : t.job # j
    BY DEF Kept, Untended
  <2> QED
    BY <2>1
<1> QED
  BY <1>1, <1>2 DEF Kept, Tended, Untended

(* One row is written, and nothing is claimed.                              *)
LEMMA OneRowKept ==
  ASSUME TypedInv, Kept, UNCHANGED <<setting, pid, verdict>>, tasks' \subseteq tasks,
         NEW j \in Jobs, NEW row, jobs' = [jobs EXCEPT ![j] = row],
         j \in Seized => row.status \in {"running", "deleted"},
         \A t \in tasks' : t.job = j =>
           \/ row.status = "deleted" /\ setting.kind[j] # "derived"
           \/ row.status = "running" /\ row.worker = WorkerId(t.at) /\ row.lease > 0
  PROVE  Kept'
<1>1. \A k \in Jobs : jobs'[k] = IF k = j THEN row ELSE jobs[k]
  BY DEF TypedInv, TypeOK
<1>2. ASSUME NEW u \in tasks' PROVE (Deleted(u) \/ Held(u))'
  <2>1. u.job \in Jobs /\ (Deleted(u) \/ Held(u))
    BY TaskType DEF Kept, Tended, TypedInv
  <2>2. CASE u.job = j
    BY <1>1, <2>2 DEF Deleted, Held, Owns, WorkerId
  <2>3. CASE u.job # j
    BY <1>1, <2>1, <2>3 DEF Deleted, Held, Owns, WorkerId
  <2> QED
    BY <2>2, <2>3
<1>3. ASSUME NEW k \in Seized'
      PROVE  jobs'[k].status \in {"running", "deleted"} /\ \A u \in tasks' : u.job # k
  <2>1. k \in Seized /\ k \in Jobs
    BY DEF Seized, TypedInv, TypeOK, Verdict
  <2>2. jobs[k].status \in {"running", "deleted"} /\ \A t \in tasks : t.job # k
    BY <2>1 DEF Kept, Untended
  <2> QED
    BY <1>1, <2>1, <2>2
<1>4. Alone'
  BY DEF Kept, Alone
<1> QED
  BY <1>2, <1>3, <1>4 DEF Kept, Tended, Untended

LEMMA RequestKept ==
  ASSUME TypedInv, Kept, NEW j \in Jobs, Create(j) \/ Enqueue(j) \/ Delete(j)
  PROVE  Kept'
<1>1. UNCHANGED <<setting, pid, tasks, verdict>>
  BY DEF Create, Enqueue, Delete
<1>2. CASE Create(j)
  <2>1. jobs' = [jobs EXCEPT ![j] = Queued(jobs[j])] /\ jobs[j].status = "absent"
    BY <1>2 DEF Create
  <2>2. j \notin Seized /\ \A t \in tasks' : t.job # j
    BY <1>1, <2>1, HeldByNone
  <2> HIDE DEF Queued
  <2> QED
    BY <1>1, <2>1, <2>2, OneRowKept
<1>3. CASE Enqueue(j)
  <2>1. jobs[j].status \in {"absent", "failed", "done"}
    BY <1>3 DEF Enqueue
  <2>2. PICK row : jobs' = [jobs EXCEPT ![j] = row]
    BY <1>3 DEF Enqueue
  <2> QED
    BY <1>1, <2>1, <2>2, HeldByNone, OneRowKept
<1>4. CASE Delete(j)
  <2> DEFINE row == [NoRow EXCEPT !.status = "deleted"]
  <2>1. row.status = "deleted"
    BY DEF NoRow
  <2>2. jobs' = [jobs EXCEPT ![j] = row] /\ setting.kind[j] # "derived"
    BY <1>4 DEF Delete
  <2> HIDE DEF row
  <2> QED
    BY <1>1, <2>1, <2>2, OneRowKept
<1> QED
  BY <1>2, <1>3, <1>4

(* A claim finds nobody at the job, and no verdict about it.                *)
LEMMA ClaimKept ==
  ASSUME TypedInv, Kept, NEW p \in Procs, NEW j \in Jobs, NEW phase, Claim(p, j, phase)
  PROVE  Kept'
<1> DEFINE new == [at |-> p, job |-> j, claim |-> claims[j] + 1, phase |-> phase, renewing |-> FALSE]
<1>1. /\ jobs[j].status = "queued" /\ jobs' = [jobs EXCEPT ![j] = Claimed(p, jobs[j])]
      /\ tasks' = tasks \cup {new} /\ UNCHANGED <<setting, pid, verdict>>
  BY DEF Claim, IsNext, Suits
<1>2. new.at = p /\ new.job = j
  OBVIOUS
<1> HIDE DEF new
<1>3. j \notin Seized /\ \A t \in tasks : t.job # j
  BY <1>1, HeldByNone
<1>4. \A k \in Jobs : jobs'[k] = IF k = j THEN Claimed(p, jobs[j]) ELSE jobs[k]
  BY <1>1 DEF TypedInv, TypeOK
<1>5. ASSUME NEW u \in tasks' PROVE (Deleted(u) \/ Held(u))'
  <2>1. CASE u = new
    <3>1. /\ jobs'[j].status = "running" /\ jobs'[j].worker = WorkerId(p) /\ jobs'[j].lease > 0
      BY <1>4, JobsAssumption DEF Claimed
    <3> QED
      BY <1>1, <1>2, <2>1, <3>1 DEF Held, Owns, WorkerId
  <2>2. CASE u \in tasks
    <3>1. u.job \in Jobs /\ u.job # j /\ (Deleted(u) \/ Held(u))
      BY <1>3, <2>2, TaskType DEF Kept, Tended, TypedInv
    <3> QED
      BY <1>1, <1>4, <3>1 DEF Deleted, Held, Owns, WorkerId
  <2> QED
    BY <1>1, <2>1, <2>2
<1>6. ASSUME NEW k \in Seized'
      PROVE  jobs'[k].status \in {"running", "deleted"} /\ \A u \in tasks' : u.job # k
  <2>1. k \in Seized /\ k \in Jobs /\ k # j
    BY <1>1, <1>3 DEF Seized, TypedInv, TypeOK, Verdict
  <2>2. jobs[k].status \in {"running", "deleted"} /\ \A t \in tasks : t.job # k
    BY <2>1 DEF Kept, Untended
  <2> QED
    BY <1>1, <1>2, <1>4, <2>1, <2>2
<1>7. Alone'
  <2>1. ASSUME NEW u \in tasks', NEW v \in tasks', u.job = v.job PROVE u = v
    BY <1>1, <1>2, <1>3, <2>1 DEF Kept, Alone
  <2> QED
    BY <2>1 DEF Alone
<1> QED
  BY <1>5, <1>6, <1>7 DEF Kept, Tended, Untended

(* One claim is replaced by what has become of it.                          *)
LEMMA OneTask ==
  ASSUME Kept, NEW t \in tasks, NEW new, new.at = t.at, new.job = t.job,
         tasks' = (tasks \ {t}) \cup {new}
  PROVE  /\ Alone'
         /\ \A u \in tasks' : \E v \in tasks : v.at = u.at /\ v.job = u.job
<1>1. ASSUME NEW u \in tasks', NEW v \in tasks', u.job = v.job PROVE u = v
  BY <1>1 DEF Kept, Alone
<1>2. Alone'
  BY <1>1 DEF Alone
<1> QED
  BY <1>2

LEMMA ExecutionKept ==
  ASSUME TypedInv, Kept, setting.punctual,
         NEW t \in tasks, Admit(t) \/ Begin(t) \/ Renew(t) \/ Finish(t)
  PROVE  Kept'
<1>1. UNCHANGED <<setting, pid, verdict>> /\ Seized' = Seized
  BY DEF Admit, Begin, Renew, Finish, Seized
<1>2. t \in Task /\ t.job \in Jobs
  BY TaskType DEF TypedInv
<1>3. ASSUME jobs' = jobs, NEW new, new.at = t.at, new.job = t.job,
             tasks' = (tasks \ {t}) \cup {new}
      PROVE  Kept'
  <2>1. Alone' /\ \A u \in tasks' : \E v \in tasks : v.at = u.at /\ v.job = u.job
    BY <1>3, OneTask
  <2> QED
    BY <1>1, <1>3, <2>1, NoRowKept
<1>4. ASSUME jobs' = jobs, tasks' \subseteq tasks PROVE Kept'
  <2>1. Alone'
    BY <1>4 DEF Kept, Alone
  <2> QED
    BY <1>1, <1>4, <2>1, NoRowKept
<1>5. CASE Admit(t)
  <2> DEFINE new == [t EXCEPT !.phase = "admitted"]
  <2>1. new.at = t.at /\ new.job = t.job
    BY <1>2 DEF Task
  <2>2. jobs' = jobs /\ tasks' = (tasks \ {t}) \cup {new}
    BY <1>5 DEF Admit
  <2> HIDE DEF new
  <2> QED
    BY <1>3, <2>1, <2>2
<1>6. CASE Begin(t)
  <2> DEFINE new == [t EXCEPT !.phase = "running", !.renewing = TRUE]
  <2>1. new.at = t.at /\ new.job = t.job
    BY <1>2 DEF Task
  <2>2. jobs' = jobs /\ (tasks' = (tasks \ {t}) \cup {new} \/ tasks' = tasks \ {t})
    BY <1>6 DEF Begin
  <2> HIDE DEF new
  <2> QED
    BY <1>3, <1>4, <2>1, <2>2
<1>7. CASE Renew(t)
  <2>1. CASE jobs' = jobs
    <3> DEFINE new == [t EXCEPT !.renewing = FALSE]
    <3>1. new.at = t.at /\ new.job = t.job
      BY <1>2 DEF Task
    <3>2. tasks' = tasks \/ tasks' = (tasks \ {t}) \cup {new}
      BY <1>7 DEF Renew
    <3> HIDE DEF new
    <3> QED
      BY <1>3, <1>4, <2>1, <3>1, <3>2
  <2>2. CASE jobs' # jobs
    <3> DEFINE row == [jobs[t.job] EXCEPT !.lease = LeaseS]
    <3>1. /\ jobs' = [jobs EXCEPT ![t.job] = row] /\ tasks' = tasks
          /\ jobs[t.job].worker = WorkerId(t.at)
      BY <1>7, <2>2 DEF Renew, Owns
    <3>2. jobs[t.job] \in Row
      BY <1>2 DEF TypedInv, TypeOK
    <3>3. row.lease = LeaseS /\ row.status = jobs[t.job].status /\ row.worker = jobs[t.job].worker
      BY <3>2 DEF Row
    <3> HIDE DEF row
    <3>4. row.lease > 0
      BY <3>3, JobsAssumption
    <3>5. t.job \notin Seized
      BY DEF Kept, Untended
    <3>6. Deleted(t) \/ Held(t)
      BY DEF Kept, Tended
    <3>7. \A u \in tasks : u.job = t.job => u = t
      BY DEF Kept, Alone
    <3>8. \/ row.status = "deleted" /\ setting.kind[t.job] # "derived"
          \/ row.status = "running" /\ row.worker = WorkerId(t.at) /\ row.lease > 0
      BY <3>1, <3>3, <3>4, <3>6 DEF Deleted, Held
    <3>9. \A u \in tasks' : u.job = t.job =>
            \/ row.status = "deleted" /\ setting.kind[t.job] # "derived"
            \/ row.status = "running" /\ row.worker = WorkerId(u.at) /\ row.lease > 0
      BY <3>1, <3>7, <3>8
    <3>10. tasks' \subseteq tasks
      BY <3>1
    <3>11. jobs' = [jobs EXCEPT ![t.job] = row]
      BY <3>1
    <3> QED
      BY <1>1, <1>2, <3>5, <3>9, <3>10, <3>11, OneRowKept
  <2> QED
    BY <2>1, <2>2
<1>8. CASE Finish(t)
  <2>1. tasks' = tasks \ {t}
    BY <1>8 DEF Finish
  <2>2. CASE jobs' # jobs
    <3>1. PICK outcome \in {"done", "failed"} :
            jobs' = [jobs EXCEPT ![t.job].status = outcome, ![t.job].lease = 0]
      BY <1>8, <2>2 DEF Finish
    <3>2. jobs' = [jobs EXCEPT ![t.job] = Reported(jobs[t.job], outcome)]
      BY <1>2, <3>1 DEF TypedInv, TypeOK, Reported
    <3>3. t.job \notin Seized /\ \A u \in tasks' : u.job # t.job
      BY <2>1 DEF Kept, Untended, Alone
    <3>4. tasks' \subseteq tasks
      BY <2>1
    <3> QED
      BY <1>1, <1>2, <3>2, <3>3, <3>4, OneRowKept
  <2> QED
    BY <1>4, <2>1, <2>2
<1> QED
  BY <1>5, <1>6, <1>7, <1>8

(* A row that somebody holds is no orphan, also not at the server's start:  *)
(* who holds it is alive, so its worker id is the present one.              *)
LEMMA ReconcileKept ==
  ASSUME TypedInv, Kept, ReadOrphans \/ WriteVerdict
  PROVE  Kept'
<1>1. UNCHANGED <<setting, pid, tasks>>
  BY DEF ReadOrphans, WriteVerdict
<1>2. Alone'
  BY <1>1 DEF Kept, Alone
<1>3. CASE ReadOrphans
  <2>1. jobs' = jobs /\ \A j \in Seized' : j \in Jobs /\ Orphan(j)
    BY <1>3 DEF ReadOrphans, Seized
  <2>2. ASSUME NEW j \in Seized', NEW t \in tasks, t.job = j PROVE FALSE
    <3>1. Orphan(j)
      BY <2>1
    <3>2. Held(t)
      BY <2>2, <3>1 DEF Kept, Tended, Deleted, Orphan
    <3>3. ~(jobs[j].lease = 0)
      BY <2>2, <3>2 DEF Held
    <3>4. PICK n \in 0..MaxCrashes : jobs[j].worker = <<Server, n>> /\ n # pid[Server]
      BY <3>1, <3>3 DEF Orphan
    <3>5. <<Server, n>> = <<t.at, pid[t.at]>>
      BY <2>2, <3>2, <3>4 DEF Held, Owns, WorkerId
    <3> QED
      BY <3>4, <3>5
  <2>3. \A j \in Seized' : jobs'[j].status = "running"
    BY <2>1 DEF Orphan
  <2>4. Untended'
    BY <1>1, <2>2, <2>3 DEF Untended
  <2>5. Tended'
    BY <1>1, <2>1 DEF Kept, Tended, Deleted, Held, Owns, WorkerId
  <2> QED
    BY <1>2, <2>4, <2>5 DEF Kept
<1>4. CASE WriteVerdict
  <2>1. Seized' = {}
    BY <1>4 DEF WriteVerdict, NoVerdict, Seized
  <2>2. Untended'
    BY <2>1 DEF Untended
  <2>3. ASSUME NEW t \in tasks PROVE jobs'[t.job] = jobs[t.job]
    <3>1. t.job \in Jobs /\ t.job \notin Seized
      BY TaskType DEF Kept, Untended, TypedInv
    <3> QED
      BY <1>4, <3>1 DEF WriteVerdict, Judged, Seized
  <2>4. Tended'
    BY <1>1, <2>3 DEF Kept, Tended, Deleted, Held, Owns, WorkerId
  <2> QED
    BY <1>2, <2>2, <2>4 DEF Kept
<1> QED
  BY <1>3, <1>4

(* A new process that has the old one's worker id finds nothing of it: its  *)
(* own worker id changes only while it has claimed nothing.                 *)
LEMMA ProcessKept ==
  ASSUME TypedInv, Alive, Kept, NEW p \in Procs, Crash(p) \/ Restart(p)
  PROVE  Kept'
<1>1. UNCHANGED <<setting, jobs>> /\ tasks' \subseteq tasks /\ Seized' \subseteq Seized
  BY DEF Crash, Restart, Seized, NoVerdict
<1>2. Alone'
  BY <1>1 DEF Kept, Alone
<1>3. CASE Crash(p)
  BY <1>1, <1>2, <1>3, NoRowKept DEF Crash
<1>4. CASE Restart(p)
  <2>1. tasks' = tasks /\ verdict' = verdict /\ state[p] = "down"
    BY <1>4 DEF Restart
  <2>2. PICK n \in {pid[p], crashes} : pid' = [pid EXCEPT ![p] = n]
    BY <1>4 DEF Restart
  <2>3. ASSUME NEW t \in tasks PROVE WorkerId(t.at)' = WorkerId(t.at)
    <3>1. t.at \in Procs /\ t.at # p
      BY <2>1, TaskType DEF Alive, TypedInv
    <3> QED
      BY <2>2, <3>1 DEF WorkerId, TypedInv, TypeOK
  <2>4. Tended'
    BY <1>1, <2>1, <2>3 DEF Kept, Tended, Deleted, Held, Owns
  <2>5. Untended'
    BY <1>1, <2>1 DEF Kept, Untended, Seized
  <2> QED
    BY <1>2, <2>4, <2>5 DEF Kept
<1> QED
  BY <1>3, <1>4

(* A lease in use does not run out: that is what punctual means.            *)
LEMMA TickKept ==
  ASSUME TypedInv, Kept, setting.punctual, Tick
  PROVE  Kept'
<1>1. UNCHANGED <<setting, pid, tasks, verdict>> /\ InTime
  BY DEF Tick
<1>2. ASSUME NEW j \in Jobs
      PROVE  /\ jobs'[j].status = jobs[j].status /\ jobs'[j].worker = jobs[j].worker
             /\ jobs[j].lease > 1 => jobs'[j].lease > 0
  <2>1. jobs[j] \in Row
    BY DEF TypedInv, TypeOK
  <2>2. jobs'[j] = IF jobs[j].lease > 0 THEN [jobs[j] EXCEPT !.lease = @ - 1] ELSE jobs[j]
    BY DEF Tick
  <2>3. jobs[j].lease \in Nat
    BY <2>1, JobsAssumption DEF Row
  <2> QED
    BY <2>1, <2>2, <2>3 DEF Row
<1>3. ASSUME NEW t \in tasks PROVE (Deleted(t) \/ Held(t))'
  <2>1. t.job \in Jobs /\ (Deleted(t) \/ Held(t))
    BY TaskType DEF Kept, Tended, TypedInv
  <2>2. Held(t) => jobs[t.job].lease > 1
    BY <1>1 DEF InTime, Held
  <2> QED
    BY <1>1, <1>2, <2>1, <2>2 DEF Deleted, Held, Owns, WorkerId
<1>4. Tended'
  BY <1>1, <1>3 DEF Tended
<1>5. Untended'
  <2>1. Seized' = Seized /\ Seized \subseteq Jobs
    BY <1>1 DEF Seized, TypedInv, TypeOK, Verdict
  <2> QED
    BY <1>1, <1>2, <2>1 DEF Kept, Untended
<1>6. Alone'
  BY <1>1 DEF Kept, Alone
<1> QED
  BY <1>4, <1>5, <1>6 DEF Kept

LEMMA KeptStep == TypedInv /\ Alive /\ Kept /\ setting.punctual /\ [Next]_vars => Kept'
<1> SUFFICES ASSUME TypedInv, Alive, Kept, setting.punctual, [Next]_vars PROVE Kept'
  OBVIOUS
<1>1. CASE Look \/ UNCHANGED vars
  <2>1. UNCHANGED <<setting, jobs, pid, tasks, verdict>>
    BY <1>1 DEF Look, vars
  <2> QED
    BY <2>1 DEF Kept, Tended, Deleted, Held, Owns, WorkerId, Alone, Untended, Seized
<1>2. CASE RunnerClaims
  <2>1. CASE \E j \in Jobs : Claim(Server, j, "waiting")
    BY <2>1, ClaimKept DEF Procs
  <2>2. CASE UNCHANGED <<setting, jobs, pid, tasks, verdict>>
    BY <2>2 DEF Kept, Tended, Deleted, Held, Owns, WorkerId, Alone, Untended, Seized
  <2> QED
    BY <1>2, <2>1, <2>2 DEF RunnerClaims
<1>3. CASE \E p \in Workers : WorkerClaims(p)
  BY <1>3, ClaimKept DEF WorkerClaims, Procs
<1>4. CASE Next
  BY <1>1, <1>2, <1>3, <1>4, RequestKept, ExecutionKept, ReconcileKept, ProcessKept, TickKept DEF Next
<1> QED
  BY <1>1, <1>4

RunInv == TypedInv /\ Alive /\ (setting.punctual => Kept)

LEMMA RunCorrect == Spec => []RunInv
<1>1. Init => RunInv
  <2>1. Init => tasks = {} /\ Seized = {}
    BY DEF Init, NoVerdict, Seized
  <2> QED
    BY <2>1, InitTyped DEF RunInv, Alive, Kept, Tended, Alone, Untended
<1>2. RunInv /\ [Next]_vars => RunInv'
  <2>1. [Next]_vars => setting' = setting
    BY DEF Next, Create, Enqueue, Delete, Look, RunnerClaims, WorkerClaims, Claim, Admit, Begin, Renew,
           Finish, ReadOrphans, WriteVerdict, Crash, Restart, Tick, vars
  <2> QED
    BY <2>1, TypedStep, AliveStep, KeptStep DEF RunInv
<1> QED
  BY <1>1, <1>2, PTL DEF Spec

(* No job is executed twice at the same time, as long as no renewal fails   *)
(* and no claimed job waits for a lease's length.                           *)
THEOREM RunnerCorrect == Spec => []OneRunner
<1>1. RunInv => OneRunner
  BY DEF RunInv, Kept, Alone, OneRunner, NeverTwice
<1> QED
  BY <1>1, RunCorrect, PTL

LEMMA DoneStep ==
  ASSUME RunInv, [Next]_vars, setting.punctual, enqueues' = enqueues,
         NEW j \in Jobs, jobs[j].status = "done"
  PROVE  jobs'[j].status \in {"done", "deleted"}
<1>1. j \notin Seized /\ \A t \in tasks : t.job # j
  BY HeldByNone DEF RunInv
<1>2. jobs \in [Jobs -> Row] /\ jobs[j] \in Row
  BY DEF RunInv, TypedInv, TypeOK
<1>3. ASSUME NEW k \in Jobs, NEW row, jobs' = [jobs EXCEPT ![k] = row],
             k # j \/ row.status \in {"done", "deleted"}
      PROVE  jobs'[j].status \in {"done", "deleted"}
  BY <1>2, <1>3
<1>4. CASE UNCHANGED jobs
  BY <1>4
<1>5. ASSUME NEW k \in Jobs, Create(k) \/ Enqueue(k) \/ Delete(k)
      PROVE  jobs'[j].status \in {"done", "deleted"}
  <2>1. CASE Create(k)
    BY <1>3, <2>1 DEF Create
  <2>2. CASE Enqueue(k)
    <3>1. enqueues \in Nat
      BY JobsAssumption DEF RunInv, TypedInv, TypeOK
    <3>2. jobs[k].status = "absent"
      BY <2>2, <3>1 DEF Enqueue
    <3>3. PICK row : jobs' = [jobs EXCEPT ![k] = row]
      BY <2>2 DEF Enqueue
    <3> QED
      BY <1>3, <3>2, <3>3
  <2>3. CASE Delete(k)
    <3> DEFINE row == [NoRow EXCEPT !.status = "deleted"]
    <3>1. row.status = "deleted"
      BY DEF NoRow
    <3>2. jobs' = [jobs EXCEPT ![k] = row]
      BY <2>3 DEF Delete
    <3> HIDE DEF row
    <3> QED
      BY <1>3, <3>1, <3>2
  <2> QED
    BY <1>5, <2>1, <2>2, <2>3
<1>6. ASSUME NEW p, NEW k \in Jobs, NEW phase, Claim(p, k, phase)
      PROVE  jobs'[j].status \in {"done", "deleted"}
  <2>1. jobs[k].status = "queued" /\ jobs' = [jobs EXCEPT ![k] = Claimed(p, jobs[k])]
    BY <1>6 DEF Claim, IsNext, Suits
  <2> QED
    BY <1>3, <2>1
<1>7. ASSUME NEW t \in tasks, Admit(t) \/ Begin(t) \/ Renew(t) \/ Finish(t)
      PROVE  jobs'[j].status \in {"done", "deleted"}
  <2>1. t.job # j
    BY <1>1
  <2>2. \A k \in Jobs : k # t.job => jobs'[k] = jobs[k]
    BY <1>2, <1>7 DEF Admit, Begin, Renew, Finish
  <2> QED
    BY <2>1, <2>2
<1>8. CASE WriteVerdict
  BY <1>1, <1>4, <1>8 DEF WriteVerdict, Judged, Seized
<1>9. CASE Tick
  <2>1. jobs'[j] = IF jobs[j].lease > 0 THEN [jobs[j] EXCEPT !.lease = @ - 1] ELSE jobs[j]
    BY <1>9 DEF Tick
  <2> QED
    BY <1>2, <2>1 DEF Row
<1>10. CASE \/ Look \/ ReadOrphans \/ UNCHANGED vars
            \/ \E p \in Procs : Crash(p) \/ Restart(p)
  BY <1>4, <1>10 DEF Look, ReadOrphans, vars, Crash, Restart
<1> QED
  BY <1>4, <1>5, <1>6, <1>7, <1>8, <1>9, <1>10 DEF Next, RunnerClaims, WorkerClaims

(* A result once reported is taken back by nothing but a request for it, in *)
(* the same circumstances.                                                  *)
THEOREM DoneCorrect == Spec => DoneStays
<1>1. RunInv /\ [Next]_vars =>
        [setting.punctual /\ enqueues' = enqueues => \A j \in Jobs :
           jobs[j].status = "done" => jobs'[j].status \in {"done", "deleted"}]_vars
  BY DoneStep
<1> QED
  BY <1>1, RunCorrect, PTL DEF Spec, DoneStays
=============================================================================
