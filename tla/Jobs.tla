-------------------------------- MODULE Jobs --------------------------------
(***************************************************************************)
(* The queue of simulation and derived jobs: jobs.py, sim/worker.py and    *)
(* run_job of sim/router.py.                                               *)
(*                                                                         *)
(* A row is claimed with one conditional UPDATE and held by a lease that a *)
(* thread of the worker renews.  A row that runs without a lease is        *)
(* reconciled: queued again, or failed when its attempts are used up.  The *)
(* server's runner takes everything but CFD, as many jobs at a time as it  *)
(* has room for; CFD workers are processes of their own that do one job at *)
(* a time and do not reconcile.                                            *)
(***************************************************************************)
EXTENDS Integers, FiniteSets

CONSTANTS
  Jobs,         \* ids of rows, numbers
  MaxAttempts,  \* per kind: max_attempts
  Server,       \* the process with the runner
  Workers,      \* CFD workers, each on a host of its own
  LeaseS,       \* LEASE_S, in ticks; renewed once in a tick
  MaxActive,    \* sim_max_active_per_user; one author stands for all
  Settings,     \* the settings to consider, see Setting
  MaxClaims,    \* bound on the claims of one job
  MaxEnqueues,  \* bound on repeated enqueues of failed derived jobs
  MaxCrashes    \* bound on lost processes

Procs == {Server} \cup Workers

Kinds == {"derived", "sim", "cfd"}

(* kind of each job; capacity is jobs_concurrency; punctual: no renewal     *)
(* fails, and no claimed job waits for a lease's length.                    *)
Setting == [kind : [Jobs -> Kinds], capacity : Nat \ {0}, punctual : BOOLEAN]

ASSUME JobsAssumption ==
  /\ Jobs \subseteq Nat /\ Settings \subseteq Setting /\ MaxAttempts \in [Kinds -> Nat \ {0}]
  /\ Server \notin Workers
  /\ LeaseS \in Nat \ {0} /\ MaxActive \in Nat
  /\ MaxClaims \in Nat /\ MaxEnqueues \in Nat /\ MaxCrashes \in Nat

VARIABLES
  setting,    \* of this behaviour, for ever
  jobs,       \* the tables sim_jobs and jobs
  state,      \* of each process
  pid,        \* of each process; with the host it is WORKER_ID
  tasks,      \* executions a process has claimed and not finished
  looking,    \* the runner found its semaphore free and is claiming
  verdict,    \* what a reconciliation that has read the tables will write
  claims,     \* claims of each job so far (tells executions apart)
  enqueues,   \* repeated enqueues so far
  crashes     \* processes lost so far

vars == <<setting, jobs, state, pid, tasks, looking, verdict, claims, enqueues, crashes>>

Status == {"absent", "queued", "running", "done", "failed", "deleted"}

WorkerIds == Procs \X (0..MaxCrashes)

(* lease is what is left of it; a tick takes one from it.                   *)
Row == [status : Status, worker : WorkerIds \cup {<<>>}, lease : 0..LeaseS, attempts : Nat]

NoRow == [status |-> "absent", worker |-> <<>>, lease |-> 0, attempts |-> 0]

Task == [at : Procs, job : Jobs, claim : 1..MaxClaims,
         phase : {"waiting", "admitted", "running"}, renewing : BOOLEAN]

Verdict == [open : BOOLEAN, requeue : SUBSET Jobs, fail : SUBSET Jobs]

NoVerdict == [open |-> FALSE, requeue |-> {}, fail |-> {}]

WorkerId(p) == <<p, pid[p]>>

Init ==
  /\ setting \in Settings
  /\ jobs = [j \in Jobs |-> NoRow]
  /\ state = [p \in Procs |-> IF p = Server THEN "starting" ELSE "up"]
  /\ pid = [p \in Procs |-> 0]
  /\ tasks = {} /\ looking = FALSE /\ verdict = NoVerdict
  /\ claims = [j \in Jobs |-> 0] /\ enqueues = 0 /\ crashes = 0

Queued(row) == [row EXCEPT !.status = "queued"]

-----------------------------------------------------------------------------
(* Requests: create_job, delete_job, enqueue                                *)

Active == {j \in Jobs : setting.kind[j] # "derived" /\ jobs[j].status \in {"queued", "running"}}

Create(j) ==
  /\ setting.kind[j] # "derived" /\ jobs[j].status = "absent"
  /\ Cardinality(Active) < MaxActive
  /\ jobs' = [jobs EXCEPT ![j] = Queued(@)]
  /\ UNCHANGED <<setting, state, pid, tasks, looking, verdict, claims, enqueues, crashes>>

(* A known idempotency key gives the row there is; a failed derived job is  *)
(* queued afresh, and one that is done when its result has been lost.       *)
Enqueue(j) ==
  /\ setting.kind[j] = "derived"
  /\ \/ /\ jobs[j].status \in {"absent", "failed"}
        /\ jobs' = [jobs EXCEPT ![j] = [Queued(@) EXCEPT !.attempts = 0]]
     \/ /\ jobs[j].status = "done"
        /\ jobs' = [jobs EXCEPT ![j] = Queued(NoRow)]
  /\ jobs[j].status # "absent" => enqueues < MaxEnqueues
  /\ enqueues' = IF jobs[j].status = "absent" THEN enqueues ELSE enqueues + 1
  /\ UNCHANGED <<setting, state, pid, tasks, looking, verdict, claims, crashes>>

Delete(j) ==
  /\ setting.kind[j] # "derived" /\ jobs[j].status \notin {"absent", "deleted"}
  /\ jobs' = [jobs EXCEPT ![j] = [NoRow EXCEPT !.status = "deleted"]]
  /\ UNCHANGED <<setting, state, pid, tasks, looking, verdict, claims, enqueues, crashes>>

-----------------------------------------------------------------------------
(* claim and next_queued                                                    *)

Suits(p, j) == jobs[j].status = "queued" /\ (setting.kind[j] = "cfd" <=> p # Server)

(* Derived jobs first, then simulations, each in the order of their ids.    *)
IsNext(p, j) ==
  /\ Suits(p, j)
  /\ \A k \in Jobs :
       Suits(p, k) => \/ setting.kind[j] = "derived" /\ setting.kind[k] # "derived"
                      \/ setting.kind[j] = setting.kind[k] /\ j <= k

(* Definitions named Mutant... are plausible bugs in the definition that    *)
(* follows them; no specification uses them.                                *)

MutantClaimed(p, row) ==
  [status |-> "running", worker |-> WorkerId(p), lease |-> 0, attempts |-> row.attempts + 1]

Claimed(p, row) ==
  [status |-> "running", worker |-> WorkerId(p), lease |-> LeaseS, attempts |-> row.attempts + 1]

Claim(p, j, phase) ==
  /\ IsNext(p, j) /\ claims[j] < MaxClaims
  /\ jobs' = [jobs EXCEPT ![j] = Claimed(p, @)]
  /\ claims' = [claims EXCEPT ![j] = @ + 1]
  /\ tasks' = tasks \cup
       {[at |-> p, job |-> j, claim |-> claims[j] + 1, phase |-> phase, renewing |-> FALSE]}
  /\ UNCHANGED <<setting, state, pid, verdict, enqueues, crashes>>

-----------------------------------------------------------------------------
(* The runner: Runner.run and Runner._execute                               *)

Waiting == {t \in tasks : t.at = Server /\ t.phase = "waiting"}

Admitted == {t \in tasks : t.at = Server /\ t.phase # "waiting"}

(* Semaphore.locked: no room, or someone waits for it.                      *)
Locked == Cardinality(Admitted) >= setting.capacity \/ Waiting # {}

Look ==
  /\ state[Server] = "up" /\ ~looking /\ ~verdict.open
  /\ ~Locked /\ \E j \in Jobs : Suits(Server, j)
  /\ looking' = TRUE
  /\ UNCHANGED <<setting, jobs, state, pid, tasks, verdict, claims, enqueues, crashes>>

(* The loop goes round without a pause: it may find the semaphore free      *)
(* before the task it has just created has run.                             *)
RunnerClaims ==
  /\ looking
  /\ \/ \E j \in Jobs : Claim(Server, j, "waiting") /\ looking' \in {FALSE, ~Locked}
     \/ /\ \A j \in Jobs : ~Suits(Server, j)
        /\ looking' = FALSE
        /\ UNCHANGED <<setting, jobs, state, pid, tasks, verdict, claims, enqueues, crashes>>

Admit(t) ==
  /\ t \in Waiting /\ Cardinality(Admitted) < setting.capacity
  /\ tasks' = (tasks \ {t}) \cup {[t EXCEPT !.phase = "admitted"]}
  /\ UNCHANGED <<setting, jobs, state, pid, looking, verdict, claims, enqueues, crashes>>

(* worker.main                                                              *)
WorkerClaims(p) ==
  /\ p \in Workers /\ state[p] = "up" /\ \A t \in tasks : t.at # p
  /\ \E j \in Jobs : Claim(p, j, "admitted")
  /\ UNCHANGED looking

-----------------------------------------------------------------------------
(* An execution: run_derived and run_job, with the thread that renews       *)

(* run_job looks at the status once more, run_derived does not.             *)
Runs(t) == setting.kind[t.job] = "derived" \/ jobs[t.job].status = "running"

Begin(t) ==
  /\ t \in tasks /\ t.phase = "admitted"
  /\ \/ Runs(t) /\ tasks' = (tasks \ {t}) \cup {[t EXCEPT !.phase = "running", !.renewing = TRUE]}
     \/ ~Runs(t) /\ tasks' = tasks \ {t}
  /\ UNCHANGED <<setting, jobs, state, pid, looking, verdict, claims, enqueues, crashes>>

(* UPDATE ... WHERE id and worker_id                                        *)
Owns(t) == jobs[t.job].worker = WorkerId(t.at)

(* A database error ends the thread that renews, not the execution.         *)
Renew(t) ==
  /\ t \in tasks /\ t.renewing
  /\ \/ /\ Owns(t) /\ jobs[t.job].lease < LeaseS
        /\ jobs' = [jobs EXCEPT ![t.job].lease = LeaseS]
        /\ UNCHANGED tasks
     \/ /\ ~Owns(t) \/ ~setting.punctual
        /\ tasks' = (tasks \ {t}) \cup {[t EXCEPT !.renewing = FALSE]}
        /\ UNCHANGED jobs
  /\ UNCHANGED <<setting, state, pid, looking, verdict, claims, enqueues, crashes>>

(* finish and the end of run_job write by id; the write itself may fail.    *)
Finish(t) ==
  /\ t \in tasks /\ t.phase = "running"
  /\ tasks' = tasks \ {t}
  /\ \/ \E outcome \in {"done", "failed"} :
          /\ jobs[t.job].status # "deleted"
          /\ jobs' = [jobs EXCEPT ![t.job].status = outcome, ![t.job].lease = 0]
     \/ UNCHANGED jobs
  /\ UNCHANGED <<setting, state, pid, looking, verdict, claims, enqueues, crashes>>

-----------------------------------------------------------------------------
(* reconcile                                                                *)

MutantOrphan(j) ==
  /\ jobs[j].status = "running"
  /\ \/ jobs[j].lease = 0
     \/ state[Server] = "starting" /\ jobs[j].worker # WorkerId(Server)

(* At its start the server also takes what an earlier process of its host   *)
(* held.                                                                    *)
Orphan(j) ==
  /\ jobs[j].status = "running"
  /\ \/ jobs[j].lease = 0
     \/ /\ state[Server] = "starting"
        /\ \E n \in 0..MaxCrashes : jobs[j].worker = <<Server, n>> /\ n # pid[Server]

MutantTriesLeft(j) == jobs[j].attempts <= MaxAttempts[setting.kind[j]]

TriesLeft(j) == jobs[j].attempts < MaxAttempts[setting.kind[j]]

ReadOrphans ==
  /\ state[Server] \in {"starting", "up"} /\ ~looking /\ ~verdict.open
  /\ state[Server] = "up" => \E j \in Jobs : Orphan(j)
  /\ verdict' = [open |-> TRUE,
                 requeue |-> {j \in Jobs : Orphan(j) /\ TriesLeft(j)},
                 fail |-> {j \in Jobs : Orphan(j) /\ ~TriesLeft(j)}]
  /\ UNCHANGED <<setting, jobs, state, pid, tasks, looking, claims, enqueues, crashes>>

MutantJudged(j) ==
  IF j \in verdict.requeue THEN [Queued(jobs[j]) EXCEPT !.worker = <<>>, !.lease = 0] ELSE jobs[j]

(* An UPDATE by primary key.  A row deleted meanwhile fails the whole       *)
(* transaction: the loop logs it and goes on, at the start it ends the      *)
(* runner, though not its process ("stalled").                              *)
Judged(j) ==
  CASE j \in verdict.requeue -> [Queued(jobs[j]) EXCEPT !.worker = <<>>, !.lease = 0]
    [] j \in verdict.fail -> [jobs[j] EXCEPT !.status = "failed"]
    [] OTHER -> jobs[j]

WriteVerdict ==
  /\ verdict.open
  /\ \/ /\ \A j \in verdict.requeue \cup verdict.fail : jobs[j].status # "deleted"
        /\ jobs' = [j \in Jobs |-> Judged(j)]
        /\ state' = [state EXCEPT ![Server] = "up"]
     \/ /\ \E j \in verdict.requeue \cup verdict.fail : jobs[j].status = "deleted"
        /\ state' = [state EXCEPT ![Server] = IF @ = "starting" THEN "stalled" ELSE @]
        /\ UNCHANGED jobs
  /\ verdict' = NoVerdict
  /\ UNCHANGED <<setting, pid, tasks, looking, claims, enqueues, crashes>>

-----------------------------------------------------------------------------
(* Processes and time                                                       *)

Crash(p) ==
  /\ state[p] # "down" /\ crashes < MaxCrashes
  /\ crashes' = crashes + 1
  /\ state' = [state EXCEPT ![p] = "down"]
  /\ tasks' = {t \in tasks : t.at # p}
  /\ looking' = (looking /\ p # Server)
  /\ verdict' = IF p = Server THEN NoVerdict ELSE verdict
  /\ UNCHANGED <<setting, jobs, pid, claims, enqueues>>

(* In a container the new process often has the old one's pid.              *)
Restart(p) ==
  /\ state[p] = "down"
  /\ state' = [state EXCEPT ![p] = IF p = Server THEN "starting" ELSE "up"]
  /\ \E n \in {pid[p], crashes} : pid' = [pid EXCEPT ![p] = n]
  /\ UNCHANGED <<setting, jobs, tasks, looking, verdict, claims, enqueues, crashes>>

(* In time: what is executed is renewed, what is claimed is begun.          *)
InTime == \A t \in tasks : Owns(t) /\ jobs[t.job].status = "running" => jobs[t.job].lease > 1

Tick ==
  /\ \E j \in Jobs : jobs[j].lease > 0
  /\ setting.punctual => InTime
  /\ jobs' = [j \in Jobs |->
       IF jobs[j].lease > 0 THEN [jobs[j] EXCEPT !.lease = @ - 1] ELSE jobs[j]]
  /\ UNCHANGED <<setting, state, pid, tasks, looking, verdict, claims, enqueues, crashes>>

Next ==
  \/ \E j \in Jobs : Create(j) \/ Enqueue(j) \/ Delete(j)
  \/ Look \/ RunnerClaims \/ \E p \in Workers : WorkerClaims(p)
  \/ \E t \in tasks : Admit(t) \/ Begin(t) \/ Renew(t) \/ Finish(t)
  \/ ReadOrphans \/ WriteVerdict
  \/ \E p \in Procs : Crash(p) \/ Restart(p)
  \/ Tick

Spec == Init /\ [][Next]_vars

(* The runner's loop goes round; it asks for orphans every 60 s and for     *)
(* work every jobs_poll_s, whichever it did last.  Executions end (the      *)
(* solver and the analytic models have time limits), workers poll, lost     *)
(* processes are started again (restart: unless-stopped), time passes.      *)
Fairness ==
  /\ SF_vars(Look) /\ WF_vars(RunnerClaims)
  /\ SF_vars(ReadOrphans) /\ WF_vars(WriteVerdict)
  /\ WF_vars(\E t \in tasks : Admit(t) \/ Begin(t))
  /\ WF_vars(\E t \in tasks : Finish(t))
  /\ \A p \in Procs : WF_vars(WorkerClaims(p)) /\ WF_vars(Restart(p))
  /\ WF_vars(Tick)

FairSpec == Spec /\ Fairness

-----------------------------------------------------------------------------
(* Properties.                                                              *)

(* Types; and no job is tried more often than its max_attempts, although    *)
(* claims, executions without a lease and a reconciliation that writes late *)
(* meet on its row.                                                         *)
TypeOK ==
  /\ setting \in Settings
  /\ jobs \in [Jobs -> Row] /\ \A j \in Jobs : jobs[j].attempts <= MaxAttempts[setting.kind[j]]
  /\ state \in [Procs -> {"down", "starting", "up", "stalled"}]
  /\ pid \in [Procs -> 0..MaxCrashes]
  /\ tasks \subseteq Task
  /\ looking \in BOOLEAN
  /\ verdict \in Verdict
  /\ claims \in [Jobs -> 0..MaxClaims]
  /\ enqueues \in 0..MaxEnqueues /\ crashes \in 0..MaxCrashes

(* sim/worker.py: two workers cannot take one job.  As long as renewals     *)
(* succeed and nothing claimed waits for a lease's length, no job is        *)
(* executed twice at the same time, through crashes, restarts under the     *)
(* same worker id, reconciliations and late writes.                         *)
NeverTwice ==
  \A t, u \in tasks : t.job = u.job /\ t.phase = "running" /\ u.phase = "running" => t = u

OneRunner == setting.punctual => NeverTwice

(* A result once reported stays, unless a client asks for it after its loss:*)
(* neither a reconciliation that read the row before nor a second execution *)
(* takes it back.                                                           *)
DoneStays ==
  [][setting.punctual /\ enqueues' = enqueues => \A j \in Jobs :
       jobs[j].status = "done" => jobs'[j].status \in {"done", "deleted"}]_vars

(* jobs.py: the queue survives restarts.  If the runner keeps running in    *)
(* the end, every job comes to an end, whoever held it when and whatever    *)
(* was lost: claimed and never begun, executed and never reported, renewed  *)
(* by nobody.                                                               *)
AllSettle ==
  <>[](state[Server] = "up") =>
    <>[](\A j \in Jobs : jobs[j].status \notin {"queued", "running"})

=============================================================================
