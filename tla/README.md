# Verification of Sath

TLA+ models, TLC runs and TLAPS proofs for the server (`server/ges_server`) and the field gateway
(`deploy/gateway`) of Sath, the BIM/SCADA platform of a hydropower plant. Paths below are relative to the
repository (`src/` in `PROJECT.json`).

The first subject is **supervisory control**: the way of a setpoint from a dispatcher's screen to the plant.
It is where an error of ordering costs the most, and where four parties act at once: people, the HTTP server's
threads, the background loop and the gateway. The second is **telemetry**: the way of a measured value or event
from the plant through the gateway to the server, through outages and restarts, and the **alarms** it raises there.
The third is what else on the server outlives a request: the **queue of jobs**, and **model versions** with their
drafts, files and reviews.

## 1. Inventory

| Part | State | Operations | What makes it hard | What makes it correct |
|---|---|---|---|---|
| Supervisory commands, `monitoring/control.py`, table `commands` | status, author, approver, deadline, `sent_at`, nonce of each command; select tokens in users' hands | select, execute, approve, cancel, claim, ack, readback, `expire_pending`, `watchdog_sent` | handlers read, decide and commit with neither row lock nor version; deadlines; late answers | status moves only along `TRANSITIONS`; one open command per point; two persons; nothing stale handed out; every wait ends |
| Gateway command channel, `CommandVerifier`, `Commander` of `deploy/gateway/ges_gateway.py` | nonce cache, the claimed batch | claim, verify, write, ack, readback | lost answers, process restart forgets the nonces, clocks differ, writes that raise half way | a payload is written once, only while it is valid, and what is reported is what happened |
| Gateway spool and pusher, same file 685-935 | SQLite queue, back-off | add, batch, ack, flush, cut on 413/422, drop | crash between post and delete, queue full, invalid row in a batch | nothing lost below the limit, nothing confirmed sent again, oldest first, always drains |
| Gateway drivers and main loop, same file 35-530, 937-990 | connections, changed values, SOE buffer | `read`, `read_safe`, `run_once` in one thread | callbacks run while the loop copies and clears; the command channel reads through the same driver; one exception ends the process | no change of value is dropped; a tag that cannot be read is known as such |
| LOTO and work orders, `monitoring/workorders.py`, `cmms.py`, `parts.py` | order status, permit, lockout, stock | update, permit, loto, reserve, consume, move | lockout against a command under way; read-modify-write of stock | a locked-out point is not commanded; stock is not counted twice |
| Alarms, `monitoring/live.py`, `alarm_kpi.py` | open events, pending delays, shelving | ingest, settle, transition, ack, shelve, suppress | delays reset by level changes, late samples, sweep against ingest, losses of contact under shelving | the journal agrees with the sensor; a value that stays gets its alarm |
| Live hub and backplane, `live.py`, `backplane.py` | per-client queues, Postgres NOTIFY batches | publish, subscribe, drop | slow clients, lost notifications, order across instances | a client that falls behind is told |
| Background loop and leader, `background.py`, `ha.py` | leader lock, last hour done | acquire, held, ticks, hourly jobs | lock lost during a tick, crash before the hour is recorded | one instance ticks; the hour's work is done at least once |
| Simulation and derived jobs, `jobs.py`, `sim/router.py`, `sim/worker.py` | job rows with lease, worker and attempts | create, enqueue, claim, renew, finish, reconcile, delete | leases that run out under a live worker, claims beyond capacity, a reconciliation that writes late, processes that come back under their old name | a job is executed by one worker at a time, never tried too often, keeps its result, and ends |
| Accounts and sessions, `auth/` | session rows, tickets | login, refresh, revoke | | taken as given |
| Audit chain, `audit.py` | hash chain, per-transaction buffer | log, flush after commit, verify | crash between commit and flush, concurrent writers | the chain verifies |
| Model versions, drafts, `models/*` | versions, head, drafts, the trash | upload, import, classify, restore, commit drafts, delete, purge | expected head against insert; one draft in two commits; edits during a draft commit | versions are numbered without gaps or forks; a draft enters one version |
| Review, `review/router.py` | change request, version, votes | create, review, set version, merge, reject | a vote for a version replaced meanwhile; two merges; newer and older versions in review together | what is merged is what another person approved; one published version, the newest |
| Blob store and its collection, `models/blob_gc.py`, `keylocks.py` | files by hash, references, in-process locks | upload, dedupe, sweep | reference taken between snapshot and unlink; lock evicted before it is taken | no referenced file is deleted |
| Shift journal and handover, `control.py`, `shift.py` | open handovers | open, accept, sign | two handovers at once | one open handover |
| Historian, SOE, MQTT bridge, reports, notifications | aggregates, event log | roll-up, purge, ingest | roll-up against late samples | not surveyed in detail |
| Desktop add-on, web client, simulators (`desktop`, `web`, `sim`, `deploy/simulator`) | geometry, UI, numerics | | mostly sequential or numerical | out of scope |

Interactions on the command path: people call the server over HTTP; the gateway polls `POST .../commands/claim`,
then posts `ack` and `readback`; the background loop calls `control.tick` on a database session of its own;
`recheck_command` reads interlocks (`interlock.py`), sensors and `cmms.loto_blocks`; all of them meet only in the
database.

## 2. Plan

1. `Commands`, `CommandLedger`, `Gateway`, `CommandPath` with the first proofs. **Done.**
2. Telemetry: `Pusher` (spool, batches, a lossy server) with the proofs of its safety, `Sources` (drivers and main
   loop). **Done.**
3. `Jobs`: leases, claims, reconciliation, lost processes. **Done**; an abstract ledger of jobs would only repeat
   `OneRunner` and `DoneStays`.
4. `Versions` (numbering, expected head, drafts, the trash, the file store and its collection) and `Review` over it.
   **Done.**
5. `Alarms` (delays, dead bands, staleness, shelving, suppression). **Done.**
6. Proofs. **Done** for every safety property the passing runs check (section 5): the server alone and on the path,
   with interleaved handlers, and with those that lose no update; the gateway's nonce cache; spool and sources; the
   queue; versions and reviews; alarms.
7. Next: the commit of one late transaction in `Alarms` and `Versions` beside the serial theorems, that is, which parts
   of `JournalInv` and `StatesHeld` an overlap leaves intact.

A run per module and question is the rule. Where a run only repeats a theorem in a small instance, or violates a
property for a cause another run shows, it has made room.

## 3. Modules

### `Commands`: the server

| TLA+ | Code |
|---|---|
| `commands` | the table; an id whose status is `"absent"` has no row yet |
| `tokens` | select tokens (stateless in the code, so a set of those alive) |
| `session[k]` | the open transaction of one database session: what it will write, the signer and time stamp it took; `read` remembers the status each row had when it was loaded |
| `blocked` | per point, obstructions `recheck_command` would find: `"closed"`, `"loto"`, `"interlock"` |
| `handed`, `claims` | history of signed payloads; the claim number stands for the random nonce |
| `Select`, `Execute`, `ApproveExpires`, `Approve`, `Cancel`, `Claim`, `Ack`, `Readback`, `Sweep` | the handlers up to their commit |
| `Commit`, `Rollback` | the commit of an open session; the partial unique index refuses it as a whole |

A handler is two steps because the code is: it loads rows, decides, and commits an `UPDATE` by primary key. The
session factory (`db.py`, `autoflush=False, expire_on_commit=False`) neither locks nor versions rows, so between the
two steps another handler may commit. `SetStatus` yields no write when the value does not change, as the ORM does.
`approve_command` commits expired rows on its own first: `ApproveExpires`. With one session handlers are serialised;
with two they interleave. A crash of the server before a commit is a handler that never began (the model may leave an
opened session for ever in the safety runs); a crash after it is a lost answer.

Abstracted: values, envelopes, rate limits, addresses and interlock expressions become `blocked`, which the
surroundings change at will; permissions are fixed sets; a poll that would write nothing is left out. The
time between `select` and its token's end is `SelectTTL`. A payload's `exp` is the deadline itself; the code cuts it
to whole seconds (`control.py:806`), by less than a tick, which only ends it earlier.

### `CommandLedger`: what supervisory control promises

For each command: asked for, perhaps signed by another person, released to the plant at most once, settled once, or
dropped before release. No clock, no table. `Commands!ImplementsLedger` maps statuses to stages, author and approver
to signers and nonces to release tickets.

### `Gateway`: `CommandVerifier` and `Commander`

`inbox` is what is left of the claimed batch, `step` the place in `run_once`, `seen` the nonce cache with the order of
insertion in `nth`, `posts` acknowledgements and read-backs under way, `field` the history of writes that reached the plant.
`RefuseOutdated`, `RefuseReplayed`, `RefuseWrite`, `Write` are the outcomes of verify, check and drive for one payload;
`PostAck`, `PostReadback` the two requests, each of which may be lost. A write's outcome is `"done"`, `"refused"`, or
`"unconfirmed"`: the driver raised after the plant had the value. `Restart` forgets everything but the plant and the
network. Signatures are taken to be genuine; verification and the write are one step, so a write that takes longer
than a tick of the clock is not represented.

### `CommandPath`: both, and the network

The gateway polls only when its batch is done. It may have stopped waiting for an earlier poll that the server still
handles; only the answer of the latest poll can be delivered. A post is handled (`Handle`), refused with 409
(`Refuse`), or was lost when sent. `Lock` dates lockouts.

### `Pusher`: spool and pusher

| TLA+ | Code |
|---|---|
| `spool` | the SQLite table; `id` is its key, which SQLite reuses after the highest row is deleted; `n` numbers the rows in order of arrival and is not in the code |
| `left`, `work` | what is left of `max_batches_per_cycle`, and the requests `_send` still has to make for the batch at hand, in the order its recursion makes them |
| `backoff` | `next_try` lies ahead |
| `up` | the server can be reached and answers with a verdict |
| `stored`, `heard`, `overflowed`, `refused` | histories: taken by the server, answered, dropped by the spool, dropped on the server's word |
| `Push` (with `Add`), `Load`, `Accepted`, `Split`, `Refused`, `Fail` | `push` up to `flush`, `Spool.batch` and the division by kind, the outcomes of one request |
| `RetryDue`, `Crash`, `Network` | surroundings |

One request is one step, except that `Fail` may leave the rows stored without the gateway hearing of it, which also
stands for a crash between the answer and the deletion. Stored means answered with 2xx: the gateway only logs what
such an answer lists as rejected or unknown, and deletes those rows too. A 5xx, 401, 403, 408 or 429 counts as not `up`. A row is
`bad` when the server's validation refuses a request because of it (422), `MaxBody` is the request size it takes
(413); a `picky` server may answer a valid request with another 4xx. `Spool.fail` counts attempts nobody reads and is
left out; so are the diagnostic tags, whose rows are readings like others, and the clock warning.

### `Sources`: drivers and main loop

| TLA+ | Code |
|---|---|
| `protocol`, `commanded` | the kind of source and whether there is a command channel, chosen once |
| `plant`, `faulty`, `link`, `wire` | the plant, its connection, notifications whose callback has not run |
| `latest`, `changed`, `badSent`, `soe`, `asking` | `_latest`, `_changed`, `_bad_sent`, the list of events, the interrogation's due time |
| `step`, `items`, `events` | the main loop's place, what it read, its copy of the events |
| `told`, `pushed`, `noted` | histories |
| `Callback` | `datachange_notification`, `_on_receive`, in the library's thread, under the source's lock |
| `ReadSafe`, `ReadSafeRaised`, `CopyEvents`, `ClearEvents`, `Push`, `NoCommand`, `Command`, `Readback` | one round of the main loop |
| `Drop`, `Return`, `Restart` | a lost connection, its return, a new process |

`read` differs by driver: Modbus asks for every tag; OPC UA in subscribe mode and IEC 104 hand over what callbacks
noted. OPC UA finds its session dead and replaces it inside `read`; the c104 library reconnects by itself and
interrogates. Each notification is a copy of the value at its time, so a value that changes while an older one is on
its way shows in order. What is pushed is `Pusher`'s from there on. Conversions, scaling and deadbands, the simulator,
CSV and OPC UA poll drivers are left out: polling is represented by Modbus. So is a Modbus answer that cannot be
converted (a type or a register count that does not fit the configuration, `ges_gateway.py:147` and `154`): it fails
the whole read, after tags before it may have been marked as told (`144`), so that their bad item is lost. `BadIsTold`
is claimed for tags that fail to be read, not for those.

### `Jobs`: the queue

| TLA+ | Code |
|---|---|
| `setting` | the kind of each job, `jobs_concurrency`, and whether renewals are `punctual` |
| `jobs` | `sim_jobs` and `jobs`: status, `worker_id`, what is left of the lease, attempts |
| `state`, `pid` | processes: the server (with its runner) and CFD workers; host and pid make `WORKER_ID` |
| `tasks` | claimed and unfinished executions: `"waiting"` for the semaphore, `"admitted"`, `"running"`, and whether the thread that renews is alive |
| `looking` | the runner found its semaphore free and is about to claim |
| `verdict` | what a reconciliation has read and not yet written |
| `Create`, `Enqueue`, `Delete` | requests; a derived job has an idempotency key and may be asked for again |
| `Look`, `RunnerClaims`, `Admit`, `WorkerClaims` | the runner's loop, `_execute` up to the semaphore, `worker.main` |
| `Begin`, `Renew`, `Finish` | `run_derived` and `run_job`, with `_renew_loop` beside them |
| `ReadOrphans`, `WriteVerdict` | `reconcile`, split at its commit |
| `Crash`, `Restart`, `Tick` | surroundings |

The claim is one conditional `UPDATE` and therefore one step; `finish` and the verdict write by primary key, whatever
the row has become. A row deleted under a verdict fails the whole transaction: in the loop that is logged, in
`_startup` it ends the runner's thread while the process lives (`"stalled"`), after which nothing is queued, claimed or
reconciled by that process. What a job computes, progress notes and the limits per project are left out.

### `Alarms`: one sensor and its journal

| TLA+ | Code |
|---|---|
| `setting` | thresholds, delays, dead band, the values readings take, and the circumstances |
| `row` | the sensor: last value and its age, `alarm`, `alarm_pending` and since when, `stale`, mode, suppression |
| `events` | the open rows of `alarm_events`, by number; `hidden` is the column `suppressed`, `told` says `announce` was called |
| `late` | the view of an operation that has read and not committed |
| `Ingest`, `MarkStale`, `SettlePending`, `UnshelveExpired` | `ingest` and the three parts of `tick_stale` |
| `Shelve`, `Unshelve`, `OutOfService`, `InService`, `UpdateSensor` | requests |
| `Level`, `Evaluate`, `Settled`, `Ended`, `Opened`, `Labels`, `Commit` | `evaluate_alarm`, `settle`, `transition`, `set_alarm_mode` and the commit |

Sensors share no rows, so one stands for all. A commit writes the columns its operation changed, as the ORM does: an
operation that read before another one committed writes over some columns and leaves the others. `UpdateSensor` is an
edit of the limits and of the suppressing condition, each with its evaluation. Acknowledgement
touches no column that the rest reads and is left out, as are rationalisation and the statistics of `alarm_kpi.py`.

### `Versions` and `Review`: models, drafts, files, change requests

| TLA+ | Code |
|---|---|
| `models`, `versions`, `drafts` | the tables; a purged version keeps its place in `versions` |
| `files` | the store by sha; `"old"`: past the grace of the collection |
| `work` | the version each user's request is about to make: being built, or its file stored and the row not inserted |
| `gc` | a running collection: the references and the cutoff it took at its start |
| `late`, `lateCrs` | what a transaction that is late has read |
| `Upload`, `Build`, `Built`, `Insert`, `GiveUp` | a request up to its file, the build in between, `create_version`, an error |
| `CommitDrafts`, `ImportMesh`, `Classify`, `RestoreVersion` | the other ways to a version |
| `DeleteModel`, `RestoreModel`, `Purge`, `Collect`, `Doom`, `Unlink`, `EndCollect`, `Age` | the trash and `blob_gc.collect` |
| `crs`, `reviews`, `CreateCR`, `Approve`, `RequestChanges`, `SetCRVersion`, `MergeCR`, `RejectCR` | `review/router.py` |

`Review` EXTENDS `Versions` and lets its handlers write the state of versions that uploads, purges and collections
work on. `SetCRVersion` has no caller: the code lets only the author re-aim a request, and the author is always there
to do it. `create_version` compares the head, reads the next number and inserts; what a request read may be older than
what the table holds, and the unique constraint on (model, number) has the last word. Contents of files and drafts,
codes, diffs, downloads, derived geometry, IDS checks and comments are left out, as are other tables that refer to
files.

## 4. Runs

| Run | Question | Result |
|---|---|---|
| `commands_serial` | one session, two commands, lockout and interlock, four ticks | all hold: type, one open command, override entitled, the ledger |
| `commands_concurrent` | two sessions, fairness | two-person rule and freshness survive any interleaving, only a lost update leaves `TRANSITIONS`, and waits end |
| `gateway_replay` | the gateway alone under replays and restarts | a payload is written once per process |
| `path_serial` | one session, gateway beside it, writes that may raise after they took effect | at most one write per command, none after cancellation, each while the row is `sent`, reported done means written; lockout horizon |
| `path_written_twice` | two sessions, `WrittenOnce` | **violated**: double approval, double write |
| `pusher` | both overflow policies, a server picky or not, outages, a restart | nothing vanishes, nothing confirmed is sent again, oldest first, only invalid rows refused, the limit kept, the spool drains |
| `sources` | three kinds of source without commands, IEC 104 with them | no change dropped (without commands), bad marks true, the server converges |
| `sources_readback` | OPC UA subscription with commands, `Converges` | **violated**: the read-back takes other tags' changes |
| `jobs` | a derived job beside a simulation or a CFD job, room for one or two, one lost process | tries bounded, one execution at a time, results stay, every job ends |
| `alarms` | six sensors in circumstances of their own | the journal agrees with the sensor, a value that stays gets its alarm |
| `alarms_edited` | an engineer edits the sensor, `JournalHolds` | **violated**: the edit changes the alarm past the journal |
| `models` | drafts, the trash, reviews; one transaction after the other, and overlapping | no fork, a draft in one version, no file lost, reviewed versions only, states tell their history |

### Findings

*One cause on the server.* A status is written by a handler that read another one: the stale `UPDATE` makes moves
`TRANSITIONS` forbids (a cancelled or expired row over `sent`), and on the path a second write or a cancelled command
that was carried out. `OnlyLostUpdates` says that this is the only cause. A condition on the `UPDATE`
(`WHERE status = ...`) or a version column would rule it out: that is `NothingLost`, under which the ledger,
`WrittenOnce` and `HeldWhileWritten` are theorems although handlers still overlap (section 5). `OneOpenCommand` needs
`pending_approval` in the index as well.

*Read-back on the gateway.* `Commander._readback` calls the source's own `read()` and keeps one tag. In subscribe
mode the changes of every other tag are gone; they reach the server with the tag's next change (OPC UA: perhaps
never) or the next interrogation (IEC 104, which is why that setting still converges). A polled source loses another
tag's single "bad" item in the same way, so `sources` leaves polling with commands out as well: `BadIsTold` fails
there.

*Events.* `soe.clear()` after the copy, without the lock `_on_receive` takes, erases what arrived in between.

*Edits of a sensor.* `update_sensor` evaluates the new limits and assigns the result to the sensor, without `settle`
and `transition`: no event is opened or ended. From then on sensor and journal disagree until the next alarm.

*Weaker than promised, without a run.* Each of these is seen by checking the named property in the setting named here:

* `OneOpenCommand` fails with two sessions: the partial unique index leaves `pending_approval` out. `OpenPairsWait`
  (section 5) says how far that goes.
* `CancelledNeverWritten` fails with two sessions: the cancellation commits over the claim. The serial run shows that
  cancellation and expiry themselves refuse what was handed out, no more.
* `EventsKept` of `Sources` fails for IEC 104: an event noted between copy and clear is erased.
* `NeverTwice` of `Jobs` fails where renewals are not `punctual`: the lease of an execution whose renewing thread met a
  database error, or of a claimed job that waits for the semaphore, runs out, and the job is queued again under it.
* `AllTold` of `Alarms` fails: of two events that come back together after shelving `set_alarm_mode` returns, and so
  announces, one. With a suppression by condition, its end leaves an open event hidden.
* `NoSilentFork`, `DraftOnce`, `FilesKept`, `StatesTell` hold while transactions do not overlap. When they do, the head
  may move between comparison and number (the docstring of `create_version`, `models/router.py:173`, promises a
  refusal), two commits may take up one draft, a file may be unlinked after the look at its age and before a version
  refers to it, and two merges may publish two versions. Numbers without gaps and the approval by another person
  survive overlaps.
* The on-delay starts anew when the value swings between two levels (`live.py:204`), and `mark_stale` clears what is
  pending, so a sensor whose on-delay is longer than `stale_after_s` and that falls silent raises nothing. Hence
  `HeldIsRaised` speaks of a value that stays and is sent again and again.

*Reports.* Two statements of the documentation differ from the code without a run of their own: docs/admin.md says the
watchdog makes an unanswered command `failed`, `watchdog_sent` writes `unknown`; and a write that raised after the
value reached the plant is acknowledged `failed`, which the notice to its author calls not carried out.

### Bounds

`MaxCommands` 2: properties relate a command to another for its point; one more adds no new pair; 1 where a run has
fairness or asks about one command. `MaxClaims` 2: one
claim and its repetition. `MaxTime` is past the longest chain of deadlines: approval 2, then command 1, then sent
timeout 1. `MaxTokens` 1: a token is not consumed, so one may be executed twice. Two sessions are the least that
interleave, and every violation needs no more. One point: points meet only in `claim` and the sweep, which treat rows
one by one. In the runs of `Commands` `CommandTTL` is 1 and
`ApprovalTTL` 2: approval outlives the command, as 600 s and 60 s do. In the path runs `CommandTTL` is 2 and
`SentTimeout` 3, that is `SentTimeout` = `CommandTTL` + `Skew`, the least for which `HeldWhileWritten` holds; the defaults (120, 60, 30) satisfy
it, a `command_ttl_s` above 90 s does not. `CacheMax` 2 with two payloads alive: with more payloads alive than the cache
holds (10000 in the code) the oldest nonce is forgotten while valid, and `NonceWrittenOnce` no longer holds.

`Pusher`: a spool of three rows, batches of three and requests of two rows make every cut, nested ones too; four rows
in cycles of at most two overflow the spool and reuse an id; one restart, any number of outages. `Sources`: two tags,
one of them with time stamps, and three changes, faults, lost connections or restarts in any mixture (two with a
command channel): a lost value needs a change and a read in the wrong place, a stale bad mark a failure, a recovery
and a failure. An interrogation waits until the last one is answered, which bounds `wire`.

`Jobs`: two jobs are the least that compete for room and order; a derived job is claimed before a simulation, so the
mixtures are derived with simulation on one place (one waits for the semaphore) and derived with CFD on two (runner and
worker at once). One lost process, which may come back under its old `WORKER_ID`; four claims of a job are its attempts
twice over, for an enqueue that sets attempts back. `LeaseS` 2: a lease may be half gone when renewed. In the
`punctual` settings no renewal fails and nothing claimed waits for a lease's length; `OneRunner` and `DoneStays` speak of
those, types and `AllSettle` of all.

`Alarms`: values on both sides of every threshold and inside the dead band, delays of up to two ticks, readings that
arrive up to a tick old, `StaleAfter` 1. Each sensor isolates one circumstance (high with delays both ways, low, rate of
change, deviation with suppression by condition, overlap, edits), because their product adds states and no new
meeting: they share only `row.alarm`. Two events are open at once serially, one alarm and one loss of contact; overlaps
may leave more, for which there are four numbers.

`Versions`, `Review`: two users (one of them an approver), two models or two change requests where the question is
about a pair, at most three versions. Overlap means that one transaction at a time is late: every violation listed above
needs no more. A file ages only while no request is about to refer to it and no collection runs, which is what the
grace of at least 600 s is for; collections do not run beside each other, and a purge starts its own.

`CHECK_DEADLOCK FALSE`: bounded clocks and counters let a behaviour end.

### Fairness

`commands_concurrent` assumes that time passes, that a begun handler commits or rolls back, and strong fairness of the
sweep as a whole. The background loop (`background.py:136`) calls `tick_commands` every interval on its own
`SessionLocal()`, whatever requests do, and catches exceptions, so an enabled sweep is not postponed for ever; strong
rather than weak because in the model the sweep borrows one of the modelled sessions and is disabled while it waits
for one.

`pusher` assumes that the main loop goes round (`main` calls `push` every `interval_s`, empty-handed too), that a
request ends (15 s timeout) and that the back-off ends (at most 300 s). `Drains` is conditional on `<>[]up`, so the
network owes nothing. `sources` assumes that the loop goes round, that callbacks run, that `interrogation_s` passes
and that a lost connection returns; changes, faults and losses are bounded and owe nothing.

`jobs` assumes that the runner's loop goes round (`jobs.py:217` catches what a round raises) and asks for work and for
orphans again and again (strong, since one excludes the other while it is under way), that executions end (solver and
models have time limits), that workers poll and lost processes are started again (`restart: unless-stopped`), and that
time passes. `AllSettle` is conditional on `<>[](state[Server] = "up")`: a runner that stalled settles nothing.

`alarms` assumes that time passes, that a late operation ends, and weak fairness of the sweeps: `tick_stale` is called
by the same loop as `tick_commands`. Readings are owed by nobody; `HeldIsRaised` has them in its premise.

## 5. Proofs

The invariants and action properties of the passing runs are theorems, for all values of the constants that the
assumptions below allow, and so is the refinement of `CommandLedger`. Two are left to TLC: `OneOpenCommand` and
`CancelledNeverWritten` are true of serial handlers only, and the theorems are about handlers that overlap. Each
invariant named here was checked by TLC on a run of its module before it was proved.

### The server: `Commands_proofs`

With any number of sessions:

* `TypeCorrect`: `Spec => []TypeOK`.
* `TwoPersonCorrect`: `Spec => []TwoPersonRule`. The rule is not inductive: it speaks of payloads already handed out.
  `TwoPersonInv` adds that every row past approval is signed (`RowsCleared`), that every open transaction that will
  write such a status read a signed row or brings a signature that is not the author's (`PlansCleared`), that an
  insert for a dual-approval point waits for approval (`InsertsWait`), and that payloads in open transactions are
  signed (`PayloadsCleared`). `CommitKeeps` is the core: no commit, however stale, takes a signature away, because
  author and point are written once and `approved_by` only ever by `approve_command`.
* `FreshCorrect`: `Spec => []FreshHandover`, from a bound on the deadline of every `pending` row and of every row
  about to be inserted.
* `OverrideCorrect`: `Spec => OverrideEntitled`. The flag goes from the token to the row to be inserted and to the
  table, and no handler sets it (`OverrideInv`).

* `LawfulCorrect`: `Spec => OnlyLostUpdates`. `DecidedInv` relates what an open transaction plans to the statuses it
  loaded: the plan follows `TRANSITIONS` from those. So a move outside has a transaction behind it that loaded another
  status than it overwrites.
* `OpenPairsCorrect`: `Spec => []OpenPairsWait`. Overlapping executions may open two commands on one point, as the
  query and the index let them, but only where both need a second signature, and one still waits for it: the index
  refuses that both are on their way to the gateway.

Where no update of a status is lost, `NothingLost`: a handler that commits finds every row it writes with the status
it loaded. Handlers may overlap as they like otherwise. `SerialLosesNothing` shows that a single session fulfils it,
so the serial runs are instances of what follows; a conditional `UPDATE` would fulfil it with any number.

* `LedgerCorrect`: `Spec /\ NothingLost => ImplementsLedger`, every commit a step of the ledger or a stutter.
  `HandoverInv` says that each payload was handed out once, for a row that says so (`HandedOnce`, `HandedFits`), and
  how that reaches what a transaction has read (`ReadFits`). Without the hypothesis it is false, as the finding on the
  server says and the run `path_written_twice` shows.

### The path: `CommandPath_proofs`

`PathIsServed`: `PathSpec => Spec`. Server steps of the path are steps of `Commands` and the gateway's leave the
server alone, so what is proved of `Commands` holds of the path.

With any number of sessions: `PathTypeCorrect`, which bounds the nonce cache too; `AckedCorrect`, from `WordInv` (a
good word about a command, in the gateway, under way, read by a handler or in the table, was preceded by its write);
`LockoutCorrect`, from `LockoutInv` (every payload that left or is about to leave was stamped before the lockout in
force at its point) and the payload's validity of `FreshInv`.

Under `NothingLost`, with any number of sessions: `WrittenOnceCorrect`, from `UntriedInv`: a payload the gateway may
still come to write was never written nor reported on, and its row says `sent`, or `unknown` once the watchdog's
patience is over.
`HeldCorrect` adds that `SentTimeout >= CommandTTL + Skew - Offset`: then the patience outlasts the payload, as the
gateway's clock sees it. It is the condition on the deployment named under Bounds.

### The gateway: `Gateway_proofs`, `Pusher_proofs`, `Sources_proofs`

`NonceCorrect`: `MCSpec /\ []FewAlive => []NonceWrittenOnce`, with the network of `MCGateway`, which hands a payload
in as often as it likes. `FewAlive` is the capacity: no more payloads are alive at a time than `CacheMax`; without it
the property is false, since the oldest nonce makes room. `FewCommandsCorrect` draws the conclusion for at most
`CacheMax` commands, the case of the run. `SpentInv` says that what was written is remembered or outdated. That it
stays so rests on the skew: `CommandVerifier` forgets a nonce at the very moment its payload becomes outdated
(`SpentReplayed`), and a payload let in finds a free place (`RoomLeft`), because the remembered nonces map one to one
to other payloads alive.

`Pusher_proofs` proves every safety property of `Pusher` for any sizes, policies and number of restarts:
`TypeCorrect`, `NothingVanishesCorrect`, `NotSentAgainCorrect`, `OldestFirstCorrect`, `OnlyBadRefusedCorrect`,
`SpoolBoundedCorrect`. The common invariant `PusherInv` says that ids on disk increase with the order of arrival
(`Ranked`: kept although ids are reused, because a new id is above all that are on disk), that nobody heard of a row
on disk, and `Waiting`: the pieces still to send hold rows on disk, no row twice, and no row before an older one of
its kind. `Waiting` is why a cut, a retry and a restart keep the order, and it has a lemma for each thing that happens
to the pieces: `LoadWaiting`, `SplitWaiting`, `SettledWaiting`, `NoneWaiting`. `OldestFirst` follows because only the
first piece is ever stored, and by `Waiting` whatever is older than one of its rows is in it.

`Sources_proofs` proves `TypeCorrect`; `NewsCorrect`, `Spec => []NewsIsCurrent` in every setting; and `BadCorrect`,
`NoCommandsByPoll => (Spec => []BadIsTold)`. Both properties become inductive with two facts about the main loop's
place: it holds items only between a read and its push (`Handed`), and goes to the commands only where there is a
channel (`Commanding`). `NoCommandsByPoll` leaves commands over Modbus out: there the read-back drops the bad items of
other tags after they were marked as told, and `BadIsTold` is false (section 4). TLC checks the property without
commands and for IEC 104 with them; the theorem adds OPC UA with them.

### The queue: `Jobs_proofs`

* `TypeCorrect`, with the limit of tries, in all settings. `Tries` adds that what is queued has a try left, and so has
  what a verdict is about to queue again, although the row may have been enqueued by a request since the verdict read
  it; `Turns` that the runner claims or reconciles, never both.
* `RunnerCorrect`: `Spec => []OneRunner`. Where renewals are punctual (`Kept`): the row of every claimed or running
  execution is held, under the process's own name and with some lease left, or deleted (`Tended`); there is one
  execution per job (`Alone`); and a verdict under way is about jobs that nobody executes (`Untended`). `Alive`: a
  lost process holds no execution, so one that comes back under its old name begins with none.
* `DoneCorrect`: `Spec => DoneStays`, step by step from the same invariant.

### Versions and reviews: `Review_proofs`

All of `Review` over `Versions`, specification `SpecAll`:

* `ReviewedCorrect`: `SpecAll => []ReviewedOnly`. The invariant `ReviewedInv` extends the property to approved
  requests (`RowsSigned`) and to what a late transaction has read (`LateSigned`): it knows the author, who never
  changes, and what it read as approved has its approval, because reviews only go with a purge. `CommitKeeps` is the
  core: the commit of a handler merges the columns it changed into a row that others wrote meanwhile, and either the
  status is its own, then it brings or read an approval, or the status is the row's, then the row had one. Nothing
  about versions, drafts or files is needed; without overlap the row read is the row written, which gives the version.
* `ReviewTypeCorrect`, also where transactions overlap: types, and that the versions of a model are numbered from 1
  without gaps or repetitions. `LateTyped` relates what a late transaction has read to what is there now (`Earlier`:
  the table has only grown, and models and numbers stay).
* `ForkCorrect`, `DraftCorrect`, `FilesCorrect`, `StatesCorrect`: properties that speak of transactions that do not
  overlap. `ForkInv`: what a version follows is in the table, and its number is one more. `DraftsFollow`: a draft in a
  version is gone for good, and every other request that took it up expects a head older than that version (`Behind`),
  so `create_version` refuses it. `FilesHeld`: a file stored for a row to come stays new, and so does one of a row
  that came while a collection runs, unless the collection counts it as referred to. `StatesHeld` gives each direction
  between states and change requests: shared versions and their one pending request, public versions and their merge,
  and nothing merged that is newer than what is published (`NothingNewer`).

### Alarms: `Alarms_proofs`

* `TypeCorrect`, also where operations overlap: the columns of two rows mix to a row (`LateTyped`).
* `JournalCorrect`: `Spec => []JournalMatches`, for sensors whose operations do not overlap and that nobody edits.
  `JournalInv` says that nothing is late, that one event is open for a loss of contact with a sensor that had a value
  (`Contact`), one for the alarm that is on and none for another (`Risen`), that a stale sensor waits for nothing
  (`Waits`), and that events are hidden as the mode says (`Veiled`). `CommitKept` says once what any commit does to
  the journal; an operation's lemma then only says what it ends and opens. `Veiled` and the part of `Waits` about
  suppression leave out sensors with a condition, whose events may stay hidden (section 4).

### Assumptions

`PeopleAssumption`, `PointsAssumption`, `BoundsAssumption` of `Commands`; `PathAssumption` of `CommandPath` and
`GatewayAssumption` of `Gateway` (a skew and a cache size, writable points among the commanded ones);
`PusherAssumption`; `SourcesAssumption`; `JobsAssumption` (at least one attempt and one tick of lease; the server is
no worker); `AlarmsAssumption` (integer values apart from `None`, natural numbers for events); `VersionsAssumption`
(approvers are users; the marks `None` and `Any` are no model, user, content or number). They say what the constants
are, and TLC evaluates each in the run of its module. Beyond them, a theorem assumes only what it names: `NothingLost`,
`NoCommandsByPoll`, `FewAlive`, the bound on `SentTimeout`, or the circumstances (`punctual`, `overlap`, `engineer`)
its property mentions.

### Only model-checked

Liveness, which TLAPS does not reach: `WaitingEnds`, `SentEnds`, `Drains`, `Converges`, `AllSettle`, `HeldIsRaised`.
What the three violations and the list in section 4 say is false is shown by TLC alone. Three facts about finite sets
would be proved by induction over data: the least unused number of an event, the oldest nonce and the last place in
the cache. They come from `LeastNatural` instead, a least counterexample by the library's fact that `<` on the
naturals is well founded.

## 6. Not modelled

* *Work orders, permits, stock.* Lockout enters as `Obstruct` and `Lock`. A stock movement and a reservation are one
  read-modify-write each; `parts.py:197` has no guard against another one beside it, so a model could only show the
  lost update. Reading `set_loto` shows that applying an active lock again makes the applicant its owner, who may then
  remove it (the docstring leaves that to the one who put it on, or an approver), and that an order closed by a request
  that read it before the lock keeps an active lock `loto_blocks` no longer sees; neither is checked here.
* *Live hub and backplane.* Queues drop the oldest message, replicas relay without acknowledgement; clients reload.
  Nothing is promised that could be checked.
* *Background loop and leader.* Taken as the fairness of section 4; what two leaders do at once is the overlap of
  `Alarms` and the two sessions of `Commands`. The advisory lock is PostgreSQL's.
* *Audit chain.* Its promise is that of the hash, which a model would assume.
* *Handover.* One open handover is a query before an insert, the pattern whose weakness `OneOpenCommand` shows
  for commands.
* *Accounts, historian, SOE, MQTT bridge, reports.* Taken as given, or beyond the point where `Pusher` ends.
* Interlock evaluation and the envelope are pure functions of the database and appear as obstructions. The simulators,
  geometry, desktop and web clients carry no protocol state of the kind checked here.
