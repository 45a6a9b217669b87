------------------------------- MODULE Alarms -------------------------------
(***************************************************************************)
(* The alarm of one sensor and its journal: monitoring/live.py, the        *)
(* handlers of monitoring/router.py that touch them, and the sweep of      *)
(* monitoring/background.py.                                               *)
(*                                                                         *)
(* Sensors do not share rows, so one stands for all.  Every operation      *)
(* reads the sensor and its open events, decides, and commits the columns  *)
(* it changed, without a lock.  Where setting.overlap allows it, one       *)
(* operation at a time is late: it decides on what it read before others   *)
(* committed.  Readings that change only the archive (bad quality, or      *)
(* older than the last) are left out.                                      *)
(***************************************************************************)
EXTENDS Integers, FiniteSets

CONSTANTS
  Settings,     \* sensors and circumstances to consider, see Setting
  Values,       \* values of readings
  None,         \* no value, no threshold
  StaleAfter,   \* stale_after_s, in ticks
  MaxLag,       \* bound on how old a reading is when it arrives
  ShelfLife,    \* length of a shelving
  Ids,          \* numbers for open events
  MaxRequests   \* bound on the requests of operators and engineers

Limits == [{"ll", "l", "h", "hh", "roc"} -> Int \cup {None}]

(* The values this sensor takes; the limits an engineer may choose from.    *)
Setting == [values : SUBSET Values, limits : SUBSET Limits, deadband : Nat, deviation : BOOLEAN, onDelay : Nat, offDelay : Nat,
            condition : BOOLEAN, overlap : BOOLEAN, engineer : BOOLEAN, requests : 0..MaxRequests]

ASSUME AlarmsAssumption ==
  /\ {StaleAfter, MaxLag, ShelfLife, MaxRequests} \subseteq Nat
  /\ Settings \subseteq Setting
  /\ Values \subseteq Int /\ None \notin Values /\ Ids \subseteq Nat

VARIABLES
  setting,   \* of this behaviour, for ever
  row,       \* the row of sensors
  events,    \* its open alarm_events, by number
  late,      \* what a late operation has read: a set of at most one view
  requests   \* requests of operators and engineers so far

vars == <<setting, row, events, late, requests>>

Levels == {"low", "lowlow", "high", "highhigh", "deviation", "roc"}

Modes == {"shelved", "out_of_service", "suppressed_by_design"}

MaxAge == StaleAfter + MaxLag + 1

(* age: time since last_ts; waited: since alarm_pending_since; left: until  *)
(* alarm_mode_until.                                                        *)
Row == [value : Values \cup {None}, age : 0..MaxAge, alarm : Levels \cup {"ok"},
        pending : Levels \cup {"ok", "none"}, waited : Nat, stale : BOOLEAN,
        mode : Modes \cup {"normal"}, left : 0..ShelfLife, suppressed : BOOLEAN, limits : Limits]

(* hidden is the column suppressed; told: announce was called for it.       *)
Event == [state : Levels \cup {"stale"}, hidden : Modes \cup {"none"}, told : BOOLEAN]

View(isLate) == [late |-> isLate, row |-> row, events |-> events]

(* What an operation that commits now may have read.                        *)
Views == {View(FALSE)} \cup late

(* A new sensor is stale, and nothing in the journal says so.               *)
Init ==
  /\ setting \in Settings
  /\ \E l \in setting.limits :
       row = [value |-> None, age |-> MaxAge, alarm |-> "ok", pending |-> "none", waited |-> 0, stale |-> TRUE,
              mode |-> "normal", left |-> 0, suppressed |-> FALSE, limits |-> l]
  /\ events = <<>> /\ late = {} /\ requests = 0

-----------------------------------------------------------------------------
(* evaluate_alarm: the alarm a row deserves.                                *)

(* The alarms in which a threshold is left only past the dead band.         *)
Sticky == [hh |-> {"highhigh"}, h |-> {"high", "highhigh", "deviation"},
           ll |-> {"lowlow"}, l |-> {"low", "lowlow", "deviation"}]

Exceeds(r, t) ==
  LET slack == IF r.alarm \in Sticky[t] THEN setting.deadband ELSE 0
  IN  /\ r.limits[t] # None
      /\ IF t \in {"h", "hh"} THEN r.value > r.limits[t] - slack ELSE r.value < r.limits[t] + slack

Level(r) ==
  IF Exceeds(r, "hh") THEN "highhigh" ELSE IF Exceeds(r, "h") THEN "high"
  ELSE IF Exceeds(r, "ll") THEN "lowlow" ELSE IF Exceeds(r, "l") THEN "low" ELSE "ok"

Abs(n) == IF n < 0 THEN -n ELSE n

(* diff is the change over time; time is 0 when no rate is known.           *)
TooFast(r, diff, time) ==
  /\ r.limits["roc"] # None /\ r.limits["roc"] > 0 /\ time > 0
  /\ 10 * Abs(diff) > (IF r.alarm = "roc" THEN 9 ELSE 10) * r.limits["roc"] * time

Evaluate(r, diff, time) ==
  LET level == Level(r)
  IN  IF level # "ok" THEN IF setting.deviation THEN "deviation" ELSE level
      ELSE IF TooFast(r, diff, time) THEN "roc" ELSE "ok"

-----------------------------------------------------------------------------
(* settle: a row with the alarm it deserves, once the delay has passed.     *)

Cleared(r) == [r EXCEPT !.pending = "none", !.waited = 0]

(* Definitions named Mutant... are plausible bugs in the definition that    *)
(* follows them; no specification uses them.                                *)

MutantSettled(r, target) ==
  LET delay == IF target = "ok" THEN setting.offDelay ELSE setting.onDelay
  IN  IF target = r.alarm THEN Cleared(r)
      ELSE IF r.waited < delay THEN [r EXCEPT !.pending = target, !.waited = 0]
      ELSE [Cleared(r) EXCEPT !.alarm = target]

Settled(r, target) ==
  LET delay == IF target = "ok" THEN setting.offDelay ELSE setting.onDelay
  IN  IF target = r.alarm THEN Cleared(r)
      ELSE IF delay > 0 /\ r.pending # target THEN [r EXCEPT !.pending = target, !.waited = 0]
      ELSE IF r.waited < delay THEN r
      ELSE [Cleared(r) EXCEPT !.alarm = target]

EffectiveMode(r) ==
  IF r.mode # "normal" THEN r.mode ELSE IF r.suppressed THEN "suppressed_by_design" ELSE "none"

-----------------------------------------------------------------------------
(* The commit of an operation that read view and made r of its row: it      *)
(* writes the columns it changed, ends the events in ended, relabels those  *)
(* in the domain of label, opens an event for each state in opened and      *)
(* announces the numbers in told and what it opened, unless hidden.         *)

NextId(view) == CHOOSE i \in Ids \ (DOMAIN events \cup DOMAIN view.events) :
                  \A j \in Ids \ (DOMAIN events \cup DOMAIN view.events) : i <= j

Commit(view, r, ended, label, told, opened) ==
  /\ opened # {} => Ids \ (DOMAIN events \cup DOMAIN view.events) # {}
  /\ row' = [c \in DOMAIN row |-> IF r[c] # view.row[c] THEN r[c] ELSE row[c]]
  /\ LET new == IF opened = {} THEN {} ELSE {NextId(view)}
     IN  events' = [i \in (DOMAIN events \ ended) \cup new |->
           IF i \in new
           THEN [state |-> CHOOSE s \in opened : TRUE, hidden |-> EffectiveMode(r), told |-> EffectiveMode(r) = "none"]
           ELSE [events[i] EXCEPT !.hidden = IF i \in DOMAIN label THEN label[i] ELSE @, !.told = @ \/ i \in told]]
  /\ late' = late \ {view}
  /\ UNCHANGED setting

(* transition: what a change of alarm does to the journal.                  *)
MutantEnded(view, r) ==
  IF r.alarm # view.row.alarm /\ r.alarm = "ok" THEN DOMAIN view.events ELSE {}

Ended(view, r) ==
  IF r.alarm # view.row.alarm /\ view.row.alarm # "ok" THEN DOMAIN view.events ELSE {}

MutantOpened(view, r) == {r.alarm} \ {view.row.alarm}

Opened(view, r) == {r.alarm} \ {view.row.alarm, "ok"}

(* An operation begins long before it commits.                              *)
Begin ==
  /\ setting.overlap /\ late = {}
  /\ late' = {View(TRUE)}
  /\ UNCHANGED <<setting, row, events, requests>>

Rollback == late # {} /\ late' = {} /\ UNCHANGED <<setting, row, events, requests>>

-----------------------------------------------------------------------------
(* ingest, for a reading that is at least as new as the last one.           *)
Ingest ==
  \E view \in Views, v \in setting.values, lag \in 0..MaxLag, s \in (IF setting.condition THEN BOOLEAN ELSE {FALSE}) :
    LET old == view.row
        new == [old EXCEPT !.value = v, !.age = lag, !.stale = FALSE, !.suppressed = s]
        r   == Settled(new, IF old.value = None THEN Evaluate(new, 0, 0)
                            ELSE Evaluate(new, v - old.value, old.age - lag))
    IN  /\ lag <= old.age
        /\ Commit(view, r,
                  Ended(view, r) \cup {i \in DOMAIN view.events : old.stale /\ view.events[i].state = "stale"},
                  <<>>, {}, Opened(view, r))
        /\ UNCHANGED requests

(* The three parts of tick_stale.                                           *)
Marked(r) == [Cleared(r) EXCEPT !.stale = TRUE]

MarkStale ==
  \E view \in Views :
    /\ ~view.row.stale /\ view.row.age > StaleAfter
    /\ Commit(view, Marked(view.row), {}, <<>>, {}, {"stale"})
    /\ UNCHANGED requests

SettlePending ==
  \E view \in Views :
    LET r == Settled(view.row, view.row.pending)
    IN  /\ view.row.pending # "none"
        /\ r # view.row
        /\ Commit(view, r, Ended(view, r), <<>>, {}, Opened(view, r))
        /\ UNCHANGED requests

(* set_alarm_mode; of the events that come back it returns the last one it  *)
(* met, in no particular order, and only that one is announced.             *)
Labels(view, want) ==
  [i \in {j \in DOMAIN view.events : (view.events[j].hidden = "none") # (want = "none")} |-> want]

SetAlarmMode(view, mode, left) ==
  LET r     == [view.row EXCEPT !.mode = mode, !.left = left]
      label == Labels(view, EffectiveMode(r))
      back  == {i \in DOMAIN label : label[i] = "none"}
  IN  \E told \in (IF back = {} THEN {{}} ELSE {{i} : i \in back}) : Commit(view, r, {}, label, told, {})

Expired(r) == r.mode = "shelved" /\ r.left = 0

UnshelveExpired ==
  \E view \in Views :
    /\ Expired(view.row)
    /\ SetAlarmMode(view, "normal", 0)
    /\ UNCHANGED requests

-----------------------------------------------------------------------------
(* Requests.                                                                *)

Request == requests < setting.requests /\ requests' = requests + 1

Shelve == \E view \in Views :
  Request /\ view.row.mode # "out_of_service" /\ SetAlarmMode(view, "shelved", ShelfLife)

Unshelve == \E view \in Views : Request /\ view.row.mode = "shelved" /\ SetAlarmMode(view, "normal", 0)

OutOfService == \E view \in Views : Request /\ SetAlarmMode(view, "out_of_service", 0)

InService == \E view \in Views : Request /\ view.row.mode = "out_of_service" /\ SetAlarmMode(view, "normal", 0)

(* update_sensor sets the alarm without settle or transition; an edit of    *)
(* the condition evaluates the condition anew, and relabels no event.       *)
UpdateSensor ==
  /\ setting.engineer /\ Request
  /\ \E view \in Views, l \in setting.limits, s \in (IF setting.condition THEN BOOLEAN ELSE {FALSE}) :
       LET new == [view.row EXCEPT !.limits = l, !.suppressed = s]
           r   == IF new.value = None \/ new.stale THEN new
                  ELSE [Cleared(new) EXCEPT !.alarm = Evaluate(new, 0, 0)]
       IN  Commit(view, r, {}, <<>>, {}, {})

-----------------------------------------------------------------------------
Least(m, n) == IF m < n THEN m ELSE n

(* No operation takes as long as a tick.                                    *)
Tick ==
  /\ late = {}
  /\ row' = [row EXCEPT
       !.age    = Least(@ + 1, MaxAge),
       !.waited = IF row.pending = "none" THEN 0 ELSE Least(@ + 1, setting.onDelay + setting.offDelay),
       !.left   = IF @ = 0 THEN 0 ELSE @ - 1]
  /\ UNCHANGED <<setting, events, late, requests>>

Next ==
  \/ Ingest \/ MarkStale \/ SettlePending \/ UnshelveExpired
  \/ Shelve \/ Unshelve \/ OutOfService \/ InService \/ UpdateSensor
  \/ Begin \/ Rollback \/ Tick

Spec == Init /\ [][Next]_vars

(* Time passes, a late operation ends somehow, and the background loop goes *)
(* on: it catches what its ticks raise.                                     *)
Fairness ==
  /\ SF_vars(Tick) /\ WF_vars(Rollback)
  /\ WF_vars(MarkStale) /\ WF_vars(SettlePending)

FairSpec == Spec /\ Fairness

-----------------------------------------------------------------------------
(* Properties.                                                              *)

(* Types; and at most one operation is late.                                *)
TypeOK ==
  /\ setting \in Settings
  /\ row \in Row
  /\ DOMAIN events \subseteq Ids /\ \A i \in DOMAIN events : events[i] \in Event
  /\ Cardinality(late) <= 1
  /\ requests \in 0..MaxRequests

OpenFor(state) == {i \in DOMAIN events : events[i].state = state}

(* orm.py of AlarmEvent: the journal has an open event from the moment the  *)
(* sensor leaves ok until it is back, and no other; a loss of contact has   *)
(* one of its own beside it.                                                *)
Journalled ==
  /\ Cardinality(OpenFor("stale")) = (IF row.stale /\ row.value # None THEN 1 ELSE 0)
  /\ \A state \in Levels : Cardinality(OpenFor(state)) = (IF row.alarm = state THEN 1 ELSE 0)

JournalHolds == ~setting.overlap => Journalled

(* The journal and the sensor agree, through delays, dead bands, losses of  *)
(* contact and late readings, and as long as nothing suppresses by          *)
(* condition an open event is hidden exactly while the sensor is shelved or *)
(* out of service.  While the sensor is stale nothing waits for a delay: no *)
(* alarm is raised or dropped on values nobody sent any more.  Provided     *)
(* operations do not overlap and no engineer edits the sensor.              *)
JournalMatches ==
  ~setting.overlap /\ ~setting.engineer =>
    /\ Journalled
    /\ row.stale => row.pending = "none"
    /\ ~setting.condition =>
         \A i \in DOMAIN events : (events[i].hidden = "none") = (row.mode = "normal")

(* set_alarm_mode: what comes back is announced.  It fails: of an alarm and *)
(* a loss of contact that come back together one stays silent.              *)
AllTold ==
  ~setting.overlap /\ ~setting.condition => \A i \in DOMAIN events : events[i].hidden = "none" => events[i].told

(* settle: a value that stays gets its alarm, or loses it, whatever         *)
(* overlapped before, is shelved or edited, if its readings keep coming.    *)
HeldIsRaised ==
  \A v \in Values :
    <>[](row.value = v /\ row.age <= StaleAfter) => <>[](row.value = v => row.alarm = Evaluate(row, 0, 0))
=============================================================================
