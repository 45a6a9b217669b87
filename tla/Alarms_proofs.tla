---------------------------- MODULE Alarms_proofs ----------------------------
(***************************************************************************)
(* Theorems about Alarms, for any sensors, circumstances, values and       *)
(* delays.                                                                 *)
(***************************************************************************)
EXTENDS Alarms, TLAPS, FiniteSetTheorems, WellFoundedInduction

-----------------------------------------------------------------------------
(* Type correctness.                                                        *)

(* Every nonempty set of naturals has a least member.                       *)
LEMMA LeastNatural ==
  ASSUME NEW T \in SUBSET Nat, T # {}
  PROVE  \E m \in T : \A n \in T : m <= n
<1> DEFINE R == OpToRel(<, Nat)
<1>1. \A m, n \in Nat : <<m, n>> \in R <=> m < n
  BY DEF OpToRel
<1> HIDE DEF R
<1>2. IsWellFoundedOn(R, Nat)
  BY NatLessThanWellFounded DEF R
<1>3. PICK m \in T : \A n \in T : ~ (<<n, m>> \in R)
  BY <1>2, WFMin
<1>4. \A n \in T : ~ (n < m)
  BY <1>1, <1>3
<1> QED
  BY <1>3, <1>4

(* The number of a new event is a free one.                                 *)
LEMMA NextIdFree ==
  ASSUME NEW view, Ids \ (DOMAIN events \cup DOMAIN view.events) # {}
  PROVE  NextId(view) \in Ids \ (DOMAIN events \cup DOMAIN view.events)
<1> DEFINE Free == Ids \ (DOMAIN events \cup DOMAIN view.events)
<1>1. Free \in SUBSET Nat /\ Free # {}
  BY AlarmsAssumption
<1>2. NextId(view) = CHOOSE i \in Free : \A j \in Free : i <= j
  BY DEF NextId
<1> HIDE DEF Free
<1>3. \E i \in Free : \A j \in Free : i <= j
  BY <1>1, LeastNatural
<1>4. NextId(view) \in Free
  BY <1>2, <1>3
<1> QED
  BY <1>4 DEF Free

Fields == {"value", "age", "alarm", "pending", "waited", "stale", "mode", "left", "suppressed", "limits"}

(* A commit writes the columns that changed.                                *)
Merged(now, new, old) == [c \in DOMAIN now |-> IF new[c] # old[c] THEN new[c] ELSE now[c]]

LEMMA MergedType ==
  ASSUME NEW now \in Row, NEW new \in Row, NEW old \in Row
  PROVE  Merged(now, new, old) \in Row
<1> DEFINE m == Merged(now, new, old)
<1>1. DOMAIN now = Fields
  BY DEF Row, Fields
<1>2. m = [c \in Fields |-> IF new[c] # old[c] THEN new[c] ELSE now[c]]
  BY <1>1 DEF Merged
<1>3. /\ m.value \in {new.value, now.value} /\ m.age \in {new.age, now.age}
      /\ m.alarm \in {new.alarm, now.alarm} /\ m.pending \in {new.pending, now.pending}
      /\ m.waited \in {new.waited, now.waited} /\ m.stale \in {new.stale, now.stale}
      /\ m.mode \in {new.mode, now.mode} /\ m.left \in {new.left, now.left}
      /\ m.suppressed \in {new.suppressed, now.suppressed} /\ m.limits \in {new.limits, now.limits}
  BY <1>2 DEF Fields
<1>4. m = [value |-> m.value, age |-> m.age, alarm |-> m.alarm, pending |-> m.pending, waited |-> m.waited,
           stale |-> m.stale, mode |-> m.mode, left |-> m.left, suppressed |-> m.suppressed, limits |-> m.limits]
  BY <1>2 DEF Fields
<1> HIDE DEF m
<1>5. m \in Row
  BY <1>3, <1>4 DEF Row
<1> QED
  BY <1>5 DEF m

(* Where what was read is what is there, the row becomes the one decided on.*)
LEMMA MergedSame ==
  ASSUME NEW now \in Row, NEW new \in Row
  PROVE  Merged(now, new, now) = new
<1>1. DOMAIN now = DOMAIN new
  BY DEF Row
<1>2. \A c \in DOMAIN now : Merged(now, new, now)[c] = new[c]
  BY DEF Merged
<1>3. new = [c \in DOMAIN new |-> new[c]]
  BY DEF Row
<1> QED
  BY <1>1, <1>2, <1>3 DEF Merged

(* What the alarm of a row can be found to be.                              *)
LEMMA EvaluateType ==
  ASSUME NEW r, NEW diff, NEW time
  PROVE  Evaluate(r, diff, time) \in Levels \cup {"ok"}
BY DEF Evaluate, Level, Levels

LEMMA SettingType ==
  ASSUME setting \in Settings
  PROVE  /\ setting.values \subseteq Values /\ setting.limits \subseteq Limits
         /\ setting.onDelay \in Nat /\ setting.offDelay \in Nat
         /\ setting.requests \in 0..MaxRequests
         /\ {setting.overlap, setting.engineer, setting.condition} \subseteq BOOLEAN
BY AlarmsAssumption DEF Setting

LEMMA ClearedType ==
  ASSUME NEW r \in Row
  PROVE  /\ Cleared(r) \in Row /\ Cleared(r).pending = "none"
         /\ \A c \in Fields \ {"pending", "waited"} : Cleared(r)[c] = r[c]
BY DEF Cleared, Row, Fields

LEMMA SettledType ==
  ASSUME NEW r \in Row, NEW target \in Levels \cup {"ok"}
  PROVE  /\ Settled(r, target) \in Row
         /\ \A c \in Fields \ {"pending", "waited", "alarm"} : Settled(r, target)[c] = r[c]
<1>1. Cleared(r) \in Row /\ \A c \in Fields \ {"pending", "waited"} : Cleared(r)[c] = r[c]
  BY ClearedType
<1>2. /\ [r EXCEPT !.pending = target, !.waited = 0] \in Row
      /\ \A c \in Fields \ {"pending", "waited", "alarm"} : [r EXCEPT !.pending = target, !.waited = 0][c] = r[c]
  BY DEF Row, Fields
<1>3. /\ [Cleared(r) EXCEPT !.alarm = target] \in Row
      /\ \A c \in Fields \ {"pending", "waited", "alarm"} : [Cleared(r) EXCEPT !.alarm = target][c] = r[c]
  BY <1>1 DEF Row, Fields
<1> QED
  BY <1>1, <1>2, <1>3 DEF Settled

LEMMA ModeType ==
  ASSUME NEW r \in Row
  PROVE  EffectiveMode(r) \in Modes \cup {"none"}
BY DEF EffectiveMode, Row, Modes

(* What a late operation has read was a row; and there is one such.         *)
LateTyped ==
  /\ \A view \in late : view.row \in Row
  /\ \A v, w \in late : v = w

EventsTyped == DOMAIN events \subseteq Ids /\ \A i \in DOMAIN events : events[i] \in Event

TypedInv == TypeOK /\ LateTyped

LEMMA ViewType ==
  ASSUME TypedInv, NEW view \in Views
  PROVE  view.row \in Row
BY DEF TypedInv, TypeOK, LateTyped, Views, View

LEMMA AtMostOne ==
  ASSUME NEW S, \A v, w \in S : v = w
  PROVE  Cardinality(S) <= 1
<1>1. CASE S = {}
  BY <1>1, FS_EmptySet
<1>2. CASE S # {}
  <2>1. PICK v \in S : TRUE
    BY <1>2
  <2>2. S = {v}
    BY <2>1
  <2>3. Cardinality({v}) = 1
    BY FS_Singleton
  <2> QED
    BY <2>2, <2>3
<1> QED
  BY <1>1, <1>2

(* What Commit writes to the journal.                                       *)
Born(view, opened) == IF opened = {} THEN {} ELSE {NextId(view)}

Opening(r, opened) ==
  [state |-> CHOOSE s \in opened : TRUE, hidden |-> EffectiveMode(r), told |-> EffectiveMode(r) = "none"]

Touched(event, i, label, told) ==
  [event EXCEPT !.hidden = IF i \in DOMAIN label THEN label[i] ELSE @, !.told = @ \/ i \in told]

Writes(view, r, ended, label, told, opened) ==
  /\ row' = Merged(row, r, view.row)
  /\ DOMAIN events' = (DOMAIN events \ ended) \cup Born(view, opened)
  /\ \A i \in Born(view, opened) : events'[i] = Opening(r, opened)
  /\ \A i \in DOMAIN events \ ended :
       i \notin Born(view, opened) => events'[i] = Touched(events[i], i, label, told)
  /\ Born(view, opened) \subseteq Ids \ (DOMAIN events \cup DOMAIN view.events)
  /\ late' = late \ {view} /\ setting' = setting

LEMMA CommitWrites ==
  ASSUME NEW view, NEW r, NEW ended, NEW label, NEW told, NEW opened,
         Commit(view, r, ended, label, told, opened)
  PROVE  Writes(view, r, ended, label, told, opened)
<1>1. events' = [i \in (DOMAIN events \ ended) \cup Born(view, opened) |->
                   IF i \in Born(view, opened) THEN Opening(r, opened) ELSE Touched(events[i], i, label, told)]
  BY DEF Commit, Born, Opening, Touched
<1>2. row' = Merged(row, r, view.row) /\ late' = late \ {view} /\ setting' = setting
  BY DEF Commit, Merged
<1>3. Born(view, opened) \subseteq Ids \ (DOMAIN events \cup DOMAIN view.events)
  <2>1. opened # {} => Ids \ (DOMAIN events \cup DOMAIN view.events) # {}
    BY DEF Commit
  <2> QED
    BY <2>1, NextIdFree DEF Born
<1> QED
  BY <1>1, <1>2, <1>3 DEF Writes

LEMMA TouchedType ==
  ASSUME NEW event \in Event, NEW i, NEW label, NEW told,
         i \in DOMAIN label => label[i] \in Modes \cup {"none"}
  PROVE  /\ Touched(event, i, label, told) \in Event
         /\ Touched(event, i, label, told).state = event.state
         /\ Touched(event, i, label, told).hidden = IF i \in DOMAIN label THEN label[i] ELSE event.hidden
<1> DEFINE hidden == IF i \in DOMAIN label THEN label[i] ELSE event.hidden
           known == event.told \/ i \in told
<1>1. hidden \in Modes \cup {"none"} /\ known \in BOOLEAN
  BY DEF Event
<1>2. Touched(event, i, label, told) = [event EXCEPT !.hidden = hidden, !.told = known]
  BY DEF Touched, Event
<1> HIDE DEF hidden, known
<1>3. /\ [event EXCEPT !.hidden = hidden, !.told = known] \in Event
      /\ [event EXCEPT !.hidden = hidden, !.told = known].state = event.state
      /\ [event EXCEPT !.hidden = hidden, !.told = known].hidden = hidden
  BY <1>1 DEF Event
<1> QED
  BY <1>2, <1>3 DEF hidden

LEMMA OpeningType ==
  ASSUME NEW r \in Row, NEW opened \in SUBSET (Levels \cup {"stale"}), opened # {}
  PROVE  /\ Opening(r, opened) \in Event
         /\ Opening(r, opened).state \in opened
         /\ Opening(r, opened).hidden = EffectiveMode(r)
<1> DEFINE s == CHOOSE x \in opened : TRUE
           known == EffectiveMode(r) = "none"
<1>1. s \in opened /\ s \in Levels \cup {"stale"} /\ known \in BOOLEAN
  OBVIOUS
<1>2. Opening(r, opened) = [state |-> s, hidden |-> EffectiveMode(r), told |-> known]
  BY DEF Opening
<1> HIDE DEF s, known
<1>3. EffectiveMode(r) \in Modes \cup {"none"}
  BY ModeType
<1> QED
  BY <1>1, <1>2, <1>3 DEF Event

LEMMA CommitType ==
  ASSUME TypedInv, NEW view \in Views, NEW r \in Row, NEW ended, NEW label, NEW told,
         NEW opened \in SUBSET (Levels \cup {"stale"}),
         \A i \in DOMAIN label : label[i] \in Modes \cup {"none"},
         Commit(view, r, ended, label, told, opened),
         requests' \in 0..MaxRequests
  PROVE  TypedInv'
<1> DEFINE born == Born(view, opened)
<1>0. /\ row' = Merged(row, r, view.row)
      /\ DOMAIN events' = (DOMAIN events \ ended) \cup born
      /\ \A i \in born : events'[i] = Opening(r, opened)
      /\ \A i \in DOMAIN events \ ended : i \notin born => events'[i] = Touched(events[i], i, label, told)
      /\ born \subseteq Ids
      /\ late' = late \ {view} /\ setting' = setting
  <2>1. Writes(view, r, ended, label, told, opened)
    BY CommitWrites
  <2> QED
    BY <2>1 DEF Writes
<1>1. row' \in Row
  BY <1>0, MergedType, ViewType DEF TypedInv, TypeOK
<1>2. EventsTyped'
  <2>1. \A i \in born : opened # {}
    BY DEF Born
  <2> HIDE DEF born
  <2>2. ASSUME NEW i \in DOMAIN events' PROVE events'[i] \in Event
    <3>1. CASE i \in born
      BY <1>0, <2>1, <3>1, OpeningType
    <3>2. CASE i \notin born
      <4>1. i \in DOMAIN events \ ended /\ events[i] \in Event
        BY <1>0, <3>2 DEF TypedInv, TypeOK
      <4>2. Touched(events[i], i, label, told) \in Event
        BY <4>1, TouchedType
      <4> QED
        BY <1>0, <3>2, <4>1, <4>2
    <3> QED
      BY <3>1, <3>2
  <2>3. DOMAIN events' \subseteq Ids
    BY <1>0 DEF TypedInv, TypeOK
  <2> QED
    BY <2>2, <2>3 DEF EventsTyped
<1>3. late' = late \ {view} /\ setting' = setting
  BY <1>0
<1>4. LateTyped'
  BY <1>3 DEF TypedInv, LateTyped
<1>5. Cardinality(late)' <= 1
  BY <1>4, AtMostOne DEF LateTyped
<1> QED
  BY <1>1, <1>2, <1>3, <1>4, <1>5 DEF TypedInv, TypeOK, EventsTyped

-----------------------------------------------------------------------------
(* The rows that the operations make.                                       *)

Received(old, v, lag, s) == [old EXCEPT !.value = v, !.age = lag, !.stale = FALSE, !.suppressed = s]

Decided(old, v, lag, s) ==
  Settled(Received(old, v, lag, s),
          IF old.value = None THEN Evaluate(Received(old, v, lag, s), 0, 0)
          ELSE Evaluate(Received(old, v, lag, s), v - old.value, old.age - lag))

LEMMA DecidedType ==
  ASSUME NEW old \in Row, NEW v \in Values, NEW lag \in 0..MaxLag, NEW s \in BOOLEAN
  PROVE  /\ Decided(old, v, lag, s) \in Row
         /\ Decided(old, v, lag, s).value = v /\ ~Decided(old, v, lag, s).stale
         /\ Decided(old, v, lag, s).suppressed = s
         /\ Decided(old, v, lag, s).mode = old.mode
<1> DEFINE new == Received(old, v, lag, s)
           target == IF old.value = None THEN Evaluate(new, 0, 0)
                     ELSE Evaluate(new, v - old.value, old.age - lag)
<1>1. lag \in 0..MaxAge
  BY AlarmsAssumption DEF MaxAge
<1>2. /\ new \in Row /\ new.value = v /\ new.stale = FALSE /\ new.suppressed = s /\ new.mode = old.mode
  BY <1>1 DEF Received, Row
<1>3. target \in Levels \cup {"ok"}
  BY EvaluateType
<1>4. Decided(old, v, lag, s) = Settled(new, target)
  BY DEF Decided
<1> HIDE DEF new, target
<1>5. /\ Settled(new, target) \in Row
      /\ \A c \in Fields \ {"pending", "waited", "alarm"} : Settled(new, target)[c] = new[c]
  BY <1>2, <1>3, SettledType
<1>6. {"value", "stale", "suppressed", "mode"} \subseteq Fields \ {"pending", "waited", "alarm"}
  BY DEF Fields
<1> QED
  BY <1>2, <1>4, <1>5, <1>6

Ingested(view, v, lag, s) ==
  LET r == Decided(view.row, v, lag, s)
  IN  Commit(view, r,
             Ended(view, r) \cup {i \in DOMAIN view.events : view.row.stale /\ view.events[i].state = "stale"},
             <<>>, {}, Opened(view, r))

LEMMA IngestDecides ==
  ASSUME Ingest
  PROVE  \E view \in Views, v \in setting.values, lag \in 0..MaxLag, s \in (IF setting.condition THEN BOOLEAN ELSE {FALSE}) :
           Ingested(view, v, lag, s) /\ UNCHANGED requests
<1>1. PICK view \in Views, v \in setting.values, lag \in 0..MaxLag, s \in (IF setting.condition THEN BOOLEAN ELSE {FALSE}) :
        LET old == view.row
            new == [old EXCEPT !.value = v, !.age = lag, !.stale = FALSE, !.suppressed = s]
            r   == Settled(new, IF old.value = None THEN Evaluate(new, 0, 0)
                                ELSE Evaluate(new, v - old.value, old.age - lag))
        IN  /\ lag <= old.age
            /\ Commit(view, r,
                      Ended(view, r) \cup {i \in DOMAIN view.events : old.stale /\ view.events[i].state = "stale"},
                      <<>>, {}, Opened(view, r))
            /\ UNCHANGED requests
  BY DEF Ingest
<1>2. Ingested(view, v, lag, s) /\ UNCHANGED requests
  BY <1>1 DEF Ingested, Decided, Received
<1> QED
  BY <1>2

LEMMA MarkedType ==
  ASSUME NEW r \in Row
  PROVE  /\ Marked(r) \in Row /\ Marked(r).stale = TRUE /\ Marked(r).pending = "none"
         /\ \A c \in Fields \ {"pending", "waited", "stale"} : Marked(r)[c] = r[c]
<1>1. Cleared(r) \in Row /\ Cleared(r).pending = "none" /\ \A c \in Fields \ {"pending", "waited"} : Cleared(r)[c] = r[c]
  BY ClearedType
<1> QED
  BY <1>1 DEF Marked, Row, Fields

LEMMA PendingType ==
  ASSUME NEW r \in Row, r.pending # "none"
  PROVE  /\ Settled(r, r.pending) \in Row
         /\ \A c \in Fields \ {"pending", "waited", "alarm"} : Settled(r, r.pending)[c] = r[c]
<1>1. r.pending \in Levels \cup {"ok"}
  BY DEF Row
<1> QED
  BY <1>1, SettledType

InMode(r, mode, left) == [r EXCEPT !.mode = mode, !.left = left]

LEMMA InModeType ==
  ASSUME NEW r \in Row, NEW mode \in Modes \cup {"normal"}, NEW left \in 0..ShelfLife
  PROVE  /\ InMode(r, mode, left) \in Row
         /\ InMode(r, mode, left).mode = mode
         /\ \A c \in Fields \ {"mode", "left"} : InMode(r, mode, left)[c] = r[c]
BY DEF InMode, Row, Fields

Bounded(r, l, s) ==
  LET new == [r EXCEPT !.limits = l, !.suppressed = s]
  IN  IF new.value = None \/ new.stale THEN new ELSE [Cleared(new) EXCEPT !.alarm = Evaluate(new, 0, 0)]

LEMMA BoundedType ==
  ASSUME NEW r \in Row, NEW l \in Limits, NEW s \in BOOLEAN
  PROVE  Bounded(r, l, s) \in Row
<1> DEFINE new == [r EXCEPT !.limits = l, !.suppressed = s]
           level == Evaluate(new, 0, 0)
<1>1. new \in Row
  BY DEF Row
<1>2. level \in Levels \cup {"ok"}
  BY EvaluateType
<1>3. Bounded(r, l, s) = IF new.value = None \/ new.stale THEN new ELSE [Cleared(new) EXCEPT !.alarm = level]
  BY DEF Bounded
<1> HIDE DEF new, level
<1>4. Cleared(new) \in Row
  BY <1>1, ClearedType
<1>5. [Cleared(new) EXCEPT !.alarm = level] \in Row
  BY <1>2, <1>4 DEF Row
<1> QED
  BY <1>1, <1>3, <1>5

(* No operation raises anything but an alarm, and no label is anything but  *)
(* a mode.                                                                  *)
LEMMA OpenedType ==
  ASSUME NEW view, NEW r \in Row
  PROVE  Opened(view, r) \in SUBSET (Levels \cup {"stale"})
BY DEF Opened, Row

LEMMA SetAlarmModeType ==
  ASSUME TypedInv, NEW view \in Views, NEW mode \in Modes \cup {"normal"}, NEW left \in 0..ShelfLife,
         SetAlarmMode(view, mode, left), requests' \in 0..MaxRequests
  PROVE  TypedInv'
<1> DEFINE r == InMode(view.row, mode, left)
           label == Labels(view, EffectiveMode(r))
<1>1. r \in Row
  BY ViewType, InModeType
<1>2. EffectiveMode(r) \in Modes \cup {"none"}
  BY <1>1, ModeType
<1>3. \A i \in DOMAIN label : label[i] \in Modes \cup {"none"}
  BY <1>2 DEF Labels
<1>4. PICK told : Commit(view, r, {}, label, told, {})
  BY DEF SetAlarmMode, InMode
<1>5. {} \in SUBSET (Levels \cup {"stale"})
  OBVIOUS
<1> HIDE DEF r, label
<1> QED
  BY <1>1, <1>3, <1>4, <1>5, CommitType

LEMMA TypedStep == TypedInv /\ [Next]_vars => TypedInv'
<1> SUFFICES ASSUME TypedInv, [Next]_vars PROVE TypedInv'
  OBVIOUS
<1>1. setting \in Settings /\ requests \in 0..MaxRequests /\ row \in Row
  BY DEF TypedInv, TypeOK
<1>2. Request => requests' \in 0..MaxRequests
  BY <1>1, SettingType, AlarmsAssumption DEF Request
<1>3. ShelfLife \in 0..ShelfLife /\ 0 \in 0..ShelfLife
  BY AlarmsAssumption
<1>4. \A i \in DOMAIN <<>> : <<>>[i] \in Modes \cup {"none"}
  OBVIOUS
<1>5. CASE Ingest
  <2>1. PICK view \in Views, v \in setting.values, lag \in 0..MaxLag, s \in (IF setting.condition THEN BOOLEAN ELSE {FALSE}) :
          Ingested(view, v, lag, s) /\ UNCHANGED requests
    BY <1>5, IngestDecides
  <2> DEFINE r == Decided(view.row, v, lag, s)
  <2>2. s \in BOOLEAN /\ v \in Values
    BY <1>1, SettingType
  <2>3. r \in Row
    BY <2>2, ViewType, DecidedType
  <2>4. Commit(view, r,
               Ended(view, r) \cup {i \in DOMAIN view.events : view.row.stale /\ view.events[i].state = "stale"},
               <<>>, {}, Opened(view, r))
    BY <2>1 DEF Ingested
  <2> HIDE DEF r
  <2>5. requests' \in 0..MaxRequests /\ Opened(view, r) \in SUBSET (Levels \cup {"stale"})
    BY <1>1, <2>1, <2>3, OpenedType
  <2> QED
    BY <1>4, <2>3, <2>4, <2>5, CommitType
<1>6. CASE MarkStale
  <2>1. PICK view \in Views : Commit(view, Marked(view.row), {}, <<>>, {}, {"stale"}) /\ UNCHANGED requests
    BY <1>6 DEF MarkStale
  <2>2. Marked(view.row) \in Row
    BY ViewType, MarkedType
  <2>3. requests' \in 0..MaxRequests /\ {"stale"} \in SUBSET (Levels \cup {"stale"})
    BY <1>1, <2>1
  <2> QED
    BY <1>4, <2>1, <2>2, <2>3, CommitType
<1>7. CASE SettlePending
  <2>1. PICK view \in Views :
          LET r == Settled(view.row, view.row.pending)
          IN  /\ view.row.pending # "none"
              /\ Commit(view, r, Ended(view, r), <<>>, {}, Opened(view, r))
              /\ UNCHANGED requests
    BY <1>7 DEF SettlePending
  <2> DEFINE r == Settled(view.row, view.row.pending)
  <2>2. r \in Row
    BY <2>1, ViewType, PendingType
  <2>3. Commit(view, r, Ended(view, r), <<>>, {}, Opened(view, r))
    BY <2>1
  <2> HIDE DEF r
  <2>4. requests' \in 0..MaxRequests /\ Opened(view, r) \in SUBSET (Levels \cup {"stale"})
    BY <1>1, <2>1, <2>2, OpenedType
  <2> QED
    BY <1>4, <2>2, <2>3, <2>4, CommitType
<1>8. ASSUME NEW view \in Views, NEW mode \in Modes \cup {"normal"}, NEW left \in {0, ShelfLife},
             SetAlarmMode(view, mode, left), Request \/ UNCHANGED requests
      PROVE  TypedInv'
  <2>1. requests' \in 0..MaxRequests /\ left \in 0..ShelfLife
    BY <1>1, <1>2, <1>3, <1>8
  <2> QED
    BY <1>8, <2>1, SetAlarmModeType
<1>9. CASE UnshelveExpired \/ Shelve \/ Unshelve \/ OutOfService \/ InService
  <2>1. {"normal", "shelved", "out_of_service"} \subseteq Modes \cup {"normal"}
    BY DEF Modes
  <2> QED
    BY <1>8, <1>9, <2>1 DEF UnshelveExpired, Shelve, Unshelve, OutOfService, InService
<1>10. CASE UpdateSensor
  <2>1. Request /\ \E view \in Views, l \in setting.limits, s \in BOOLEAN :
                      Commit(view, Bounded(view.row, l, s), {}, <<>>, {}, {})
    BY <1>10 DEF UpdateSensor, Bounded
  <2>2. PICK view \in Views, l \in setting.limits, s \in BOOLEAN :
          Commit(view, Bounded(view.row, l, s), {}, <<>>, {}, {})
    BY <2>1
  <2>3. Bounded(view.row, l, s) \in Row
    BY <1>1, SettingType, ViewType, BoundedType
  <2>4. requests' \in 0..MaxRequests /\ {} \in SUBSET (Levels \cup {"stale"})
    BY <1>2, <2>1
  <2> QED
    BY <1>4, <2>2, <2>3, <2>4, CommitType
<1>11. CASE Begin \/ Rollback \/ UNCHANGED vars
  <2>1. UNCHANGED <<setting, row, events, requests>> /\ late' \in {late, {}, {View(TRUE)}}
    BY <1>11 DEF Begin, Rollback, vars
  <2>2. View(TRUE).row = row
    BY DEF View
  <2>3. LateTyped'
    BY <1>1, <2>1, <2>2 DEF TypedInv, LateTyped
  <2>4. Cardinality(late)' <= 1
    BY <2>3, AtMostOne DEF LateTyped
  <2> QED
    BY <2>1, <2>3, <2>4 DEF TypedInv, TypeOK
<1>12. CASE Tick
  <2> DEFINE age == Least(row.age + 1, MaxAge)
             waited == IF row.pending = "none" THEN 0 ELSE Least(row.waited + 1, setting.onDelay + setting.offDelay)
             left == IF row.left = 0 THEN 0 ELSE row.left - 1
  <2>1. row' = [row EXCEPT !.age = age, !.waited = waited, !.left = left] /\ UNCHANGED <<setting, events, late, requests>>
    BY <1>12 DEF Tick
  <2>2. row.age \in 0..MaxAge /\ row.waited \in Nat /\ row.left \in 0..ShelfLife /\ MaxAge \in Nat
    BY <1>1, AlarmsAssumption DEF Row, MaxAge
  <2>3. age \in 0..MaxAge
    BY <2>2 DEF Least
  <2>4. waited \in Nat
    BY <1>1, <2>2, SettingType DEF Least
  <2>5. left \in 0..ShelfLife
    BY <2>2, AlarmsAssumption
  <2> HIDE DEF age, waited, left
  <2>6. row' \in Row
    BY <1>1, <2>1, <2>3, <2>4, <2>5 DEF Row
  <2> QED
    BY <2>1, <2>6 DEF TypedInv, TypeOK, LateTyped
<1> QED
  BY <1>5, <1>6, <1>7, <1>9, <1>10, <1>11, <1>12 DEF Next

LEMMA InitTyped == Init => TypedInv
<1> SUFFICES ASSUME Init PROVE TypedInv
  OBVIOUS
<1>1. setting \in Settings
  BY DEF Init
<1>2. PICK l \in setting.limits :
        row = [value |-> None, age |-> MaxAge, alarm |-> "ok", pending |-> "none", waited |-> 0, stale |-> TRUE,
               mode |-> "normal", left |-> 0, suppressed |-> FALSE, limits |-> l]
  BY DEF Init
<1>3. l \in Limits /\ MaxAge \in 0..MaxAge /\ 0 \in 0..ShelfLife /\ 0 \in 0..MaxRequests
  BY <1>1, SettingType, AlarmsAssumption DEF MaxAge
<1>4. row \in Row
  BY <1>2, <1>3 DEF Row
<1>5. DOMAIN events = {}
  BY DEF Init
<1>6. LateTyped /\ Cardinality(late) <= 1
  BY FS_EmptySet DEF Init, LateTyped
<1> QED
  BY <1>1, <1>3, <1>4, <1>5, <1>6 DEF Init, TypedInv, TypeOK

(* Every variable stays in its type, also where operations overlap: what    *)
(* two of them commit over each other is a row all the same.                *)
THEOREM TypeCorrect == Spec => []TypeOK
<1>1. TypedInv => TypeOK
  BY DEF TypedInv
<1> QED
  BY InitTyped, TypedStep, <1>1, PTL DEF Spec

-----------------------------------------------------------------------------
(* The journal, where operations do not overlap and nobody edits the sensor.*)

OneOpen(state, b) == IF b THEN \E i : OpenFor(state) = {i} ELSE OpenFor(state) = {}

(* The journal has one open event for a loss of contact with a sensor that  *)
(* had a value, and none otherwise.                                         *)
Contact == OneOpen("stale", row.stale /\ row.value # None)

(* It has one for the alarm that is on, and none for any other.             *)
Risen == \A state \in Levels : OneOpen(state, row.alarm = state)

(* A stale sensor waits for nothing; only a sensor that was never heard of  *)
(* has no value, and it is stale.                                           *)
Waits ==
  /\ row.stale => row.pending = "none"
  /\ row.value = None => row.stale
  /\ ~setting.condition => ~row.suppressed

Veiled == ~setting.condition => \A i \in DOMAIN events : (events[i].hidden = "none") = (row.mode = "normal")

JournalInv == late = {} /\ Contact /\ Risen /\ Waits /\ Veiled

Undisturbed == ~setting.overlap /\ ~setting.engineer

(* What a commit does to the journal, when it decided on what is there.     *)
Kept(view, r, ended, label, opened) ==
  /\ row' = r /\ late' = {} /\ setting' = setting
  /\ view.row = row /\ view.events = events
  /\ opened # {} => \E n : Born(view, opened) = {n}
  /\ opened = {} => Born(view, opened) = {}
  /\ \A state \in Levels \cup {"stale"} :
       OpenFor(state)' = (OpenFor(state) \ ended) \cup (IF state \in opened THEN Born(view, opened) ELSE {})
  /\ \A i \in DOMAIN events' :
       events'[i].hidden = IF i \in Born(view, opened) THEN EffectiveMode(r)
                           ELSE IF i \in DOMAIN label THEN label[i] ELSE events[i].hidden
  /\ \A i \in DOMAIN events' : i \in Born(view, opened) \/ i \in DOMAIN events

LEMMA CommitKept ==
  ASSUME TypedInv, late = {}, NEW view \in Views, NEW r \in Row, NEW ended, NEW label, NEW told,
         NEW opened \in SUBSET (Levels \cup {"stale"}), \A a, b \in opened : a = b,
         \A i \in DOMAIN label : label[i] \in Modes \cup {"none"},
         Commit(view, r, ended, label, told, opened)
  PROVE  Kept(view, r, ended, label, opened)
<1> DEFINE born == Born(view, opened)
<1>1. Writes(view, r, ended, label, told, opened)
  BY CommitWrites
<1>2. /\ row' = Merged(row, r, view.row)
      /\ DOMAIN events' = (DOMAIN events \ ended) \cup born
      /\ \A i \in born : events'[i] = Opening(r, opened)
      /\ \A i \in DOMAIN events \ ended : i \notin born => events'[i] = Touched(events[i], i, label, told)
      /\ born \cap DOMAIN events = {}
      /\ late' = late \ {view} /\ setting' = setting
  BY <1>1 DEF Writes
<1>3. view.row = row /\ view.events = events
  BY DEF Views, View
<1>4. row' = r
  BY <1>2, <1>3, MergedSame DEF TypedInv, TypeOK
<1>5. (opened # {} => \E n : born = {n}) /\ (opened = {} => born = {})
  BY DEF Born
<1> HIDE DEF born
<1>6. ASSUME NEW i \in born
      PROVE  /\ events'[i].state \in opened /\ events'[i].hidden = EffectiveMode(r)
             /\ i \in DOMAIN events' /\ i \notin DOMAIN events
  <2>1. opened # {}
    BY <1>5
  <2> QED
    BY <1>2, <2>1, OpeningType
<1>7. ASSUME NEW i \in DOMAIN events \ ended, i \notin born
      PROVE  /\ events'[i].state = events[i].state
             /\ events'[i].hidden = IF i \in DOMAIN label THEN label[i] ELSE events[i].hidden
  <2>1. events[i] \in Event
    BY DEF TypedInv, TypeOK
  <2> QED
    BY <1>2, <1>7, <2>1, TouchedType
<1>8. ASSUME NEW state \in Levels \cup {"stale"}
      PROVE  OpenFor(state)' = (OpenFor(state) \ ended) \cup (IF state \in opened THEN born ELSE {})
  <2>1. OpenFor(state) = {i \in DOMAIN events : events[i].state = state}
    BY DEF OpenFor
  <2>2. OpenFor(state)' = {i \in DOMAIN events' : events'[i].state = state}
    BY DEF OpenFor
  <2>3. ASSUME NEW i \in DOMAIN events'
        PROVE  events'[i].state = state <=>
                 i \in (OpenFor(state) \ ended) \cup (IF state \in opened THEN born ELSE {})
    <3>1. CASE i \in born
      BY <1>6, <2>1, <3>1
    <3>2. CASE i \notin born
      <4>1. i \in DOMAIN events \ ended
        BY <1>2, <3>2
      <4> QED
        BY <1>7, <2>1, <3>2, <4>1
    <3> QED
      BY <3>1, <3>2
  <2>4. (OpenFor(state) \ ended) \cup (IF state \in opened THEN born ELSE {}) \subseteq DOMAIN events'
    BY <1>2, <2>1
  <2> QED
    BY <2>2, <2>3, <2>4
<1>9. ASSUME NEW i \in DOMAIN events'
      PROVE  /\ events'[i].hidden = IF i \in born THEN EffectiveMode(r)
                                    ELSE IF i \in DOMAIN label THEN label[i] ELSE events[i].hidden
             /\ i \in born \/ i \in DOMAIN events
  BY <1>2, <1>6, <1>7
<1>10. late' = {}
  BY <1>2
<1> QED
  BY <1>2, <1>3, <1>4, <1>5, <1>8, <1>9, <1>10 DEF Kept, born

(* A change of alarm ends the event of the old one and opens one for the    *)
(* new.                                                                     *)
LEMMA SettledRisen ==
  ASSUME TypedInv, JournalInv, NEW view, NEW r \in Row, NEW ended, NEW label,
         Kept(view, r, Ended(view, r) \cup ended, label, Opened(view, r)),
         ended \subseteq OpenFor("stale")
  PROVE  Risen'
<1> DEFINE opened == Opened(view, r)
<1>1. /\ row' = r /\ view.row = row /\ view.events = events
      /\ opened # {} => \E n : Born(view, opened) = {n}
      /\ \A state \in Levels \cup {"stale"} :
           OpenFor(state)' = (OpenFor(state) \ (Ended(view, r) \cup ended))
                             \cup (IF state \in opened THEN Born(view, opened) ELSE {})
  BY DEF Kept
<1>2. opened = {r.alarm} \ {row.alarm, "ok"}
  BY <1>1 DEF Opened
<1>3. Ended(view, r) = IF r.alarm # row.alarm /\ row.alarm # "ok" THEN DOMAIN events ELSE {}
  BY <1>1 DEF Ended
<1>4. "ok" \notin Levels /\ "stale" \notin Levels
  BY DEF Levels
<1> HIDE DEF opened
<1>5. ASSUME NEW state \in Levels
      PROVE  IF row'.alarm = state THEN \E i : OpenFor(state)' = {i} ELSE OpenFor(state)' = {}
  <2>1. IF row.alarm = state THEN \E i : OpenFor(state) = {i} ELSE OpenFor(state) = {}
    BY DEF JournalInv, Risen, OneOpen
  <2>2. OpenFor(state) \cap ended = {} /\ OpenFor(state) \subseteq DOMAIN events
    BY <1>4 DEF OpenFor
  <2>3. CASE r.alarm = row.alarm
    <3>1. OpenFor(state)' = OpenFor(state)
      BY <1>1, <1>2, <1>3, <2>2, <2>3
    <3> QED
      BY <1>1, <2>1, <2>3, <3>1
  <2>4. CASE r.alarm # row.alarm
    <3>1. OpenFor(state) \ (Ended(view, r) \cup ended) = {}
      BY <1>3, <1>4, <2>1, <2>2, <2>4
    <3>2. state \in opened <=> r.alarm = state
      BY <1>2, <1>4, <2>4
    <3> QED
      BY <1>1, <3>1, <3>2
  <2> QED
    BY <2>3, <2>4
<1> QED
  BY <1>5 DEF Risen, OneOpen

(* An event that an operation opens is hidden like the others.              *)
LEMMA NewsVeiled ==
  ASSUME JournalInv, NEW view, NEW r, NEW ended, NEW opened,
         Kept(view, r, ended, <<>>, opened),
         r.mode = row.mode, ~setting.condition => ~r.suppressed, r \in Row
  PROVE  Veiled'
<1>1. r.mode # "none"
  BY DEF Row, Modes
<1>2. ~setting.condition => (EffectiveMode(r) = "none" <=> r.mode = "normal")
  BY <1>1 DEF EffectiveMode
<1>3. DOMAIN <<>> = {}
  OBVIOUS
<1>4. ASSUME ~setting.condition, NEW i \in DOMAIN events'
      PROVE  (events'[i].hidden = "none") = (row'.mode = "normal")
  <2>1. /\ row' = r /\ (i \in Born(view, opened) \/ i \in DOMAIN events)
        /\ events'[i].hidden = IF i \in Born(view, opened) THEN EffectiveMode(r)
                               ELSE IF i \in DOMAIN <<>> THEN <<>>[i] ELSE events[i].hidden
    BY DEF Kept
  <2>2. i \in DOMAIN events => (events[i].hidden = "none" <=> row.mode = "normal")
    BY <1>4 DEF JournalInv, Veiled
  <2>3. events'[i].hidden = "none" <=> row'.mode = "normal"
    BY <1>2, <1>3, <1>4, <2>1, <2>2
  <2> QED
    BY <2>3
<1>5. setting' = setting
  BY DEF Kept
<1> QED
  BY <1>4, <1>5 DEF Veiled

LEMMA IngestKept ==
  ASSUME TypedInv, JournalInv, Ingest
  PROVE  JournalInv'
<1>1. PICK view \in Views, v \in setting.values, lag \in 0..MaxLag, s \in (IF setting.condition THEN BOOLEAN ELSE {FALSE}) :
        Ingested(view, v, lag, s)
  BY IngestDecides
<1> DEFINE r == Decided(view.row, v, lag, s)
           ended == {i \in DOMAIN view.events : view.row.stale /\ view.events[i].state = "stale"}
<1>2. s \in BOOLEAN /\ v \in Values /\ (~setting.condition => s = FALSE)
  BY SettingType DEF TypedInv, TypeOK
<1>3. view.row = row /\ view.events = events /\ row \in Row
  BY DEF Views, View, JournalInv, TypedInv, TypeOK
<1>4. r \in Row /\ r.value = v /\ ~r.stale /\ r.suppressed = s /\ r.mode = row.mode
  BY <1>2, <1>3, DecidedType
<1>5. Commit(view, r, Ended(view, r) \cup ended, <<>>, {}, Opened(view, r))
  BY <1>1 DEF Ingested
<1>6. ended = IF row.stale THEN OpenFor("stale") ELSE {}
  BY <1>3 DEF OpenFor
<1> HIDE DEF r, ended
<1>7. Kept(view, r, Ended(view, r) \cup ended, <<>>, Opened(view, r))
  <2>1. /\ Opened(view, r) \in SUBSET (Levels \cup {"stale"})
        /\ \A a, b \in Opened(view, r) : a = b
    BY <1>4, OpenedType DEF Opened
  <2>2. \A i \in DOMAIN <<>> : <<>>[i] \in Modes \cup {"none"}
    OBVIOUS
  <2>3. late = {}
    BY DEF JournalInv
  <2> QED
    BY <1>4, <1>5, <2>1, <2>2, <2>3, CommitKept
<1>8. Risen'
  BY <1>4, <1>6, <1>7, SettledRisen
<1>9. row' = r /\ late' = {} /\ setting' = setting
  BY <1>7 DEF Kept
<1>10. Contact'
  <2>1. OpenFor("stale")' = (OpenFor("stale") \ (Ended(view, r) \cup ended))
                            \cup (IF "stale" \in Opened(view, r) THEN Born(view, Opened(view, r)) ELSE {})
    BY <1>7 DEF Kept
  <2>2. "stale" \notin Opened(view, r)
    BY <1>4 DEF Opened, Row, Levels
  <2>3. ~row.stale => OpenFor("stale") = {}
    BY DEF JournalInv, Contact, OneOpen
  <2>4. OpenFor("stale")' = {}
    BY <1>6, <2>1, <2>2, <2>3
  <2> QED
    BY <1>4, <1>9, <2>4 DEF Contact, OneOpen
<1>11. Veiled'
  BY <1>2, <1>4, <1>7, NewsVeiled
<1>12. Waits'
  BY <1>2, <1>4, <1>9, AlarmsAssumption DEF Waits
<1> QED
  BY <1>8, <1>9, <1>10, <1>11, <1>12 DEF JournalInv

LEMMA MarkStaleKept ==
  ASSUME TypedInv, JournalInv, MarkStale
  PROVE  JournalInv'
<1>1. PICK view \in Views : ~view.row.stale /\ Commit(view, Marked(view.row), {}, <<>>, {}, {"stale"})
  BY DEF MarkStale
<1> DEFINE r == Marked(view.row)
<1>2. view.row = row /\ view.events = events /\ row \in Row /\ late = {}
  BY DEF Views, View, JournalInv, TypedInv, TypeOK
<1>3. /\ r \in Row /\ r.stale = TRUE /\ r.pending = "none" /\ r.alarm = row.alarm
      /\ r.value = row.value /\ r.mode = row.mode /\ r.suppressed = row.suppressed
  BY <1>2, MarkedType DEF Fields
<1>4. Commit(view, r, {}, <<>>, {}, {"stale"})
  BY <1>1
<1> HIDE DEF r
<1>5. Kept(view, r, {}, <<>>, {"stale"})
  <2>1. \A i \in DOMAIN <<>> : <<>>[i] \in Modes \cup {"none"}
    OBVIOUS
  <2>2. {"stale"} \in SUBSET (Levels \cup {"stale"}) /\ \A a, b \in {"stale"} : a = b
    OBVIOUS
  <2> QED
    BY <1>2, <1>3, <1>4, <2>1, <2>2, CommitKept
<1>6. /\ row' = r /\ late' = {} /\ setting' = setting
      /\ \E n : Born(view, {"stale"}) = {n}
      /\ \A state \in Levels \cup {"stale"} :
           OpenFor(state)' = (OpenFor(state) \ {}) \cup (IF state \in {"stale"} THEN Born(view, {"stale"}) ELSE {})
  BY <1>5 DEF Kept
<1>7. "stale" \notin Levels
  BY DEF Levels
<1>8. Risen'
  <2>1. ASSUME NEW state \in Levels
        PROVE  IF row'.alarm = state THEN \E i : OpenFor(state)' = {i} ELSE OpenFor(state)' = {}
    <3>1. IF row.alarm = state THEN \E i : OpenFor(state) = {i} ELSE OpenFor(state) = {}
      BY DEF JournalInv, Risen, OneOpen
    <3>2. OpenFor(state)' = OpenFor(state)
      BY <1>6, <1>7
    <3> QED
      BY <1>3, <1>6, <3>1, <3>2
  <2> QED
    BY <2>1 DEF Risen, OneOpen
<1>9. Contact'
  <2>1. ~row.stale /\ row.value # None
    BY <1>1, <1>2 DEF JournalInv, Waits
  <2>2. OpenFor("stale") = {}
    BY <2>1 DEF JournalInv, Contact, OneOpen
  <2>3. \E i : OpenFor("stale")' = {i}
    BY <1>6, <2>2
  <2> QED
    BY <1>3, <1>6, <2>1, <2>3 DEF Contact, OneOpen
<1>10. Waits'
  BY <1>3, <1>6 DEF JournalInv, Waits
<1>11. Veiled'
  BY <1>3, <1>5, NewsVeiled DEF JournalInv, Waits
<1> QED
  BY <1>6, <1>8, <1>9, <1>10, <1>11 DEF JournalInv

LEMMA SettlePendingKept ==
  ASSUME TypedInv, JournalInv, SettlePending
  PROVE  JournalInv'
<1>1. PICK view \in Views :
        LET r == Settled(view.row, view.row.pending)
        IN  /\ view.row.pending # "none"
            /\ Commit(view, r, Ended(view, r), <<>>, {}, Opened(view, r))
  BY DEF SettlePending
<1> DEFINE r == Settled(view.row, view.row.pending)
           ended == {}
<1>2. view.row = row /\ view.events = events /\ row \in Row /\ late = {} /\ row.pending # "none"
  BY <1>1 DEF Views, View, JournalInv, TypedInv, TypeOK
<1>3. /\ r \in Row /\ r.stale = row.stale /\ r.value = row.value /\ r.mode = row.mode
      /\ r.suppressed = row.suppressed
  BY <1>2, PendingType DEF Fields
<1>4. Commit(view, r, Ended(view, r) \cup ended, <<>>, {}, Opened(view, r)) /\ ended \subseteq OpenFor("stale")
  <2>1. Ended(view, r) \cup ended = Ended(view, r) /\ ended \subseteq OpenFor("stale")
    OBVIOUS
  <2> QED
    BY <1>1, <2>1
<1> HIDE DEF r, ended
<1>5. Kept(view, r, Ended(view, r) \cup ended, <<>>, Opened(view, r))
  <2>1. /\ Opened(view, r) \in SUBSET (Levels \cup {"stale"})
        /\ \A a, b \in Opened(view, r) : a = b
    BY <1>3, OpenedType DEF Opened
  <2>2. \A i \in DOMAIN <<>> : <<>>[i] \in Modes \cup {"none"}
    OBVIOUS
  <2> QED
    BY <1>2, <1>3, <1>4, <2>1, <2>2, CommitKept
<1>6. Risen'
  BY <1>3, <1>4, <1>5, SettledRisen
<1>7. row' = r /\ late' = {} /\ setting' = setting
  BY <1>5 DEF Kept
<1>8. ~row.stale
  BY <1>2 DEF JournalInv, Waits
<1>9. Contact'
  <2>1. OpenFor("stale")' = (OpenFor("stale") \ (Ended(view, r) \cup ended))
                            \cup (IF "stale" \in Opened(view, r) THEN Born(view, Opened(view, r)) ELSE {})
    BY <1>5 DEF Kept
  <2>2. "stale" \notin Opened(view, r)
    BY <1>3 DEF Opened, Row, Levels
  <2>3. OpenFor("stale") = {}
    BY <1>8 DEF JournalInv, Contact, OneOpen
  <2>4. OpenFor("stale")' = {}
    BY <2>1, <2>2, <2>3
  <2> QED
    BY <1>3, <1>7, <1>8, <2>4 DEF Contact, OneOpen
<1>10. Waits'
  BY <1>3, <1>7, <1>8 DEF JournalInv, Waits
<1>11. Veiled'
  BY <1>3, <1>5, NewsVeiled DEF JournalInv, Waits
<1> QED
  BY <1>6, <1>7, <1>9, <1>10, <1>11 DEF JournalInv

(* A change of mode hides what was shown, or shows what was hidden, and     *)
(* opens and ends nothing.                                                  *)
LEMMA SetAlarmModeKept ==
  ASSUME TypedInv, JournalInv, NEW view \in Views, NEW mode \in Modes \cup {"normal"}, NEW left \in 0..ShelfLife,
         SetAlarmMode(view, mode, left)
  PROVE  JournalInv'
<1> DEFINE r == InMode(view.row, mode, left)
           want == EffectiveMode(r)
           label == Labels(view, want)
<1>1. view.row = row /\ view.events = events /\ row \in Row /\ late = {}
  BY DEF Views, View, JournalInv, TypedInv, TypeOK
<1>2. /\ r \in Row /\ r.mode = mode /\ r.stale = row.stale /\ r.value = row.value /\ r.alarm = row.alarm
      /\ r.pending = row.pending /\ r.suppressed = row.suppressed
  BY <1>1, InModeType DEF Fields
<1>3. want \in Modes \cup {"none"} /\ mode # "none"
  BY <1>2, ModeType DEF Modes
<1>4. ~setting.condition => (want = "none" <=> mode = "normal")
  BY <1>2, <1>3 DEF EffectiveMode, JournalInv, Waits
<1>5. PICK told : Commit(view, r, {}, label, told, {})
  BY DEF SetAlarmMode, InMode
<1>6. \A i \in DOMAIN label : label[i] = want
  BY DEF Labels
<1>7. \A i \in DOMAIN events : i \in DOMAIN label <=> (events[i].hidden = "none") # (want = "none")
  BY <1>1 DEF Labels
<1> HIDE DEF r, want, label
<1>8. Kept(view, r, {}, label, {})
  <2>1. {} \in SUBSET (Levels \cup {"stale"}) /\ \A a, b \in {} : a = b
    OBVIOUS
  <2> QED
    BY <1>1, <1>2, <1>3, <1>5, <1>6, <2>1, CommitKept
<1>9. /\ row' = r /\ late' = {} /\ setting' = setting
      /\ Born(view, {}) = {}
      /\ \A state \in Levels \cup {"stale"} :
           OpenFor(state)' = (OpenFor(state) \ {}) \cup (IF state \in {} THEN Born(view, {}) ELSE {})
  BY <1>8 DEF Kept
<1>10. \A state \in Levels \cup {"stale"} : OpenFor(state)' = OpenFor(state)
  BY <1>9
<1>11. Risen' /\ Contact'
  <2>1. \A state \in Levels : IF row.alarm = state THEN \E i : OpenFor(state) = {i} ELSE OpenFor(state) = {}
    BY DEF JournalInv, Risen, OneOpen
  <2>2. IF row.stale /\ row.value # None THEN \E i : OpenFor("stale") = {i} ELSE OpenFor("stale") = {}
    BY DEF JournalInv, Contact, OneOpen
  <2>3. OpenFor("stale")' = OpenFor("stale")
    BY <1>10
  <2>4. Contact'
    BY <1>2, <1>9, <2>2, <2>3 DEF Contact, OneOpen
  <2>5. Risen'
    BY <1>2, <1>9, <1>10, <2>1 DEF Risen, OneOpen
  <2> QED
    BY <2>4, <2>5
<1>12. Waits'
  BY <1>2, <1>9 DEF JournalInv, Waits
<1>13. Veiled'
  <2>1. ASSUME ~setting.condition, NEW i \in DOMAIN events'
        PROVE  (events'[i].hidden = "none") = (row'.mode = "normal")
    <3>1. /\ i \in DOMAIN events
          /\ events'[i].hidden = IF i \in DOMAIN label THEN label[i] ELSE events[i].hidden
      BY <1>8, <1>9 DEF Kept
    <3>2. events'[i].hidden = "none" <=> want = "none"
      BY <1>6, <1>7, <3>1
    <3>3. events'[i].hidden = "none" <=> row'.mode = "normal"
      BY <1>2, <1>4, <1>9, <2>1, <3>2
    <3> QED
      BY <3>3
  <2> QED
    BY <1>9, <2>1 DEF Veiled
<1> QED
  BY <1>9, <1>11, <1>12, <1>13 DEF JournalInv

LEMMA JournalStep ==
  TypedInv /\ JournalInv /\ Undisturbed /\ [Next]_vars => JournalInv'
<1> SUFFICES ASSUME TypedInv, JournalInv, Undisturbed, [Next]_vars PROVE JournalInv'
  OBVIOUS
<1>1. CASE UnshelveExpired \/ Shelve \/ Unshelve \/ OutOfService \/ InService
  <2>1. {"normal", "shelved", "out_of_service"} \subseteq Modes \cup {"normal"}
    BY DEF Modes
  <2>2. ShelfLife \in 0..ShelfLife /\ 0 \in 0..ShelfLife
    BY AlarmsAssumption
  <2> QED
    BY <1>1, <2>1, <2>2, SetAlarmModeKept DEF UnshelveExpired, Shelve, Unshelve, OutOfService, InService
<1>2. CASE UpdateSensor \/ Begin
  BY <1>2 DEF Undisturbed, UpdateSensor, Begin
<1>3. ASSUME /\ UNCHANGED <<setting, events>> /\ late' = {}
             /\ row'.value = row.value /\ row'.stale = row.stale /\ row'.alarm = row.alarm
             /\ row'.pending = row.pending /\ row'.mode = row.mode /\ row'.suppressed = row.suppressed
      PROVE  JournalInv'
  <2>1. \A state : OpenFor(state)' = OpenFor(state)
    BY <1>3 DEF OpenFor
  <2>2. Contact' /\ Risen'
    BY <1>3, <2>1 DEF JournalInv, Contact, Risen, OneOpen
  <2>3. Waits' /\ Veiled'
    BY <1>3 DEF JournalInv, Waits, Veiled
  <2> QED
    BY <1>3, <2>2, <2>3 DEF JournalInv
<1>4. CASE Rollback \/ UNCHANGED vars
  BY <1>3, <1>4 DEF JournalInv, Rollback, vars
<1>5. CASE Tick
  <2>1. row \in Row
    BY DEF TypedInv, TypeOK
  <2> QED
    BY <1>3, <1>5, <2>1 DEF JournalInv, Tick, Row
<1> QED
  BY <1>1, <1>2, <1>4, <1>5, IngestKept, MarkStaleKept, SettlePendingKept DEF Next

LEMMA SettingStays == [Next]_vars => setting' = setting
<1> SUFFICES ASSUME [Next]_vars PROVE setting' = setting
  OBVIOUS
<1>1. ASSUME NEW view, NEW r, NEW ended, NEW label, NEW told, NEW opened,
             Commit(view, r, ended, label, told, opened)
      PROVE  setting' = setting
  BY <1>1 DEF Commit
<1>2. ASSUME NEW view, NEW mode, NEW left, SetAlarmMode(view, mode, left) PROVE setting' = setting
  BY <1>1, <1>2 DEF SetAlarmMode
<1>3. CASE Ingest
  BY <1>1, <1>3, IngestDecides DEF Ingested
<1>4. CASE MarkStale
  BY <1>1, <1>4 DEF MarkStale
<1>5. CASE SettlePending
  BY <1>1, <1>5 DEF SettlePending
<1>6. CASE UnshelveExpired \/ Shelve \/ Unshelve \/ OutOfService \/ InService
  BY <1>2, <1>6 DEF UnshelveExpired, Shelve, Unshelve, OutOfService, InService
<1>7. CASE UpdateSensor
  BY <1>1, <1>7 DEF UpdateSensor
<1>8. CASE Begin \/ Rollback \/ Tick \/ UNCHANGED vars
  BY <1>8 DEF Begin, Rollback, Tick, vars
<1> QED
  BY <1>3, <1>4, <1>5, <1>6, <1>7, <1>8 DEF Next

(* The journal and the sensor agree, as long as operations do not overlap   *)
(* and nobody edits the sensor: there is one open event for the alarm that  *)
(* is on and one for a loss of contact, and no other; what is open is       *)
(* hidden exactly while the sensor is shelved or out of service; nothing    *)
(* waits for a delay while the sensor is stale.                             *)
THEOREM JournalCorrect == Spec => []JournalMatches
<1> DEFINE Inv == TypedInv /\ (Undisturbed => JournalInv)
<1>1. Init => Inv
  <2>1. Init => TypedInv
    BY InitTyped
  <2>2. ASSUME Init PROVE JournalInv
    <3>1. DOMAIN events = {} /\ late = {}
      BY <2>2 DEF Init
    <3>2. \A state : OpenFor(state) = {}
      BY <3>1 DEF OpenFor
    <3>3. row.value = None /\ row.stale /\ row.alarm = "ok" /\ row.pending = "none" /\ ~row.suppressed
      BY <2>2 DEF Init
    <3>4. "ok" \notin Levels
      BY DEF Levels
    <3> QED
      BY <3>1, <3>2, <3>3, <3>4 DEF JournalInv, Contact, Risen, OneOpen, Waits, Veiled
  <2> QED
    BY <2>1, <2>2
<1>2. Inv /\ [Next]_vars => Inv'
  <2>1. [Next]_vars => setting' = setting
    BY SettingStays
  <2>2. setting' = setting => (Undisturbed' <=> Undisturbed)
    BY DEF Undisturbed
  <2> QED
    BY <2>1, <2>2, TypedStep, JournalStep
<1>3. Inv => JournalMatches
  <2> SUFFICES ASSUME Undisturbed, JournalInv
               PROVE  /\ Journalled
                      /\ row.stale => row.pending = "none"
                      /\ ~setting.condition =>
                           \A i \in DOMAIN events : (events[i].hidden = "none") = (row.mode = "normal")
    BY DEF JournalMatches, Undisturbed
  <2>1. ASSUME NEW state, NEW b \in BOOLEAN, OneOpen(state, b)
        PROVE  Cardinality(OpenFor(state)) = IF b THEN 1 ELSE 0
    <3>1. CASE b
      <4>1. PICK i : OpenFor(state) = {i}
        BY <2>1, <3>1 DEF OneOpen
      <4> QED
        BY <3>1, <4>1, FS_Singleton
    <3>2. CASE ~b
      <4>1. OpenFor(state) = {}
        BY <2>1, <3>2 DEF OneOpen
      <4> QED
        BY <3>2, <4>1, FS_EmptySet
    <3> QED
      BY <3>1, <3>2
  <2>2. Cardinality(OpenFor("stale")) = (IF row.stale /\ row.value # None THEN 1 ELSE 0)
    BY <2>1 DEF JournalInv, Contact
  <2>3. \A state \in Levels : Cardinality(OpenFor(state)) = (IF row.alarm = state THEN 1 ELSE 0)
    BY <2>1 DEF JournalInv, Risen
  <2> QED
    BY <2>2, <2>3 DEF Journalled, JournalInv, Waits, Veiled
<1> HIDE DEF Inv
<1> QED
  BY <1>1, <1>2, <1>3, PTL DEF Spec
=============================================================================
