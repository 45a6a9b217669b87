--------------------------- MODULE Sources_proofs ---------------------------
(***************************************************************************)
(* Theorems about Sources, for any tags, values, kinds of source and       *)
(* number of upsets.                                                       *)
(***************************************************************************)
EXTENDS Sources, TLAPS, SequenceTheorems

-----------------------------------------------------------------------------
(* What a tag's queue of notifications holds.                               *)

LEMMA InitialValues ==
  ASSUME TypeOK
  PROVE  /\ Snapshot \in [Tags -> Seq(Notification)]
         /\ Greeting \in [Tags -> Seq(Notification)]
         /\ Silence \in [Tags -> Seq(Notification)]
         /\ \A t \in Tags : Len(Snapshot[t]) = 1 /\ Snapshot[t][1].value = plant[t]
<1>1. \A t \in Tags : [value |-> plant[t], change |-> 0] \in Notification
  BY SourcesAssumption DEF TypeOK, Notification
<1>2. Snapshot \in [Tags -> Seq(Notification)]
  BY <1>1 DEF Snapshot
<1>3. Silence \in [Tags -> Seq(Notification)]
  BY DEF Silence
<1>4. \A t \in Tags : Len(Snapshot[t]) = 1 /\ Snapshot[t][1].value = plant[t]
  BY DEF Snapshot
<1> QED
  BY <1>2, <1>3, <1>4 DEF Greeting

(* Init states it before there is a TypeOK to speak of.                     *)
LEMMA InitType == Init => TypeOK
<1> SUFFICES ASSUME Init PROVE TypeOK
  OBVIOUS
<1>1. wire \in [Tags -> Seq(Notification)]
  <2>1. \A t \in Tags : [value |-> plant[t], change |-> 0] \in Notification
    BY SourcesAssumption DEF Init, Notification
  <2> QED
    BY <2>1 DEF Init, Greeting, Snapshot, Silence
<1>2. setting \in Settings
  <2>1. PICK s \in Settings : protocol = s[1] /\ commanded = s[2]
    BY DEF Init
  <2>2. s = <<s[1], s[2]>>
    BY <2>1, SourcesAssumption
  <2> QED
    BY <2>1, <2>2 DEF setting
<1>3. NoItems \in [Tags -> Values \cup {None}] /\ NoItems \in [Tags -> Item]
  BY DEF NoItems, Item
<1>4. upsets \in 0..MaxUpsets
  BY SourcesAssumption DEF Init
<1>5. soe \cup events \cup pushed \cup noted \subseteq 1..MaxUpsets
  BY DEF Init
<1>6. /\ plant \in [Tags -> Values] /\ faulty \subseteq Tags
      /\ link \in {"up", "down", "dead"}
      /\ latest \in [Tags -> Values \cup {None}]
      /\ changed \subseteq Tags /\ badSent \subseteq Tags /\ asking \in BOOLEAN
      /\ step \in {"read", "copy", "clear", "push", "command", "readback"}
      /\ items \in [Tags -> Item] /\ told \in [Tags -> Item]
  BY <1>3 DEF Init
<1> QED
  BY <1>1, <1>2, <1>4, <1>5, <1>6 DEF TypeOK

LEMMA UpsetType ==
  ASSUME TypeOK, Upset
  PROVE  upsets' \in 1..MaxUpsets
<1>1. MaxUpsets \in Nat /\ MaxUpsetsCommanded \in 0..MaxUpsets /\ upsets \in 0..MaxUpsets
  BY SourcesAssumption DEF TypeOK
<1>2. upsets < MaxUpsets
  BY <1>1 DEF Upset
<1> QED
  BY <1>1, <1>2 DEF Upset

LEMMA ChangeType ==
  ASSUME TypeOK, NEW t \in Tags, NEW value \in Values, Change(t, value)
  PROVE  /\ upsets' \in 1..MaxUpsets
         /\ plant' \in [Tags -> Values]
         /\ wire' \in [Tags -> Seq(Notification)]
<1> DEFINE n == IF t \in Stamped THEN upsets + 1 ELSE 0
           note == [value |-> value, change |-> n]
<1>1. upsets' \in 1..MaxUpsets /\ upsets' = upsets + 1
  BY UpsetType DEF Change, Upset
<1>2. note \in Notification
  BY <1>1, SourcesAssumption DEF Notification
<1>3. wire' = IF Subscribed /\ link = "up" THEN [wire EXCEPT ![t] = Append(@, note)] ELSE wire
  BY DEF Change, Notify
<1> HIDE DEF note
<1>4. Append(wire[t], note) \in Seq(Notification) /\ wire \in [Tags -> Seq(Notification)]
  BY <1>2 DEF TypeOK
<1>5. wire' \in [Tags -> Seq(Notification)]
  BY <1>3, <1>4
<1>6. plant' \in [Tags -> Values]
  BY DEF Change, TypeOK
<1> QED
  BY <1>1, <1>5, <1>6

(* What read() gives and leaves, whichever protocol it speaks.              *)
LEMMA GotType ==
  ASSUME TypeOK
  PROVE  Got \in [Tags -> Item]
BY DEF TypeOK, Got, ReadChanged, ReadAll, Item

LEMMA ReadType ==
  ASSUME TypeOK, Read \/ ReadRaises
  PROVE  /\ link' \in {"up", "down", "dead"} /\ changed' \subseteq Tags /\ asking' \in BOOLEAN
         /\ wire' \in [Tags -> Seq(Notification)]
         /\ latest' \in [Tags -> Values \cup {None}]
<1>1. ASSUME NEW t \in Tags PROVE wire[t] \o Snapshot[t] \in Seq(Notification)
  <2>1. wire[t] \in Seq(Notification) /\ Snapshot[t] \in Seq(Notification)
    BY InitialValues DEF TypeOK
  <2> QED
    BY <2>1
<1>2. [t \in Tags |-> wire[t] \o Snapshot[t]] \in [Tags -> Seq(Notification)]
  BY <1>1
<1>3. CASE Read
  BY <1>2, <1>3 DEF TypeOK, Read
<1>4. CASE ReadRaises
  BY <1>4, InitialValues DEF TypeOK, ReadRaises, NoItems
<1> QED
  BY <1>3, <1>4

LEMMA MarksType ==
  ASSUME TypeOK, NEW got
  PROVE  Marked(got) \subseteq Tags /\ Unmarked(Marked(got), got) \subseteq Tags
BY DEF TypeOK, Marked, Unmarked

-----------------------------------------------------------------------------
(* Type correctness.                                                        *)

LEMMA TypeStep == TypeOK /\ [Next]_vars => TypeOK'
<1> SUFFICES ASSUME TypeOK, [Next]_vars PROVE TypeOK'
  OBVIOUS
<1>1. CASE PlantChanges
  <2>1. PICK t \in Tags, value \in Values : Change(t, value)
    BY <1>1 DEF PlantChanges
  <2>2. /\ upsets' \in 1..MaxUpsets
        /\ plant' \in [Tags -> Values]
        /\ wire' \in [Tags -> Seq(Notification)]
    BY <2>1, ChangeType
  <2> QED
    BY <1>1, <2>2 DEF PlantChanges, TypeOK, setting, source, loop
<1>2. CASE FaultChanges
  <2>1. upsets' \in 0..MaxUpsets
    BY <1>2, UpsetType DEF FaultChanges
  <2>2. faulty' \subseteq Tags
    BY <1>2 DEF FaultChanges, TypeOK
  <2> QED
    BY <1>2, <2>1, <2>2 DEF FaultChanges, TypeOK, setting, source, loop
<1>3. CASE Drop
  <2>1. upsets' \in 0..MaxUpsets
    BY <1>3, UpsetType DEF Drop
  <2> QED
    BY <1>3, <2>1, InitialValues DEF Drop, TypeOK, setting, source, loop
<1>4. CASE Return
  <2>1. wire' \in [Tags -> Seq(Notification)]
    BY <1>4, InitialValues DEF Return, TypeOK
  <2> QED
    BY <1>4, <2>1 DEF Return, TypeOK, setting, source, loop
<1>5. CASE Callback
  <2>1. PICK t \in Tags :
          /\ wire[t] # <<>>
          /\ LET happened == {Head(wire[t]).change} \ {0}
             IN  soe' = soe \cup happened /\ noted' = noted \cup happened
          /\ latest' = [latest EXCEPT ![t] = Head(wire[t]).value]
          /\ changed' = changed \cup {t}
          /\ wire' = [wire EXCEPT ![t] = Tail(@)]
          /\ UNCHANGED <<setting, plant, faulty, link, upsets, badSent, asking, loop>>
    BY <1>5 DEF Callback
  <2>2. wire[t] \in Seq(Notification)
    BY DEF TypeOK
  <2>3. Head(wire[t]) \in Notification /\ Tail(wire[t]) \in Seq(Notification)
    BY <2>1, <2>2
  <2>4. Head(wire[t]).value \in Values /\ {Head(wire[t]).change} \ {0} \subseteq 1..MaxUpsets
    BY <2>3, SourcesAssumption DEF Notification
  <2>5. wire' \in [Tags -> Seq(Notification)]
    BY <2>1, <2>3 DEF TypeOK
  <2>6. latest' \in [Tags -> Values \cup {None}] /\ changed' \subseteq Tags
    BY <2>1, <2>4 DEF TypeOK
  <2>7. soe' \cup events' \cup pushed' \cup noted' \subseteq 1..MaxUpsets
    BY <2>1, <2>4 DEF TypeOK, loop
  <2> QED
    BY <2>1, <2>5, <2>6, <2>7 DEF TypeOK, setting, loop
<1>6. CASE InterrogationDue
  BY <1>6 DEF InterrogationDue, TypeOK, setting, device, loop
<1>7. CASE ReadSafe
  <2>1. badSent' \subseteq Tags
    BY <1>7, MarksType DEF ReadSafe
  <2> QED
    BY <1>7, <2>1, ReadType, GotType DEF ReadSafe, TypeOK, setting
<1>8. CASE ReadSafeRaised
  <2>1. items' \in [Tags -> Item]
    BY <1>8 DEF ReadSafeRaised, Item
  <2> QED
    BY <1>8, <2>1, ReadType DEF ReadSafeRaised, TypeOK, setting
<1>9. CASE CopyEvents
  BY <1>9 DEF CopyEvents, TypeOK, setting, device, source
<1>10. CASE ClearEvents
  BY <1>10 DEF ClearEvents, TypeOK, setting, device
<1>11. CASE Push
  <2>1. told' \in [Tags -> Item]
    BY <1>11 DEF Push, TypeOK
  <2>2. items' \in [Tags -> Item]
    BY <1>11 DEF Push, NoItems, Item
  <2> QED
    BY <1>11, <2>1, <2>2 DEF Push, TypeOK, setting, device, source
<1>12. CASE NoCommand
  BY <1>12 DEF NoCommand, TypeOK, setting, device, source
<1>13. CASE Command
  <2>1. PICK t \in Tags, value \in Values : Change(t, value)
    BY <1>13 DEF Command
  <2>2. /\ upsets' \in 1..MaxUpsets
        /\ plant' \in [Tags -> Values]
        /\ wire' \in [Tags -> Seq(Notification)]
    BY <2>1, ChangeType
  <2> QED
    BY <1>13, <2>2 DEF Command, TypeOK, setting, source
<1>14. CASE Readback
  <2>1. badSent' \subseteq Tags
    BY <1>14, MarksType DEF Readback, TypeOK
  <2>2. Read \/ ReadRaises
    BY <1>14 DEF Readback
  <2> QED
    BY <1>14, <2>1, <2>2, ReadType DEF Readback, TypeOK, setting
<1>15. CASE Restart
  <2>1. upsets' \in 0..MaxUpsets
    BY <1>15, UpsetType DEF Restart
  <2>2. NoItems \in [Tags -> Values \cup {None}] /\ NoItems \in [Tags -> Item]
    BY DEF NoItems, Item
  <2>3. wire' \in [Tags -> Seq(Notification)]
    BY <1>15, InitialValues DEF Restart
  <2>4. soe' \cup events' \cup pushed' \cup noted' \subseteq 1..MaxUpsets
    BY <1>15 DEF Restart, TypeOK
  <2> QED
    BY <1>15, <2>1, <2>2, <2>3, <2>4 DEF Restart, TypeOK, setting
<1>16. CASE UNCHANGED vars
  BY <1>16 DEF TypeOK, vars, setting, device, source, loop
<1> QED
  BY <1>1, <1>2, <1>3, <1>4, <1>5, <1>6, <1>7, <1>8, <1>9, <1>10, <1>11, <1>12, <1>13, <1>14, <1>15, <1>16
     DEF Next, MainLoop

(* Every variable stays in its type; in particular the source's cache never *)
(* holds an item of bad quality, and every event has the number of an       *)
(* upset.                                                                   *)
THEOREM TypeCorrect == Spec => []TypeOK
<1> QED
  BY InitType, TypeStep, PTL DEF Spec

-----------------------------------------------------------------------------
(* The loop holds items only between a read and its push, and commands only *)
(* where there is a channel for them.                                       *)
Handed == step \notin {"copy", "clear", "push"} => items = NoItems

Commanding == step \in {"command", "readback"} => commanded

LEMMA HandedStep == Handed /\ [Next]_vars => Handed'
<1> SUFFICES ASSUME Handed, [Next]_vars PROVE Handed'
  OBVIOUS
<1>1. CASE UNCHANGED <<step, items>>
  BY <1>1 DEF Handed
<1>2. CASE ReadSafe \/ ReadSafeRaised \/ CopyEvents \/ ClearEvents
  BY <1>2 DEF Handed, ReadSafe, ReadSafeRaised, CopyEvents, ClearEvents
<1>3. CASE Push \/ Restart
  BY <1>3 DEF Handed, Push, Restart
<1>4. CASE NoCommand \/ Command \/ Readback
  BY <1>4 DEF Handed, NoCommand, Command, Readback
<1> QED
  BY <1>1, <1>2, <1>3, <1>4
     DEF Next, MainLoop, PlantChanges, FaultChanges, Drop, Return, Callback, InterrogationDue, loop, vars

LEMMA CommandingStep == Commanding /\ [Next]_vars => Commanding'
<1> SUFFICES ASSUME Commanding, [Next]_vars PROVE Commanding'
  OBVIOUS
<1>1. CASE UNCHANGED <<step, commanded>>
  BY <1>1 DEF Commanding
<1>2. CASE ReadSafe \/ ReadSafeRaised \/ CopyEvents \/ ClearEvents
  BY <1>2 DEF Commanding, ReadSafe, ReadSafeRaised, CopyEvents, ClearEvents
<1>3. CASE Push \/ Restart
  BY <1>3 DEF Commanding, Push, Restart, setting
<1>4. CASE NoCommand \/ Command \/ Readback
  BY <1>4 DEF Commanding, NoCommand, Command, Readback, setting
<1> QED
  BY <1>1, <1>2, <1>3, <1>4
     DEF Next, MainLoop, PlantChanges, FaultChanges, Drop, Return, Callback, InterrogationDue,
         loop, setting, vars

-----------------------------------------------------------------------------
(* A bad item is told.  The read-back keeps one item of what it read; over  *)
(* Modbus that drops the bad ones, whose tags count as reported all the     *)
(* same.                                                                    *)
NoCommandsByPoll == <<"poll", TRUE>> \notin Settings

BadInv == TypeOK /\ Handed /\ Commanding /\ BadIsTold

LEMMA BadStep ==
  NoCommandsByPoll /\ BadInv /\ [Next]_vars => BadIsTold'
<1> SUFFICES ASSUME NoCommandsByPoll, BadInv, [Next]_vars PROVE BadIsTold'
  OBVIOUS
<1> SUFFICES ASSUME NEW t \in Tags, t \in badSent'
             PROVE  IF items'[t] # None THEN items'[t] = Bad ELSE told'[t] = Bad
  <2>1. TypeOK'
    BY TypeStep DEF BadInv
  <2>2. badSent' \subseteq Tags
    BY <2>1 DEF TypeOK
  <2> QED
    BY <2>2 DEF BadIsTold
<1>1. t \in badSent => IF items[t] # None THEN items[t] = Bad ELSE told[t] = Bad
  BY DEF BadInv, BadIsTold
<1>2. step \notin {"copy", "clear", "push"} => items[t] = None
  BY DEF BadInv, Handed, NoItems
<1>3. CASE UNCHANGED <<badSent, items, told>>
  BY <1>3, <1>1
<1>4. CASE ReadSafe
  <2>1. items' = Got /\ told' = told /\ items[t] = None
    BY <1>4, <1>2 DEF ReadSafe
  <2>2. t \in Marked(Got) /\ Got[t] \in {None, Bad}
    BY <1>4 DEF ReadSafe, Unmarked
  <2>3. t \in badSent \/ Got[t] = Bad
    BY <2>2 DEF Marked
  <2>4. None # Bad
    BY DEF None, Bad
  <2> QED
    BY <2>1, <2>2, <2>3, <2>4, <1>1
<1>5. CASE ReadSafeRaised
  <2>1. told' = told /\ items[t] = None /\ items'[t] = IF t \in badSent THEN None ELSE Bad
    BY <1>5, <1>2 DEF ReadSafeRaised
  <2>2. None # Bad
    BY DEF None, Bad
  <2> QED
    BY <2>1, <2>2, <1>1
<1>6. CASE Push
  <2>1. /\ badSent' = badSent /\ items'[t] = None
        /\ told'[t] = IF items[t] = None THEN told[t] ELSE items[t]
    BY <1>6 DEF Push, source, NoItems
  <2> QED
    BY <2>1, <1>1
<1>7. CASE Readback
  <2>1. commanded /\ setting \in Settings
    BY <1>7 DEF Readback, BadInv, Commanding, TypeOK
  <2>2. commanded = TRUE
    BY <2>1, SourcesAssumption DEF setting
  <2>3. Subscribed
    BY <2>1, <2>2 DEF NoCommandsByPoll, Subscribed, setting
  <2>4. Bad \notin Values /\ Bad # None /\ latest \in [Tags -> Values \cup {None}]
    BY SourcesAssumption DEF BadInv, TypeOK, Bad, None
  <2>5. \A u \in Tags : Got[u] # Bad
    BY <2>3, <2>4 DEF Got, ReadChanged
  <2>6. Marked(Got) = badSent
    BY <2>5 DEF Marked
  <2>7. UNCHANGED <<badSent, items, told>>
    BY <1>7, <2>6 DEF Readback
  <2> QED
    BY <2>7, <1>1
<1>8. CASE Restart
  BY <1>8 DEF Restart
<1> QED
  BY <1>3, <1>4, <1>5, <1>6, <1>7, <1>8
     DEF Next, MainLoop, PlantChanges, FaultChanges, Drop, Return, Callback, InterrogationDue,
         CopyEvents, ClearEvents, NoCommand, Command, source, loop, vars

(* A tag that counts as reported bad was last reported bad, or is in the    *)
(* items about to be pushed: for every kind of source, with or without      *)
(* commands, except commands over Modbus, where the code breaks it.         *)
THEOREM BadCorrect == NoCommandsByPoll => (Spec => []BadIsTold)
<1> SUFFICES ASSUME NoCommandsByPoll PROVE Spec => []BadIsTold
  OBVIOUS
<1>1. Init => BadInv
  <2>1. Init => Handed /\ Commanding /\ BadIsTold
    BY DEF Init, Handed, Commanding, BadIsTold
  <2> QED
    BY <2>1, InitType DEF BadInv
<1>2. BadInv /\ [Next]_vars => BadInv'
  <2>1. BadInv /\ [Next]_vars => TypeOK' /\ Handed' /\ Commanding'
    BY TypeStep, HandedStep, CommandingStep DEF BadInv
  <2> QED
    BY <2>1, BadStep DEF BadInv
<1>3. BadInv => BadIsTold
  BY DEF BadInv
<1> QED
  BY <1>1, <1>2, <1>3, PTL DEF Spec

-----------------------------------------------------------------------------
(* News is current.                                                         *)

NewsInv == TypeOK /\ Handed /\ Commanding /\ NewsIsCurrent

(* The newest thing on its way, when nothing but the wire is asked.         *)
LEMMA NewsByWire ==
  ASSUME NEW t, wire[t] # <<>>
  PROVE  News(t) = wire[t][Len(wire[t])].value
BY DEF News

LEMMA GreetingNews ==
  ASSUME TypeOK, Subscribed, NEW t \in Tags
  PROVE  /\ Greeting[t] # <<>>
         /\ Greeting[t][Len(Greeting[t])].value = plant[t]
<1>1. Greeting[t] = <<[value |-> plant[t], change |-> 0]>>
  BY DEF Greeting, Snapshot
<1> QED
  BY <1>1

LEMMA NewsStep == NewsInv /\ [Next]_vars => NewsIsCurrent'
<1> SUFFICES ASSUME NewsInv, [Next]_vars, Subscribed', ~commanded', link' = "up", NEW t \in Tags
             PROVE  News(t)' = plant'[t]
  BY DEF NewsIsCurrent
<1>1. TypeOK /\ TypeOK'
  BY TypeStep DEF NewsInv
<1>2. Subscribed /\ ~commanded
  BY DEF Next, MainLoop, PlantChanges, FaultChanges, Drop, Return, Callback, InterrogationDue,
         ReadSafe, ReadSafeRaised, CopyEvents, ClearEvents, Push, NoCommand, Command, Readback, Restart,
         setting, vars, Subscribed
<1>3. link = "up" => News(t) = plant[t]
  BY <1>2 DEF NewsInv, NewsIsCurrent
<1>4. step \notin {"command", "readback"}
  BY <1>2 DEF NewsInv, Commanding
<1>5. step \notin {"copy", "clear", "push"} => items[t] = None
  BY DEF NewsInv, Handed, NoItems
<1>6. wire[t] \in Seq(Notification) /\ plant[t] \in Values
  BY <1>1 DEF TypeOK
<1>7. None \notin Values
  BY SourcesAssumption
<1>8. ASSUME wire'[t] # <<>>, wire'[t][Len(wire'[t])].value = plant'[t] PROVE News(t)' = plant'[t]
  BY <1>8 DEF News
<1>9. ASSUME UNCHANGED <<plant, link>>, wire'[t] = wire[t],
             t \in changed' <=> t \in changed, latest'[t] = latest[t],
             items'[t] = items[t], told'[t] = told[t]
      PROVE  News(t)' = plant'[t]
  BY <1>9, <1>3 DEF News
<1>10. CASE PlantChanges
  <2>1. PICK u \in Tags, value \in Values : value # plant[u] /\ Change(u, value)
    BY <1>10 DEF PlantChanges
  <2> DEFINE n == IF u \in Stamped THEN upsets + 1 ELSE 0
             note == [value |-> value, change |-> n]
  <2>2. link = "up" /\ UNCHANGED <<changed, latest, items, told>>
    BY <1>10 DEF PlantChanges, source, loop
  <2>3. wire' = [wire EXCEPT ![u] = Append(@, note)] /\ plant' = [plant EXCEPT ![u] = value]
    BY <2>1, <2>2, <1>2 DEF Change, Notify
  <2>4. note.value = value
    OBVIOUS
  <2> HIDE DEF note
  <2>5. CASE u = t
    <3>1. wire'[t] = Append(wire[t], note) /\ plant'[t] = value
      BY <2>3, <2>5, <1>1 DEF TypeOK
    <3>2. wire'[t] # <<>> /\ wire'[t][Len(wire'[t])] = note
      BY <3>1, <1>6
    <3> QED
      BY <3>1, <3>2, <2>4, <1>8
  <2>6. CASE u # t
    <3>1. wire'[t] = wire[t] /\ plant'[t] = plant[t]
      BY <2>3, <2>6, <1>1 DEF TypeOK
    <3> QED
      BY <3>1, <2>2, <1>3 DEF News
  <2> QED
    BY <2>5, <2>6
<1>11. CASE FaultChanges
  BY <1>11, <1>2 DEF FaultChanges, Subscribed
<1>12. CASE Drop
  BY <1>12 DEF Drop
<1>13. CASE Return
  <2>1. wire' = Greeting /\ plant' = plant
    BY <1>13 DEF Return
  <2> QED
    BY <2>1, <1>1, <1>2, <1>8, GreetingNews
<1>14. CASE Callback
  <2>1. PICK u \in Tags :
          /\ wire[u] # <<>>
          /\ latest' = [latest EXCEPT ![u] = Head(wire[u]).value]
          /\ changed' = changed \cup {u}
          /\ wire' = [wire EXCEPT ![u] = Tail(@)]
          /\ UNCHANGED <<setting, plant, faulty, link, upsets, badSent, asking, loop>>
    BY <1>14 DEF Callback
  <2>2. UNCHANGED <<plant, link, items, told>>
    BY <2>1 DEF loop
  <2>3. CASE u # t
    <3>1. wire'[t] = wire[t] /\ latest'[t] = latest[t] /\ (t \in changed' <=> t \in changed)
      BY <2>1, <2>3, <1>1 DEF TypeOK
    <3> QED
      BY <3>1, <2>2, <1>9
  <2>4. CASE u = t
    <3>1. /\ wire'[t] = Tail(wire[t]) /\ wire[t] # <<>>
          /\ t \in changed' /\ latest'[t] = Head(wire[t]).value
      BY <2>1, <2>4, <1>1 DEF TypeOK
    <3>2. wire[t][Len(wire[t])].value = plant[t]
      BY <3>1, <2>2, <1>3, NewsByWire
    <3>3. CASE wire'[t] = <<>>
      <4>1. Len(Tail(wire[t])) = Len(wire[t]) - 1
        BY <3>1, <1>6, HeadTailProperties
      <4>2. Len(Tail(wire[t])) = 0 /\ Len(wire[t]) \in Nat
        BY <3>1, <3>3, <1>6, EmptySeq, LenProperties
      <4>3. Len(wire[t]) = 1
        BY <4>1, <4>2
      <4>4. Head(wire[t]) = wire[t][Len(wire[t])]
        BY <4>3, <1>6
      <4> QED
        BY <4>4, <3>1, <3>2, <3>3, <2>2 DEF News
    <3>4. CASE wire'[t] # <<>>
      <4>1. wire'[t][Len(wire'[t])] = wire[t][Len(wire[t])]
        BY <3>1, <3>4, <1>6
      <4> QED
        BY <4>1, <3>2, <3>4, <2>2, <1>8
    <3> QED
      BY <3>3, <3>4
  <2> QED
    BY <2>3, <2>4
<1>15. CASE InterrogationDue
  BY <1>15, <1>9 DEF InterrogationDue, device, loop
<1>16. CASE ReadSafe
  <2>1. /\ link = "up" /\ UNCHANGED <<plant, told>> /\ items[t] = None
        /\ items'[t] = IF t \in changed THEN latest[t] ELSE None
        /\ t \notin changed'
        /\ wire'[t] = IF asking THEN wire[t] \o Snapshot[t] ELSE wire[t]
    BY <1>16, <1>2, <1>5 DEF ReadSafe, Read, Readable, Subscribed, Got, ReadChanged
  <2>2. News(t) = plant[t]
    BY <2>1, <1>3
  <2>3. CASE asking
    <3>1. Len(Snapshot[t]) = 1 /\ Snapshot[t][1].value = plant[t] /\ Snapshot[t] \in Seq(Notification)
      BY <1>1, InitialValues
    <3>2. wire'[t] = wire[t] \o Snapshot[t]
      BY <2>1, <2>3
    <3>3. wire'[t] # <<>> /\ wire'[t][Len(wire'[t])] = Snapshot[t][1]
      <4>1. Len(wire[t]) \in Nat /\ wire'[t] \in Seq(Notification)
        BY <1>1, <1>6, LenProperties DEF TypeOK
      <4> DEFINE old == wire[t]
                 snap == Snapshot[t]
      <4>2. old \in Seq(Notification) /\ snap \in Seq(Notification) /\ Len(snap) = 1
        BY <3>1, <1>6
      <4> HIDE DEF old, snap
      <4>3. /\ Len(old \o snap) = Len(old) + Len(snap)
            /\ \A i \in 1..(Len(old) + Len(snap)) :
                 (old \o snap)[i] = IF i <= Len(old) THEN old[i] ELSE snap[i - Len(old)]
        BY <4>2, ConcatProperties
      <4>4. Len(old) \in Nat
        BY <4>1 DEF old
      <4>5. Len(old \o snap) = Len(old) + 1 /\ (old \o snap)[Len(old) + 1] = snap[1]
        BY <4>2, <4>3, <4>4
      <4>6. Len(wire'[t]) = Len(wire[t]) + 1
        BY <4>5, <3>2 DEF old, snap
      <4>7. wire'[t][Len(wire[t]) + 1] = Snapshot[t][1]
        BY <4>5, <3>2 DEF old, snap
      <4>8. wire'[t] # <<>>
        BY <4>1, <4>6, EmptySeq
      <4> QED
        BY <4>6, <4>7, <4>8
    <3> QED
      BY <3>1, <3>3, <2>1, <1>8
  <2>4. CASE ~asking
    <3>1. wire'[t] = wire[t]
      BY <2>1, <2>4
    <3>2. CASE wire[t] # <<>>
      BY <3>1, <3>2, <2>1, <2>2 DEF News
    <3>3. CASE wire[t] = <<>> /\ t \in changed
      BY <3>1, <3>3, <2>1, <2>2, <1>6, <1>7 DEF News
    <3>4. CASE wire[t] = <<>> /\ t \notin changed
      BY <3>1, <3>4, <2>1, <2>2 DEF News
    <3> QED
      BY <3>2, <3>3, <3>4
  <2> QED
    BY <2>3, <2>4
<1>17. CASE ReadSafeRaised
  <2>1. wire' = Greeting /\ plant' = plant
    BY <1>17 DEF ReadSafeRaised, ReadRaises, Readable
  <2> QED
    BY <2>1, <1>1, <1>2, <1>8, GreetingNews
<1>18. CASE CopyEvents \/ ClearEvents
  BY <1>18, <1>9 DEF CopyEvents, ClearEvents, device, source
<1>19. CASE Push
  <2>1. /\ UNCHANGED <<plant, link, wire, latest, changed>> /\ items'[t] = None
        /\ told'[t] = IF items[t] = None THEN told[t] ELSE items[t]
    BY <1>19 DEF Push, device, source, NoItems
  <2> QED
    BY <2>1, <1>3 DEF News
<1>20. CASE NoCommand \/ Command \/ Readback
  BY <1>20, <1>4 DEF NoCommand, Command, Readback
<1>21. CASE Restart
  <2>1. wire' = Greeting /\ plant' = plant
    BY <1>21 DEF Restart
  <2> QED
    BY <2>1, <1>1, <1>2, <1>8, GreetingNews
<1>22. CASE UNCHANGED vars
  BY <1>22, <1>9 DEF vars, device, source, loop
<1> QED
  BY <1>10, <1>11, <1>12, <1>13, <1>14, <1>15, <1>16, <1>17, <1>18, <1>19, <1>20, <1>21, <1>22
     DEF Next, MainLoop

(* Report by exception loses no change: while a subscription's session      *)
(* lives and nothing else reads the source, the newest thing on its way     *)
(* about a tag is the tag's value, through lost sessions, interrogations    *)
(* and restarts.                                                            *)
THEOREM NewsCorrect == Spec => []NewsIsCurrent
<1>1. Init => NewsInv
  <2>1. Init => Handed /\ Commanding
    BY DEF Init, Handed, Commanding
  <2>2. Init => NewsIsCurrent
    BY InitType, GreetingNews, NewsByWire DEF Init, NewsIsCurrent
  <2> QED
    BY <2>1, <2>2, InitType DEF NewsInv
<1>2. NewsInv /\ [Next]_vars => NewsInv'
  <2>1. NewsInv /\ [Next]_vars => TypeOK' /\ Handed' /\ Commanding'
    BY TypeStep, HandedStep, CommandingStep DEF NewsInv
  <2> QED
    BY <2>1, NewsStep DEF NewsInv
<1>3. NewsInv => NewsIsCurrent
  BY DEF NewsInv
<1> QED
  BY <1>1, <1>2, <1>3, PTL DEF Spec
=============================================================================
