------------------------------- MODULE Sources -------------------------------
(***************************************************************************)
(* How values and events get from the plant to the gateway's pusher: one   *)
(* source of deploy/gateway/ges_gateway.py under the main loop's thread,   *)
(* and the callbacks of its protocol library in a thread of their own.     *)
(*                                                                         *)
(*   "poll"    Modbus: every read asks for every tag                       *)
(*   "opcua"   OPC UA in subscribe mode: callbacks note what changed, a    *)
(*             dead session is found and replaced by the next read         *)
(*   "iec104"  the same, but the library reconnects by itself, and         *)
(*             time-stamped points are also put in a list of events        *)
(*                                                                         *)
(* With a command channel the loop also writes tags and reads them back    *)
(* through the same source.                                                *)
(***************************************************************************)
EXTENDS Integers, Sequences

CONSTANTS
  Tags,        \* points of the source
  Discrete,    \* those of a time-stamped discrete type
  Values,      \* what a point may show
  Settings,    \* kinds of source, see above, without and with commands
  MaxUpsets,   \* bound on changes, faults, lost connections and restarts
  MaxUpsetsCommanded  \* the same bound with a command channel

Bad == "bad"    \* an item of bad quality
None == "none"  \* no item

ASSUME SourcesAssumption ==
  /\ Discrete \subseteq Tags
  /\ Settings \subseteq {"poll", "opcua", "iec104"} \X BOOLEAN
  /\ MaxUpsets \in Nat /\ MaxUpsetsCommanded \in 0..MaxUpsets
  /\ Bad \notin Values /\ None \notin Values

VARIABLES
  protocol,  \* of this source, for ever
  commanded, \* whether there is a command channel, for ever
  plant,     \* the value of each point
  faulty,    \* points that cannot be read though the device answers
  link,      \* "up", "down", or "dead": reachable, but the session is gone
  wire,      \* per tag, notifications whose callback has not run
  latest,    \* _latest
  changed,   \* _changed
  badSent,   \* _bad_sent
  soe,       \* the list of events, as a set of change numbers
  asking,    \* interrogation_s has passed since the last interrogation
  step,      \* where the main loop is
  items,     \* what this cycle read
  events,    \* what this cycle copied from soe
  told,      \* per tag, the last item pushed (history)
  pushed,    \* events pushed (history)
  noted,     \* events whose callback has run in this process or that were pushed
  upsets     \* so far, for the bound; numbers the changes

device == <<plant, faulty, link, wire, upsets>>
source == <<latest, changed, badSent, soe, asking>>
loop == <<step, items, events, told, pushed>>
setting == <<protocol, commanded>>
vars == <<setting, device, source, loop, noted>>

Subscribed == protocol # "poll"

NoItems == [t \in Tags |-> None]

Silence == [t \in Tags |-> <<>>]

(* Definitions named Mutant... are plausible bugs in the definition that    *)
(* follows them; no specification uses them.                                *)

(* Initial values of a subscription, or the answer to an interrogation:     *)
(* not spontaneous, so number 0, which is no event.                         *)
Snapshot == [t \in Tags |-> <<[value |-> plant[t], change |-> 0]>>]

MutantGreeting == Silence

Greeting == IF Subscribed THEN Snapshot ELSE Silence

Init ==
  /\ \E s \in Settings : protocol = s[1] /\ commanded = s[2]
  /\ plant \in [Tags -> Values] /\ faulty = {} /\ link = "up" /\ wire = Greeting
  /\ latest = NoItems /\ changed = {} /\ badSent = {} /\ soe = {} /\ asking = FALSE
  /\ step = "read" /\ items = NoItems /\ events = {}
  /\ told = NoItems /\ pushed = {} /\ noted = {}
  /\ upsets = 0

-----------------------------------------------------------------------------
(* The device and the connection.                                           *)

(* Changes of these points come with a time stamp.                          *)
Stamped == IF protocol = "iec104" THEN Discrete ELSE {}

MutantNotify(t, value) ==
  wire' = IF Subscribed /\ link = "up" THEN [wire EXCEPT ![t] = Append(@, value)] ELSE wire

Notify(t, value) ==
  LET n == IF t \in Stamped THEN upsets + 1 ELSE 0
  IN  wire' = IF Subscribed /\ link = "up"
              THEN [wire EXCEPT ![t] = Append(@, [value |-> value, change |-> n])]
              ELSE wire

Upset ==
  /\ upsets < IF commanded THEN MaxUpsetsCommanded ELSE MaxUpsets
  /\ upsets' = upsets + 1

Change(t, value) ==
  /\ Upset
  /\ plant' = [plant EXCEPT ![t] = value]
  /\ Notify(t, value)

PlantChanges ==
  /\ \E t \in Tags, value \in Values : value # plant[t] /\ Change(t, value)
  /\ UNCHANGED <<setting, faulty, link, source, loop, noted>>

(* A register that answers with an error, or does so no more.               *)
FaultChanges ==
  /\ protocol = "poll" /\ Upset
  /\ \E t \in Tags : faulty' = IF t \in faulty THEN faulty \ {t} ELSE faulty \cup {t}
  /\ UNCHANGED <<setting, plant, link, wire, source, loop, noted>>

(* What was on its way is lost with the connection.                         *)
Drop ==
  /\ link = "up" /\ Upset
  /\ link' = "down" /\ wire' = Silence
  /\ UNCHANGED <<setting, plant, faulty, source, loop, noted>>

(* The c104 client reconnects and interrogates (Init.ALL).                  *)
Return ==
  /\ link = "down"
  /\ IF protocol = "iec104" THEN link' = "up" /\ wire' = Greeting
                           ELSE link' = "dead" /\ UNCHANGED wire
  /\ UNCHANGED <<setting, plant, faulty, upsets, source, loop, noted>>

(* datachange_notification, _on_receive: under the source's lock.           *)
Callback ==
  \E t \in Tags :
    /\ wire[t] # <<>>
    /\ LET happened == {Head(wire[t]).change} \ {0}
       IN  soe' = soe \cup happened /\ noted' = noted \cup happened
    /\ latest' = [latest EXCEPT ![t] = Head(wire[t]).value]
    /\ changed' = changed \cup {t}
    /\ wire' = [wire EXCEPT ![t] = Tail(@)]
    /\ UNCHANGED <<setting, plant, faulty, link, upsets, badSent, asking, loop>>

-----------------------------------------------------------------------------
(* Source.read, by protocol.                                                *)

(* Only once the answers to the last are in: a bound on wire.               *)
InterrogationDue ==
  /\ protocol = "iec104" /\ ~asking /\ wire = Silence
  /\ asking' = TRUE
  /\ UNCHANGED <<setting, device, latest, changed, badSent, soe, loop, noted>>

(* _changed is emptied in the same critical section.                        *)
ReadChanged == [t \in Tags |-> IF t \in changed THEN latest[t] ELSE None]

(* A tag that cannot be read is reported bad once.                          *)
MutantReadAll == [t \in Tags |-> IF t \notin faulty THEN plant[t] ELSE None]

(* A register whose answer cannot be decoded, which takes a wrong type in   *)
(* the configuration, fails the whole read; that is left out.               *)
ReadAll ==
  [t \in Tags |-> IF t \notin faulty THEN plant[t]
                  ELSE IF t \notin badSent THEN Bad ELSE None]

Readable == link = "up" \/ (protocol = "poll" /\ link = "dead")

(* read() returns Got.                                                      *)
Got == IF Subscribed THEN ReadChanged ELSE ReadAll

Read ==
  /\ Readable
  /\ changed' = {}
  /\ link' = "up"
  /\ wire' = IF asking THEN [t \in Tags |-> wire[t] \o Snapshot[t]] ELSE wire
  /\ asking' = FALSE
  /\ UNCHANGED latest

(* read() raises.  The OPC UA source tries to replace its session first.    *)
ReadRaises ==
  /\ ~Readable
  /\ latest' = IF protocol = "opcua" THEN NoItems ELSE latest
  /\ IF link = "dead" THEN link' = "up" /\ wire' = Greeting
                      ELSE UNCHANGED <<link, wire>>
  /\ UNCHANGED <<changed, asking>>

Marked(got) == badSent \cup {t \in Tags : got[t] = Bad}

-----------------------------------------------------------------------------
(* The main loop.                                                           *)

(* A good item takes the mark off.                                          *)
MutantUnmarked(marks, got) == marks

Unmarked(marks, got) == {t \in marks : got[t] \in {None, Bad}}

ReadSafe ==
  /\ step = "read" /\ step' = "copy"
  /\ Read /\ items' = Got
  /\ badSent' = Unmarked(Marked(Got), Got)
  /\ UNCHANGED <<setting, plant, faulty, upsets, soe, events, told, pushed, noted>>

ReadSafeRaised ==
  /\ step = "read" /\ step' = "copy"
  /\ ReadRaises
  /\ items' = [t \in Tags |-> IF t \in badSent THEN None ELSE Bad]
  /\ badSent' = Tags
  /\ UNCHANGED <<setting, plant, faulty, upsets, soe, events, told, pushed, noted>>

(* The list is copied, then cleared, without the lock the callback takes.   *)
CopyEvents ==
  /\ step = "copy"
  /\ events' = soe
  /\ step' = IF soe = {} THEN "push" ELSE "clear"
  /\ UNCHANGED <<setting, device, source, items, told, pushed, noted>>

ClearEvents ==
  /\ step = "clear" /\ step' = "push"
  /\ soe' = {}
  /\ UNCHANGED <<setting, device, latest, changed, badSent, asking, items, events, told, pushed, noted>>

(* Pusher.push: from here on the rows are on disk, see Pusher.              *)
Push ==
  /\ step = "push"
  /\ told' = [t \in Tags |-> IF items[t] = None THEN told[t] ELSE items[t]]
  /\ pushed' = pushed \cup events
  /\ items' = NoItems /\ events' = {}
  /\ step' = IF commanded THEN "command" ELSE "read"
  /\ UNCHANGED <<setting, device, source, noted>>

(* Commander.run_once: nothing to do, or a command is written, which the    *)
(* plant reports like any other change.                                     *)
NoCommand ==
  /\ step = "command" /\ step' = "read"
  /\ UNCHANGED <<setting, device, source, items, events, told, pushed, noted>>

Command ==
  /\ step = "command" /\ step' = "readback"
  /\ link = "up"
  /\ \E t \in Tags \ faulty, value \in Values : Change(t, value)
  /\ UNCHANGED <<setting, faulty, link, source, items, events, told, pushed, noted>>

(* Commander._readback calls read() itself and keeps one tag's item.        *)
Readback ==
  /\ step = "readback" /\ step' = "read"
  /\ \/ Read /\ badSent' = Marked(Got)
     \/ ReadRaises /\ UNCHANGED badSent
  /\ UNCHANGED <<setting, plant, faulty, upsets, soe, items, events, told, pushed, noted>>

(* The process ends and is started again.                                   *)
Restart ==
  /\ Upset
  /\ link' = "up" /\ wire' = Greeting
  /\ latest' = NoItems /\ changed' = {} /\ badSent' = {} /\ soe' = {} /\ asking' = FALSE
  /\ step' = "read" /\ items' = NoItems /\ events' = {} /\ noted' = pushed
  /\ UNCHANGED <<setting, plant, faulty, told, pushed>>

MainLoop ==
  \/ ReadSafe \/ ReadSafeRaised \/ CopyEvents \/ ClearEvents \/ Push
  \/ NoCommand \/ Command \/ Readback

Next ==
  \/ PlantChanges \/ FaultChanges \/ Drop \/ Return
  \/ Callback \/ InterrogationDue \/ MainLoop \/ Restart

Spec == Init /\ [][Next]_vars

(* The loop runs every interval_s, the library runs its callbacks, time     *)
(* passes, and a lost connection comes back.                                *)
FairSpec ==
  /\ Spec
  /\ WF_vars(MainLoop) /\ WF_vars(Callback)
  /\ WF_vars(InterrogationDue) /\ WF_vars(Return)

-----------------------------------------------------------------------------
(* Properties.                                                              *)

Item == Values \cup {Bad, None}

Notification == [value : Values, change : 0..MaxUpsets]

TypeOK ==
  /\ setting \in Settings
  /\ plant \in [Tags -> Values] /\ faulty \subseteq Tags
  /\ link \in {"up", "down", "dead"}
  /\ wire \in [Tags -> Seq(Notification)]
  /\ latest \in [Tags -> Values \cup {None}]
  /\ changed \subseteq Tags /\ badSent \subseteq Tags /\ asking \in BOOLEAN
  /\ step \in {"read", "copy", "clear", "push", "command", "readback"}
  /\ items \in [Tags -> Item] /\ told \in [Tags -> Item]
  /\ soe \cup events \cup pushed \cup noted \subseteq 1..MaxUpsets
  /\ upsets \in 0..MaxUpsets

(* What the server will have been told of a tag when everything that the    *)
(* gateway knows of it has gone through.                                    *)
News(t) ==
  IF wire[t] # <<>> THEN wire[t][Len(wire[t])].value
  ELSE IF t \in changed THEN latest[t]
  ELSE IF items[t] # None THEN items[t]
  ELSE told[t]

(* README of the gateway: with a subscription a change comes sooner than    *)
(* the next poll, and nothing is sent that did not change.  That is enough  *)
(* only if no change is ever dropped: while the session lives, the newest   *)
(* thing on its way about a tag is its value.  Not so with commands, whose  *)
(* read-back drops changes: see Converges and the README.                   *)
NewsIsCurrent ==
  Subscribed /\ ~commanded /\ link = "up" => \A t \in Tags : News(t) = plant[t]

(* README of the gateway: a read error is reported as bad quality once per  *)
(* tag.  Once is enough only if it does arrive: of a tag that counts as     *)
(* reported bad, the last thing pushed, or about to be, is bad.             *)
BadIsTold ==
  \A t \in badSent : IF items[t] # None THEN items[t] = Bad ELSE told[t] = Bad

(* Pusher.push: events are not lost.  Every event the source took note of   *)
(* is in its list, in the loop's hands, or pushed.                          *)
EventsKept == noted \subseteq soe \cup events \cup pushed

(* Changes, faults and lost connections over, the server comes to know the  *)
(* value of every tag that can be read, and that the others cannot.         *)
Converges ==
  <>[](\A t \in Tags : told[t] = IF t \in faulty THEN Bad ELSE plant[t])
=============================================================================
