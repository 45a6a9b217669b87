------------------------------- MODULE Pusher -------------------------------
(***************************************************************************)
(* Store and forward in the field gateway: Spool and Pusher of             *)
(* deploy/gateway/ges_gateway.py, with the server's answers.               *)
(*                                                                         *)
(* Every cycle of the main loop pushes what it collected: the rows go to   *)
(* an SQLite queue, then up to MaxBatches batches of the oldest rows are   *)
(* sent, events (SOE) before readings, each kind in one request that the   *)
(* server may make the pusher cut in two, again and again.  The queue      *)
(* survives a crash, what is in memory does not.                           *)
(***************************************************************************)
EXTENDS Integers, Sequences, FiniteSets

CONSTANTS
  MaxRows,     \* spool_max_rows
  Policies,    \* values of spool_overflow: "drop_oldest", "stop"
  BatchSize,   \* batch_size
  MaxBatches,  \* max_batches_per_cycle
  MaxBody,     \* rows the server takes in one request (413 above it)
  MaxAdded,    \* bound on the rows ever offered
  PerCycle,    \* bound on the rows of one cycle
  MaxCrashes   \* bound on restarts

ASSUME PusherAssumption ==
  /\ MaxRows \in Nat /\ BatchSize \in Nat \ {0}
  /\ MaxBatches \in Nat /\ MaxBody \in Nat \ {0}
  /\ MaxAdded \in Nat /\ PerCycle \in Nat /\ MaxCrashes \in Nat
  /\ Policies \subseteq {"drop_oldest", "stop"}

VARIABLES
  overflow,    \* spool_overflow of this gateway, for ever
  picky,       \* whether the server answers valid rows with another 4xx, too
  spool,       \* the rows on disk
  added,       \* rows offered so far; numbers them in order of arrival
  left,        \* batches this flush may still take; 0 between flushes
  work,        \* pieces of the batch still to send, in order
  backoff,     \* next_try lies ahead
  up,          \* the server can be reached
  crashes,     \* restarts so far
  stored,      \* rows of pieces the server answered with 2xx (history)
  heard,       \* rows whose answer, good or final, the pusher heard (history)
  overflowed,  \* rows dropped by the spool (history)
  refused      \* rows dropped on the server's word (history)

vars == <<overflow, picky, spool, added, left, work, backoff, up, crashes, stored, heard, overflowed, refused>>

(* n is not in the code: ids start again when the highest row is deleted,   *)
(* as INTEGER PRIMARY KEY does without AUTOINCREMENT.                       *)
Row == [id : Nat \ {0}, n : 1..MaxAdded, soe : BOOLEAN, bad : BOOLEAN]

Numbers(rows) == {r.n : r \in rows}

Pieces == {work[i] : i \in DOMAIN work}

Init ==
  /\ overflow \in Policies /\ picky \in BOOLEAN
  /\ spool = {} /\ added = 0
  /\ left = 0 /\ work = <<>> /\ backoff = FALSE /\ up \in BOOLEAN
  /\ crashes = 0 /\ stored = {} /\ heard = {} /\ overflowed = {} /\ refused = {}

-----------------------------------------------------------------------------
(* Spool.add                                                                *)

(* The next row id is one more than the highest in the table.               *)
IsTop(id) ==
  /\ id \in {0} \cup {r.id : r \in spool}
  /\ \A r \in spool : r.id <= id

(* Definitions named Mutant... are plausible bugs in the definition that    *)
(* follows them; no specification uses them.                                *)

MutantNewRows(top, readings, events, bad) ==
  {[id |-> top + i - 1, n |-> added + i, soe |-> i > readings, bad |-> i \in bad] :
     i \in 1..(readings + events)}

(* Readings are followed by the events of the cycle.                        *)
NewRows(top, readings, events, bad) ==
  {[id |-> top + i, n |-> added + i, soe |-> i > readings, bad |-> i \in bad] :
     i \in 1..(readings + events)}

(* The given number of rows with the lowest ids.                            *)
Oldest(rows, number) ==
  {old \in SUBSET rows :
     /\ Cardinality(old) = number
     /\ \A r \in old, s \in rows \ old : r.id < s.id}

MutantExcess(offered) == Cardinality(spool) + Cardinality(offered) - MaxRows - 1

Excess(offered) == Cardinality(spool) + Cardinality(offered) - MaxRows

Add(offered) ==
  \/ /\ overflow = "stop" /\ Excess(offered) > 0
     /\ overflowed' = overflowed \cup Numbers(offered)
     /\ UNCHANGED spool
  \/ /\ Excess(offered) <= 0
     /\ spool' = spool \cup offered
     /\ UNCHANGED overflowed
  \/ /\ overflow = "drop_oldest" /\ Excess(offered) > 0
     /\ \E old \in Oldest(spool \cup offered, Excess(offered)) :
          /\ spool' = (spool \cup offered) \ old
          /\ overflowed' = overflowed \cup Numbers(old)

(* Pusher.push, up to flush; flush returns at once before next_try.         *)
Push ==
  /\ left = 0 /\ work = <<>>
  /\ \E readings, events \in 0..PerCycle :
     \E top \in {0} \cup {r.id : r \in spool}, bad \in SUBSET (1..(readings + events)) :
       /\ IsTop(top)
       /\ readings + events <= PerCycle /\ added + readings + events <= MaxAdded
       /\ Add(NewRows(top, readings, events, bad))
       /\ added' = added + readings + events
  /\ left' = IF backoff THEN 0 ELSE MaxBatches
  /\ UNCHANGED <<overflow, picky, work, backoff, up, crashes, stored, heard, refused>>

-----------------------------------------------------------------------------
(* Pusher.flush and Pusher._send                                            *)

(* No request is made for an empty piece.                                   *)
Piece(rows) == IF rows = {} THEN <<>> ELSE <<rows>>

(* Spool.batch; an empty table ends the flush.                              *)
Load ==
  /\ left > 0 /\ work = <<>>
  /\ \/ /\ spool = {}
        /\ left' = 0
        /\ UNCHANGED work
     \/ /\ spool # {}
        /\ \E batch \in Oldest(spool, IF Cardinality(spool) < BatchSize
                                      THEN Cardinality(spool) ELSE BatchSize) :
             work' = Piece({r \in batch : r.soe}) \o Piece({r \in batch : ~r.soe})
        /\ left' = left - 1
  /\ UNCHANGED <<overflow, picky, spool, added, backoff, up, crashes, stored, heard, overflowed, refused>>

MutantSettle(rows) == spool' = spool \ UNION Pieces /\ heard' = heard \cup Numbers(rows)

(* Spool.ack                                                                *)
Settle(rows) == spool' = spool \ rows /\ heard' = heard \cup Numbers(rows)

(* RequestException: the rest of the batch stays in the spool.              *)
GiveUp == work' = <<>> /\ left' = 0 /\ backoff' = TRUE

(* The server validates a request as a whole (422) and limits it (413).     *)
Unfit(piece) == Cardinality(piece) > MaxBody \/ \E r \in piece : r.bad

MutantSplits(piece) == FALSE

MutantSplitsAlways(piece) == Cardinality(piece) > 0

Splits(piece) == Cardinality(piece) > 1

MutantHalves(low, high) == <<high, low>>

MutantOverlap(low, high) == <<low, low \cup high>>

Halves(low, high) == <<low, high>>

(* 2xx: the piece is done with.  Records that the answer lists as rejected  *)
(* or unknown are logged, and count as stored here.                         *)
Accepted ==
  /\ work # <<>> /\ up /\ ~Unfit(Head(work))
  /\ stored' = stored \cup Numbers(Head(work))
  /\ Settle(Head(work))
  /\ work' = Tail(work)
  /\ UNCHANGED <<overflow, picky, added, left, backoff, up, crashes, overflowed, refused>>

(* 413 or 422 on more than one row                                          *)
Split ==
  /\ work # <<>> /\ up /\ Unfit(Head(work)) /\ Splits(Head(work))
  /\ \E low \in Oldest(Head(work), Cardinality(Head(work)) \div 2) :
       work' = Halves(low, Head(work) \ low) \o Tail(work)
  /\ UNCHANGED <<overflow, picky, spool, added, left, backoff, up, crashes, stored, heard, overflowed, refused>>

(* 413 or 422 on a single row, or another 4xx on any piece                  *)
Refused ==
  /\ work # <<>> /\ up
  /\ \/ Unfit(Head(work)) /\ ~Splits(Head(work))
     \/ ~Unfit(Head(work)) /\ picky
  /\ refused' = refused \cup Numbers(Head(work))
  /\ Settle(Head(work))
  /\ work' = Tail(work)
  /\ UNCHANGED <<overflow, picky, added, left, backoff, up, crashes, stored, overflowed>>

(* No connection, 5xx, 401, 403, 408, 429: nothing stored.  Or the server   *)
(* stored the rows and its answer never came.                               *)
Fail ==
  /\ work # <<>> /\ ~up
  /\ \/ UNCHANGED stored
     \/ ~Unfit(Head(work)) /\ stored' = stored \cup Numbers(Head(work))
  /\ GiveUp
  /\ UNCHANGED <<overflow, picky, spool, added, up, crashes, heard, overflowed, refused>>

(* The wait is over.                                                        *)
RetryDue ==
  /\ backoff
  /\ backoff' = FALSE
  /\ UNCHANGED <<overflow, picky, spool, added, left, work, up, crashes, stored, heard, overflowed, refused>>

Crash ==
  /\ crashes < MaxCrashes /\ crashes' = crashes + 1
  /\ work' = <<>> /\ left' = 0 /\ backoff' = FALSE
  /\ UNCHANGED <<overflow, picky, spool, added, up, stored, heard, overflowed, refused>>

Network ==
  /\ up' = ~up
  /\ UNCHANGED <<overflow, picky, spool, added, left, work, backoff, crashes, stored, heard, overflowed, refused>>

Next ==
  \/ Push \/ Load \/ Accepted \/ Split \/ Refused \/ Fail
  \/ RetryDue \/ Crash \/ Network

Spec == Init /\ [][Next]_vars

(* The main loop goes on pushing, empty-handed too; a request ends, by its  *)
(* timeout at the latest; the wait before a retry is at most 300 s.         *)
Fairness ==
  /\ WF_vars(Push)
  /\ WF_vars(Load)
  /\ WF_vars(Accepted \/ Split \/ Refused \/ Fail)
  /\ WF_vars(RetryDue)

FairSpec == Spec /\ Fairness

-----------------------------------------------------------------------------
(* Properties.                                                              *)

TypeOK ==
  /\ overflow \in Policies /\ picky \in BOOLEAN
  /\ spool \subseteq Row
  /\ added \in 0..MaxAdded
  /\ left \in 0..MaxBatches
  /\ work \in Seq(SUBSET Row)
  /\ backoff \in BOOLEAN /\ up \in BOOLEAN
  /\ crashes \in 0..MaxCrashes
  /\ stored \subseteq 1..added
  /\ heard \subseteq 1..added
  /\ overflowed \subseteq 1..added
  /\ refused \subseteq 1..added

(* Pusher.push: what was collected is not lost in an outage or a restart.   *)
(* Every row ever offered is on disk, with the server, or was given up for  *)
(* one of the two reasons the pusher logs: no room, or the server's word.   *)
NothingVanishes ==
  1..added = Numbers(spool) \cup stored \cup overflowed \cup refused

(* spool_max_rows bounds the disk whatever the size of one cycle's rows.    *)
SpoolBounded == Cardinality(spool) <= MaxRows

(* Pusher: pieces sent or dropped are deleted at once and not sent again.   *)
(* A piece that waits to be sent holds only rows still on disk whose answer *)
(* nobody heard.  (A row whose answer was lost is sent again.)              *)
NotSentAgain ==
  \A piece \in Pieces : \A r \in piece : r \in spool /\ r.n \notin heard

(* README of the gateway: the oldest first.  When a row first reaches the   *)
(* server every older row of its kind is there already, or was given up:    *)
(* neither a retry, nor a cut, nor a reused row id lets a row overtake.     *)
OldestFirst ==
  [][\A r, s \in spool :
       r.n < s.n /\ r.soe = s.soe /\ s.n \in stored' \ stored => r.n \in stored' \cup refused']_vars

(* Pusher._send: of a refused request only the invalid rows are dropped,    *)
(* however large it was and wherever in it they were, as long as the server *)
(* has no other reason to refuse.                                           *)
OnlyBadRefused ==
  [][~picky => \A r \in spool : r.n \in refused' \ refused => r.bad]_vars

(* Pusher: an invalid row does not hold up the spool for ever.  Once the    *)
(* server can be reached for good, the spool is emptied.                    *)
Drains == <>[]up => <>[](spool = {})

=============================================================================
