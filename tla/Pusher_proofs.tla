--------------------------- MODULE Pusher_proofs ---------------------------
(***************************************************************************)
(* Theorems about Pusher, for every size of the spool, of a batch, of a    *)
(* request and of a cycle, and both overflow policies.                     *)
(***************************************************************************)
EXTENDS Pusher, TLAPS, SequenceTheorems, FiniteSetTheorems

-----------------------------------------------------------------------------
(* The rows of one cycle, and their place after what is on disk.            *)

Ranked(rows) ==
  \A r, s \in rows : (r.n < s.n => r.id < s.id) /\ (r.n = s.n => r = s)

LEMMA NewRowsFacts ==
  ASSUME NEW top \in Nat, added \in Nat, NEW readings \in Nat, NEW events \in Nat,
         added + readings + events <= MaxAdded, NEW bad
  PROVE  LET offered == NewRows(top, readings, events, bad)
         IN  /\ offered \subseteq Row
             /\ \A r \in offered : r.n > added /\ r.id > top
             /\ Numbers(offered) = (added + 1)..(added + readings + events)
             /\ Ranked(offered)
<1> DEFINE offered == NewRows(top, readings, events, bad)
           row(i) == [id |-> top + i, n |-> added + i, soe |-> i > readings, bad |-> i \in bad]
<1>1. offered = {row(i) : i \in 1..(readings + events)}
  BY DEF NewRows
<1>2. \A i \in 1..(readings + events) : row(i) \in Row
  BY PusherAssumption DEF Row
<1>3. \A r \in offered : \E i \in 1..(readings + events) : r = row(i) /\ r.n = added + i /\ r.id = top + i
  BY <1>1
<1>4. Numbers(offered) = {added + i : i \in 1..(readings + events)}
  <2>1. \A i \in 1..(readings + events) : row(i) \in offered /\ row(i).n = added + i
    BY <1>1
  <2> HIDE DEF offered, row
  <2>2. \A i \in 1..(readings + events) : added + i \in Numbers(offered)
    BY <2>1 DEF Numbers
  <2>3. \A m \in Numbers(offered) : \E i \in 1..(readings + events) : m = added + i
    BY <1>3 DEF Numbers
  <2> QED
    BY <2>2, <2>3
<1>5. {added + i : i \in 1..(readings + events)} = (added + 1)..(added + readings + events)
  <2>1. ASSUME NEW m \in (added + 1)..(added + readings + events)
        PROVE  \E i \in 1..(readings + events) : m = added + i
    <3>1. m - added \in 1..(readings + events) /\ m = added + (m - added)
      BY <2>1
    <3> QED
      BY <3>1
  <2> QED
    BY <2>1
<1>6. offered \subseteq Row /\ \A r \in offered : r.n > added /\ r.id > top
  BY <1>2, <1>3
<1>7. Ranked(offered)
  BY <1>3 DEF Ranked
<1> QED
  BY <1>4, <1>5, <1>6, <1>7

LEMMA IsTopType ==
  ASSUME TypeOK, NEW top \in {0} \cup {r.id : r \in spool}
  PROVE  top \in Nat
BY DEF TypeOK, Row

LEMMA NewRowsFinite ==
  ASSUME NEW top, NEW readings \in Nat, NEW events \in Nat, NEW bad
  PROVE  IsFiniteSet(NewRows(top, readings, events, bad))
<1> DEFINE offered == NewRows(top, readings, events, bad)
           f == [i \in 1..(readings + events) |->
                  [id |-> top + i, n |-> added + i, soe |-> i > readings, bad |-> i \in bad]]
<1>1. f \in Surjection(1..(readings + events), offered)
  BY DEF NewRows, Surjection
<1>2. IsFiniteSet(1..(readings + events))
  BY FS_Interval
<1> QED
  BY <1>1, <1>2, FS_Surjection

(* What Oldest picks from ranked rows is closed under "came before".        *)
LEMMA OldestFacts ==
  ASSUME NEW rows \in SUBSET Row, Ranked(rows), NEW number, NEW old \in Oldest(rows, number)
  PROVE  /\ old \subseteq rows
         /\ \A r \in rows, s \in old : r.n < s.n => r \in old
BY DEF Oldest, Ranked, Row

-----------------------------------------------------------------------------
(* The pieces that wait: rows on disk, each in one piece only, and none     *)
(* before an older row of its kind.                                         *)

Waiting(pieces, rows) ==
  /\ pieces \in Seq(SUBSET rows)
  /\ \A i, j \in DOMAIN pieces : i # j => pieces[i] \cap pieces[j] = {}
  /\ \A i \in DOMAIN pieces : \A s \in pieces[i], r \in rows :
       r.soe = s.soe /\ r.n < s.n => \E j \in 1..i : r \in pieces[j]

LEMMA NoneWaiting ==
  ASSUME NEW rows
  PROVE  Waiting(<<>>, rows)
BY EmptySeq DEF Waiting

LEMMA PieceFacts ==
  ASSUME NEW S, NEW rows \in SUBSET S
  PROVE  /\ Piece(rows) \in Seq(SUBSET S)
         /\ Len(Piece(rows)) \in {0, 1}
         /\ \A i \in 1..Len(Piece(rows)) : Piece(rows)[i] = rows
<1>1. CASE rows = {}
  BY <1>1, EmptySeq DEF Piece
<1>2. CASE rows # {}
  <2>1. Piece(rows) = <<rows>>
    BY <1>2 DEF Piece
  <2>2. <<rows>> \in Seq(SUBSET S) /\ Len(<<rows>>) = 1 /\ <<rows>>[1] = rows
    OBVIOUS
  <2> QED
    BY <2>1, <2>2
<1> QED
  BY <1>1, <1>2

(* Spool.batch, split by kind.                                              *)
LEMMA LoadWaiting ==
  ASSUME NEW rows \in SUBSET Row, Ranked(rows), NEW number, NEW batch \in Oldest(rows, number)
  PROVE  Waiting(Piece({r \in batch : r.soe}) \o Piece({r \in batch : ~r.soe}), rows)
<1> DEFINE one == {r \in batch : r.soe}
           two == {r \in batch : ~r.soe}
           pieces == Piece(one) \o Piece(two)
<1>1. /\ batch \subseteq rows
      /\ \A r \in rows, s \in batch : r.n < s.n => r \in batch
  BY OldestFacts
<1>2. one \in SUBSET rows /\ two \in SUBSET rows /\ one \cap two = {}
  BY <1>1
<1>3. \A part \in {one, two} : \A s \in part, r \in rows :
        r.soe = s.soe /\ r.n < s.n => r \in part
  BY <1>1 DEF Row
<1> HIDE DEF one, two
<1> DEFINE first == Piece(one)
           second == Piece(two)
<1>3a. /\ first \in Seq(SUBSET rows) /\ Len(first) \in {0, 1}
       /\ \A i \in 1..Len(first) : first[i] = one
  BY <1>2, PieceFacts
<1>3b. /\ second \in Seq(SUBSET rows) /\ Len(second) \in {0, 1}
       /\ \A i \in 1..Len(second) : second[i] = two
  BY <1>2, PieceFacts
<1>3c. pieces = first \o second
  OBVIOUS
<1> HIDE DEF first, second, pieces
<1>4. /\ pieces \in Seq(SUBSET rows)
      /\ Len(pieces) = Len(first) + Len(second)
      /\ \A i \in 1..(Len(first) + Len(second)) :
           pieces[i] = IF i <= Len(first) THEN first[i] ELSE second[i - Len(first)]
  BY <1>3a, <1>3b, <1>3c, ConcatProperties
<1>5. \A i \in 1..Len(pieces) : pieces[i] = IF i <= Len(first) THEN one ELSE two
  <2>1. ASSUME NEW i \in 1..Len(pieces), i <= Len(first)
        PROVE  pieces[i] = one
    BY <2>1, <1>3a, <1>3b, <1>4
  <2>2. ASSUME NEW i \in 1..Len(pieces), ~(i <= Len(first))
        PROVE  pieces[i] = two
    <3>1. i - Len(first) \in 1..Len(second)
      BY <2>2, <1>3a, <1>3b, <1>4
    <3> QED
      BY <3>1, <2>2, <1>3a, <1>3b, <1>4
  <2> QED
    BY <2>1, <2>2
<1>6. \A i, j \in 1..Len(pieces) : i # j => pieces[i] \cap pieces[j] = {}
  <2>1. \A i, j \in 1..Len(pieces) : i < j => i <= Len(first) /\ ~(j <= Len(first))
    BY <1>3a, <1>3b, <1>4
  <2>2. \A i, j \in 1..Len(pieces) : i < j => pieces[i] = one /\ pieces[j] = two
    BY <2>1, <1>5
  <2>3. \A i, j \in 1..Len(pieces) : i # j => i < j \/ j < i
    BY <1>3a, <1>3b, <1>4
  <2> QED
    BY <2>2, <2>3, <1>2
<1>7. DOMAIN pieces = 1..Len(pieces)
  BY <1>4, LenProperties
<1>8. ASSUME NEW i \in 1..Len(pieces), NEW s \in pieces[i], NEW r \in rows,
             r.soe = s.soe, r.n < s.n
      PROVE  \E j \in 1..i : r \in pieces[j]
  <2>1. r \in pieces[i] /\ i \in 1..i
    BY <1>3, <1>5, <1>8
  <2> QED
    BY <2>1
<1> QED
  BY <1>4, <1>6, <1>7, <1>8 DEF Waiting, pieces, one, two

(* The first piece was taken, or dropped, and deleted.                      *)
LEMMA SettledWaiting ==
  ASSUME NEW rows, NEW pieces, Waiting(pieces, rows), pieces # <<>>
  PROVE  /\ Head(pieces) \subseteq rows
         /\ Waiting(Tail(pieces), rows \ Head(pieces))
<1> DEFINE rest == Tail(pieces)
           left_over == rows \ Head(pieces)
<1>1. pieces \in Seq(SUBSET rows) /\ DOMAIN pieces = 1..Len(pieces) /\ Len(pieces) \in Nat \ {0}
  BY LenProperties, EmptySeq DEF Waiting
<1>2. /\ rest \in Seq(SUBSET rows) /\ Len(rest) = Len(pieces) - 1
      /\ DOMAIN rest = 1..Len(rest)
      /\ \A i \in 1..Len(rest) : rest[i] = pieces[i + 1] /\ i + 1 \in 1..Len(pieces)
      /\ Head(pieces) = pieces[1] /\ 1 \in 1..Len(pieces) /\ Head(pieces) \subseteq rows
  BY <1>1, HeadTailProperties, LenProperties
<1>3. \A i \in 1..Len(rest) : rest[i] \in SUBSET left_over
  BY <1>1, <1>2, ElementOfSeq DEF Waiting
<1>4. rest \in Seq(SUBSET left_over)
  <2>1. rest \in [1..Len(rest) -> SUBSET left_over] /\ Len(rest) \in Nat
    BY <1>1, <1>2, <1>3, LenProperties
  <2> QED
    BY <2>1, SeqDef
<1>5. \A i, j \in 1..Len(rest) : i # j => rest[i] \cap rest[j] = {}
  BY <1>1, <1>2 DEF Waiting
<1>6. ASSUME NEW i \in 1..Len(rest), NEW s \in rest[i], NEW r \in left_over,
             r.soe = s.soe, r.n < s.n
      PROVE  \E j \in 1..i : r \in rest[j]
  <2>1. PICK k \in 1..(i + 1) : r \in pieces[k]
    BY <1>1, <1>2, <1>6 DEF Waiting
  <2>2. k # 1
    BY <1>2, <2>1
  <2>3. k - 1 \in 1..i /\ k - 1 \in 1..Len(rest) /\ rest[k - 1] = pieces[k]
    BY <1>1, <1>2, <2>2
  <2> QED
    BY <2>1, <2>3
<1> QED
  BY <1>2, <1>4, <1>5, <1>6 DEF Waiting

(* The first piece is cut in two.                                           *)
LEMMA SplitWaiting ==
  ASSUME NEW rows \in SUBSET Row, Ranked(rows), NEW pieces, Waiting(pieces, rows), pieces # <<>>,
         NEW number, NEW low \in Oldest(Head(pieces), number)
  PROVE  Waiting(Halves(low, Head(pieces) \ low) \o Tail(pieces), rows)
<1> DEFINE high == Head(pieces) \ low
           rest == Tail(pieces)
           two == <<low, high>>
           cut == two \o rest
<1>1. pieces \in Seq(SUBSET rows) /\ DOMAIN pieces = 1..Len(pieces) /\ Len(pieces) \in Nat \ {0}
  BY LenProperties, EmptySeq DEF Waiting
<1>2. /\ rest \in Seq(SUBSET rows) /\ Len(rest) = Len(pieces) - 1
      /\ \A i \in 1..Len(rest) : rest[i] = pieces[i + 1]
      /\ Head(pieces) = pieces[1] /\ 1 \in 1..Len(pieces) /\ Head(pieces) \in SUBSET rows
  BY <1>1, HeadTailProperties, LenProperties
<1>3. Ranked(Head(pieces)) /\ Head(pieces) \in SUBSET Row
  BY <1>2 DEF Ranked
<1>4. low \subseteq Head(pieces) /\ \A r \in Head(pieces), s \in low : r.n < s.n => r \in low
  BY <1>3, OldestFacts
<1>5. two \in Seq(SUBSET rows) /\ Len(two) = 2 /\ two[1] = low /\ two[2] = high
  BY <1>2, <1>4
<1> HIDE DEF high, rest, two
<1>6. /\ cut \in Seq(SUBSET rows) /\ Len(cut) = Len(pieces) + 1 /\ DOMAIN cut = 1..Len(cut)
      /\ \A i \in 1..(2 + Len(rest)) : cut[i] = IF i <= 2 THEN two[i] ELSE rest[i - 2]
  <2>1. /\ cut \in Seq(SUBSET rows)
        /\ Len(cut) = Len(two) + Len(rest)
        /\ \A i \in 1..(Len(two) + Len(rest)) : cut[i] = IF i <= Len(two) THEN two[i] ELSE rest[i - Len(two)]
    BY <1>2, <1>5, ConcatProperties
  <2> HIDE DEF cut
  <2>2. Len(cut) = Len(pieces) + 1 /\ Len(two) = 2
    BY <2>1, <1>1, <1>2, <1>5
  <2>3. DOMAIN cut = 1..Len(cut)
    BY <2>1, LenProperties
  <2> QED
    BY <2>1, <2>2, <2>3
<1> HIDE DEF cut
<1>7. /\ cut[1] = low /\ cut[2] = high
      /\ \A i \in 3..Len(cut) : i - 1 \in 2..Len(pieces) /\ cut[i] = pieces[i - 1]
  <2>1. ASSUME NEW i \in 3..Len(cut)
        PROVE  i - 1 \in 2..Len(pieces) /\ cut[i] = pieces[i - 1]
    <3>1. /\ i - 2 \in 1..Len(rest) /\ i \in 1..(2 + Len(rest)) /\ ~(i <= 2) /\ (i - 2) + 1 = i - 1
          /\ i - 1 \in 2..Len(pieces)
      BY <1>1, <1>2, <1>6
    <3>2. cut[i] = rest[i - 2]
      BY <3>1, <1>6
    <3>3. rest[i - 2] = pieces[(i - 2) + 1]
      BY <3>1, <1>2
    <3> QED
      BY <3>1, <3>2, <3>3
  <2>2. 1 \in 1..(2 + Len(rest)) /\ 2 \in 1..(2 + Len(rest))
    BY <1>1, <1>2
  <2> QED
    BY <2>1, <2>2, <1>5, <1>6
<1>8. low \cap high = {} /\ low \cup high = pieces[1] /\ high \subseteq pieces[1]
  BY <1>2, <1>4 DEF high
<1>9. \A i \in 2..Len(pieces) : pieces[1] \cap pieces[i] = {}
  BY <1>1 DEF Waiting
<1>10. \A i, j \in 1..Len(cut) : i # j => cut[i] \cap cut[j] = {}
  <2>1. ASSUME NEW i \in 1..Len(cut), NEW j \in 1..Len(cut), i < j
        PROVE  cut[i] \cap cut[j] = {}
    <3>1. CASE i = 1 /\ j = 2
      BY <3>1, <1>7, <1>8
    <3>2. CASE i \in {1, 2} /\ j >= 3
      <4>1. j - 1 \in 2..Len(pieces) /\ cut[j] = pieces[j - 1]
        BY <3>2, <1>1, <1>6, <1>7
      <4>2. cut[i] \subseteq pieces[1]
        BY <3>2, <1>7, <1>8
      <4> QED
        BY <4>1, <4>2, <1>9
    <3>3. CASE i >= 3
      <4>1. /\ i - 1 \in 1..Len(pieces) /\ cut[i] = pieces[i - 1]
            /\ j - 1 \in 1..Len(pieces) /\ cut[j] = pieces[j - 1] /\ i - 1 # j - 1
        BY <2>1, <3>3, <1>1, <1>6, <1>7
      <4> QED
        BY <4>1, <1>1 DEF Waiting
    <3> QED
      BY <2>1, <3>1, <3>2, <3>3, <1>1, <1>6
  <2>2. \A i, j \in 1..Len(cut) : i # j => i < j \/ j < i
    BY <1>1, <1>6
  <2> QED
    BY <2>1, <2>2
<1>11. ASSUME NEW i \in 1..Len(cut), NEW s \in cut[i], NEW r \in rows,
              r.soe = s.soe, r.n < s.n
       PROVE  \E j \in 1..i : r \in cut[j]
  <2>1. CASE i = 1
    <3>1. s \in pieces[1] /\ 1 \in DOMAIN pieces
      BY <2>1, <1>1, <1>7, <1>8, <1>11
    <3>2. r \in pieces[1]
      BY <3>1, <1>11 DEF Waiting
    <3>3. r \in low
      BY <2>1, <3>2, <1>2, <1>4, <1>7, <1>11
    <3> QED
      BY <2>1, <3>3, <1>7
  <2>2. CASE i = 2
    <3>1. s \in pieces[1] /\ 1 \in DOMAIN pieces
      BY <2>2, <1>1, <1>7, <1>8, <1>11
    <3>2. r \in pieces[1]
      BY <3>1, <1>11 DEF Waiting
    <3>3. r \in cut[1] \/ r \in cut[2]
      BY <3>2, <1>7, <1>8
    <3>4. 1 \in 1..i /\ 2 \in 1..i
      BY <2>2
    <3> QED
      BY <3>3, <3>4
  <2>3. CASE i >= 3
    <3>1. i - 1 \in 1..Len(pieces) /\ cut[i] = pieces[i - 1]
      BY <2>3, <1>1, <1>6, <1>7
    <3>2. PICK k \in 1..(i - 1) : r \in pieces[k]
      BY <3>1, <1>1, <1>11 DEF Waiting
    <3>3. CASE k = 1
      <4>1. r \in cut[1] \/ r \in cut[2]
        BY <3>2, <3>3, <1>7, <1>8
      <4>2. 1 \in 1..i /\ 2 \in 1..i
        BY <2>3
      <4> QED
        BY <4>1, <4>2
    <3>4. CASE k # 1
      <4>1. k + 1 \in 3..Len(cut) /\ k + 1 \in 1..i /\ (k + 1) - 1 = k
        BY <2>3, <3>1, <3>2, <3>4, <1>1, <1>6
      <4> QED
        BY <4>1, <3>2, <1>7
    <3> QED
      BY <3>3, <3>4
  <2> QED
    BY <2>1, <2>2, <2>3, <1>1, <1>6
<1> QED
  BY <1>6, <1>10, <1>11 DEF Waiting, Halves, cut, two, high, rest

-----------------------------------------------------------------------------
(* The invariant: rows on disk are numbered in the order of their ids,      *)
(* nobody heard of them, and the pieces that wait are as Waiting says.      *)

PusherInv ==
  /\ TypeOK
  /\ Numbers(spool) \subseteq 1..added
  /\ Ranked(spool) /\ IsFiniteSet(spool)
  /\ Numbers(spool) \cap heard = {}
  /\ Waiting(work, spool)

LEMMA InitHolds == Init => PusherInv
<1> SUFFICES ASSUME Init
             PROVE  PusherInv
  OBVIOUS
<1>1. spool = {} /\ added = 0 /\ work = <<>> /\ heard = {}
  BY DEF Init
<1>2. work \in Seq(SUBSET Row)
  BY <1>1, EmptySeq
<1>3. TypeOK
  <2>1. spool \subseteq Row /\ work \in Seq(SUBSET Row)
    BY <1>1, <1>2
  <2>2. added \in 0..MaxAdded /\ left \in 0..MaxBatches /\ crashes \in 0..MaxCrashes
    BY PusherAssumption DEF Init
  <2>3. overflow \in Policies /\ picky \in BOOLEAN /\ backoff \in BOOLEAN /\ up \in BOOLEAN
    BY DEF Init
  <2>4. /\ stored \subseteq 1..added /\ heard \subseteq 1..added
        /\ overflowed \subseteq 1..added /\ refused \subseteq 1..added
    BY DEF Init
  <2> QED
    BY <2>1, <2>2, <2>3, <2>4 DEF TypeOK
<1>4. Numbers(spool) = {} /\ Ranked(spool) /\ IsFiniteSet(spool)
  BY <1>1, FS_EmptySet DEF Numbers, Ranked
<1>5. Waiting(work, spool)
  BY <1>1, NoneWaiting
<1> QED
  BY <1>1, <1>3, <1>4, <1>5 DEF PusherInv

(* What Add leaves on disk and says it dropped.                             *)
LEMMA AddFacts ==
  ASSUME NEW offered, Add(offered), overflowed \subseteq 1..added
  PROVE  /\ spool' \subseteq spool \cup offered
         /\ overflowed \subseteq overflowed'
         /\ Numbers(spool) \cup Numbers(offered) \subseteq Numbers(spool') \cup overflowed'
         /\ overflowed' \subseteq overflowed \cup Numbers(spool) \cup Numbers(offered)
<1>1. CASE Excess(offered) > 0 /\ spool' = spool /\ overflowed' = overflowed \cup Numbers(offered)
  BY <1>1
<1>2. CASE spool' = spool \cup offered /\ overflowed' = overflowed
  BY <1>2 DEF Numbers
<1>3. ASSUME NEW old \in Oldest(spool \cup offered, Excess(offered)),
             spool' = (spool \cup offered) \ old, overflowed' = overflowed \cup Numbers(old)
      PROVE  /\ spool' \subseteq spool \cup offered
             /\ overflowed \subseteq overflowed'
             /\ Numbers(spool) \cup Numbers(offered) \subseteq Numbers(spool') \cup overflowed'
             /\ overflowed' \subseteq overflowed \cup Numbers(spool) \cup Numbers(offered)
  BY <1>3 DEF Numbers, Oldest
<1> QED
  BY <1>1, <1>2, <1>3 DEF Add

LEMMA PushFacts ==
  ASSUME PusherInv, Push
  PROVE  \E offered :
           /\ added' \in added..MaxAdded
           /\ offered \subseteq Row /\ IsFiniteSet(offered)
           /\ Numbers(offered) = (added + 1)..added'
           /\ Ranked(spool \cup offered)
           /\ Add(offered)
<1>1. PICK readings \in 0..PerCycle, events \in 0..PerCycle :
        \E top \in {0} \cup {r.id : r \in spool}, bad \in SUBSET (1..(readings + events)) :
          /\ IsTop(top)
          /\ readings + events <= PerCycle /\ added + readings + events <= MaxAdded
          /\ Add(NewRows(top, readings, events, bad))
          /\ added' = added + readings + events
  BY DEF Push
<1>2. PICK top \in {0} \cup {r.id : r \in spool}, bad \in SUBSET (1..(readings + events)) :
          /\ IsTop(top)
          /\ readings + events <= PerCycle /\ added + readings + events <= MaxAdded
          /\ Add(NewRows(top, readings, events, bad))
          /\ added' = added + readings + events
  BY <1>1
<1> DEFINE offered == NewRows(top, readings, events, bad)
<1>3. top \in Nat /\ added \in Nat /\ readings \in Nat /\ events \in Nat
  BY IsTopType, PusherAssumption DEF PusherInv, TypeOK
<1>4. /\ offered \subseteq Row
      /\ \A r \in offered : r.n > added /\ r.id > top
      /\ Numbers(offered) = (added + 1)..(added + readings + events)
      /\ Ranked(offered)
  BY <1>2, <1>3, NewRowsFacts
<1>5. IsFiniteSet(offered)
  BY <1>3, NewRowsFinite
<1> HIDE DEF offered
<1>6. \A r \in spool : r.n <= added /\ r.id <= top /\ r \in Row
  <2>1. \A r \in spool : r.n \in 1..added /\ r \in Row
    BY DEF PusherInv, TypeOK, Numbers
  <2>2. \A r \in spool : r.id <= top
    BY <1>2 DEF IsTop
  <2> QED
    BY <2>1, <2>2, <1>3
<1>7. Ranked(spool \cup offered)
  <2>1. ASSUME NEW r \in spool \cup offered, NEW s \in spool \cup offered
        PROVE  (r.n < s.n => r.id < s.id) /\ (r.n = s.n => r = s)
    <3>0. r \in Row /\ s \in Row /\ r.n \in Int /\ s.n \in Int /\ r.id \in Int /\ s.id \in Int
      BY <1>4, <1>6 DEF Row
    <3>1. CASE r \in spool /\ s \in spool
      BY <3>1 DEF PusherInv, Ranked
    <3>2. CASE r \in offered /\ s \in offered
      BY <3>2, <1>4 DEF Ranked
    <3>3. CASE r \in spool /\ s \in offered
      BY <3>0, <3>3, <1>3, <1>4, <1>6
    <3>4. CASE r \in offered /\ s \in spool
      BY <3>0, <3>4, <1>3, <1>4, <1>6
    <3> QED
      BY <3>1, <3>2, <3>3, <3>4
  <2> QED
    BY <2>1 DEF Ranked
<1>8. /\ added' = added + readings + events /\ added' \in added..MaxAdded
      /\ Numbers(offered) = (added + 1)..added'
  BY <1>2, <1>3, <1>4, PusherAssumption
<1>9. Add(offered)
  BY <1>2 DEF offered
<1> QED
  BY <1>4, <1>5, <1>7, <1>8, <1>9

LEMMA PushKeeps ==
  ASSUME PusherInv, Push
  PROVE  PusherInv'
<1>1. PICK offered :
           /\ added' \in added..MaxAdded
           /\ offered \subseteq Row /\ IsFiniteSet(offered)
           /\ Numbers(offered) = (added + 1)..added'
           /\ Ranked(spool \cup offered)
           /\ Add(offered)
  BY PushFacts
<1>2. /\ work = <<>> /\ left' = IF backoff THEN 0 ELSE MaxBatches
      /\ UNCHANGED <<overflow, picky, work, backoff, up, crashes, stored, heard, refused>>
  BY DEF Push
<1>3. /\ added \in Nat /\ added' \in Nat /\ added <= added' /\ added' <= MaxAdded
      /\ 1..added \subseteq 1..added' /\ (added + 1)..added' \subseteq 1..added'
      /\ 1..added \cap (added + 1)..added' = {}
  BY <1>1, PusherAssumption DEF PusherInv, TypeOK
<1>4. /\ spool' \subseteq spool \cup offered
      /\ overflowed' \subseteq overflowed \cup Numbers(spool) \cup Numbers(offered)
  BY <1>1, AddFacts DEF PusherInv, TypeOK
<1>5. Numbers(spool') \subseteq Numbers(spool) \cup Numbers(offered)
  BY <1>4 DEF Numbers
<1>6. TypeOK'
  <2>1. spool' \subseteq Row
    BY <1>1, <1>4 DEF PusherInv, TypeOK
  <2>2. added' \in 0..MaxAdded /\ left' \in 0..MaxBatches
    BY <1>2, <1>3, PusherAssumption
  <2>3. /\ stored' \subseteq 1..added' /\ heard' \subseteq 1..added' /\ refused' \subseteq 1..added'
        /\ overflowed' \subseteq 1..added'
    BY <1>1, <1>2, <1>3, <1>4 DEF PusherInv, TypeOK
  <2>4. /\ overflow' \in Policies /\ picky' \in BOOLEAN /\ work' \in Seq(SUBSET Row)
        /\ backoff' \in BOOLEAN /\ up' \in BOOLEAN /\ crashes' \in 0..MaxCrashes
    BY <1>2 DEF PusherInv, TypeOK
  <2> QED
    BY <2>1, <2>2, <2>3, <2>4 DEF TypeOK
<1>7. Numbers(spool') \subseteq 1..added' /\ Numbers(spool') \cap heard' = {}
  BY <1>1, <1>2, <1>3, <1>5 DEF PusherInv, TypeOK
<1>8. Ranked(spool')
  BY <1>1, <1>4 DEF Ranked
<1>9. IsFiniteSet(spool')
  <2>1. IsFiniteSet(spool \cup offered)
    BY <1>1, FS_Union DEF PusherInv
  <2> QED
    BY <2>1, <1>4, FS_Subset
<1>10. Waiting(work', spool')
  BY <1>2, NoneWaiting
<1>11. (Numbers(spool) \subseteq 1..added)' /\ Ranked(spool)' /\ IsFiniteSet(spool)'
       /\ (Numbers(spool) \cap heard = {})' /\ Waiting(work, spool)'
  BY <1>7, <1>8, <1>9, <1>10 DEF Numbers, Ranked, Waiting
<1> QED
  BY <1>6, <1>11 DEF PusherInv

(* The row set that Settle deletes, for an answer that was heard.           *)
LEMMA HeadFacts ==
  ASSUME PusherInv, work # <<>>
  PROVE  /\ Head(work) \subseteq spool
         /\ Numbers(Head(work)) \subseteq 1..added
         /\ Numbers(spool \ Head(work)) \cap (heard \cup Numbers(Head(work))) = {}
         /\ Waiting(Tail(work), spool \ Head(work))
         /\ Tail(work) \in Seq(SUBSET Row)
<1>1. Head(work) \subseteq spool /\ Waiting(Tail(work), spool \ Head(work))
  BY SettledWaiting DEF PusherInv
<1>2. Numbers(Head(work)) \subseteq 1..added
  BY <1>1 DEF PusherInv, Numbers
<1>3. Numbers(spool \ Head(work)) \cap (heard \cup Numbers(Head(work))) = {}
  <2>1. Numbers(spool \ Head(work)) \cap heard = {}
    BY DEF PusherInv, Numbers
  <2>2. \A r \in spool \ Head(work), s \in Head(work) : r.n # s.n
    BY <1>1 DEF PusherInv, Ranked
  <2> QED
    BY <2>1, <2>2 DEF Numbers
<1>4. Tail(work) \in Seq(SUBSET Row)
  BY HeadTailProperties DEF PusherInv, TypeOK
<1> QED
  BY <1>1, <1>2, <1>3, <1>4

LEMMA SettleKeeps ==
  ASSUME PusherInv, work # <<>>, Settle(Head(work)), work' = Tail(work),
         stored' \subseteq stored \cup Numbers(Head(work)),
         refused' \subseteq refused \cup Numbers(Head(work)),
         UNCHANGED <<overflow, picky, added, left, backoff, up, crashes, overflowed>>
  PROVE  PusherInv'
<1>1. spool' = spool \ Head(work) /\ heard' = heard \cup Numbers(Head(work))
  BY DEF Settle
<1>2. TypeOK'
  <2>1. spool' \subseteq Row /\ work' \in Seq(SUBSET Row)
    BY <1>1, HeadFacts DEF PusherInv, TypeOK
  <2>2. stored' \subseteq 1..added' /\ heard' \subseteq 1..added' /\ refused' \subseteq 1..added'
    BY <1>1, HeadFacts DEF PusherInv, TypeOK
  <2>3. /\ overflow' \in Policies /\ picky' \in BOOLEAN /\ added' \in 0..MaxAdded
        /\ left' \in 0..MaxBatches /\ backoff' \in BOOLEAN /\ up' \in BOOLEAN
        /\ crashes' \in 0..MaxCrashes /\ overflowed' \subseteq 1..added'
    BY DEF PusherInv, TypeOK
  <2> QED
    BY <2>1, <2>2, <2>3 DEF TypeOK
<1>3. Numbers(spool)' \subseteq 1..added' /\ Ranked(spool)'
  BY <1>1 DEF PusherInv, Numbers, Ranked
<1>4. IsFiniteSet(spool)'
  BY <1>1, FS_Subset DEF PusherInv
<1>5. (Numbers(spool) \cap heard = {})'
  BY <1>1, HeadFacts DEF Numbers
<1>6. Waiting(work, spool)'
  BY <1>1, HeadFacts DEF Waiting
<1> QED
  BY <1>2, <1>3, <1>4, <1>5, <1>6 DEF PusherInv

(* Steps that leave the disk alone.                                         *)
LEMMA SameSpoolKeeps ==
  ASSUME PusherInv, TypeOK', Waiting(work', spool), UNCHANGED <<spool, added, heard>>
  PROVE  PusherInv'
BY DEF PusherInv, Numbers, Ranked, Waiting

LEMMA LoadKeeps ==
  ASSUME PusherInv, Load
  PROVE  PusherInv'
<1>1. UNCHANGED <<overflow, picky, spool, added, backoff, up, crashes, stored, heard, overflowed, refused>>
  BY DEF Load
<1>2. Waiting(work', spool) /\ left' \in 0..MaxBatches
  <2>1. CASE left' = 0 /\ UNCHANGED work
    BY <2>1, PusherAssumption DEF PusherInv
  <2>2. CASE /\ left' = left - 1
             /\ \E batch \in Oldest(spool, IF Cardinality(spool) < BatchSize
                                           THEN Cardinality(spool) ELSE BatchSize) :
                  work' = Piece({r \in batch : r.soe}) \o Piece({r \in batch : ~r.soe})
    <3>1. left' \in 0..MaxBatches
      BY <2>2, PusherAssumption DEF PusherInv, TypeOK, Load
    <3>2. spool \in SUBSET Row /\ Ranked(spool)
      BY DEF PusherInv, TypeOK
    <3> QED
      BY <2>2, <3>1, <3>2, LoadWaiting
  <2> QED
    BY <2>1, <2>2 DEF Load
<1>3. TypeOK'
  <2>1. work' \in Seq(SUBSET Row)
    BY <1>2, SeqMonotonic DEF Waiting, PusherInv, TypeOK
  <2> QED
    BY <1>1, <1>2, <2>1 DEF PusherInv, TypeOK
<1> QED
  BY <1>1, <1>2, <1>3, SameSpoolKeeps

LEMMA SplitKeeps ==
  ASSUME PusherInv, Split
  PROVE  PusherInv'
<1>1. UNCHANGED <<overflow, picky, spool, added, left, backoff, up, crashes, stored, heard, overflowed, refused>>
  BY DEF Split
<1>2. Waiting(work', spool)
  <2>1. spool \in SUBSET Row /\ Ranked(spool) /\ Waiting(work, spool) /\ work # <<>>
    BY DEF PusherInv, TypeOK, Split
  <2> QED
    BY <2>1, SplitWaiting DEF Split
<1>3. TypeOK'
  <2>1. work' \in Seq(SUBSET Row)
    BY <1>2, SeqMonotonic DEF Waiting, PusherInv, TypeOK
  <2> QED
    BY <1>1, <2>1 DEF PusherInv, TypeOK
<1> QED
  BY <1>1, <1>2, <1>3, SameSpoolKeeps

LEMMA FailKeeps ==
  ASSUME PusherInv, Fail
  PROVE  PusherInv'
<1>1. /\ work' = <<>> /\ left' = 0 /\ backoff' = TRUE /\ work # <<>>
      /\ stored' \subseteq stored \cup Numbers(Head(work))
      /\ UNCHANGED <<overflow, picky, spool, added, up, crashes, heard, overflowed, refused>>
  BY DEF Fail, GiveUp
<1>2. Waiting(work', spool)
  BY <1>1, NoneWaiting
<1>3. TypeOK'
  <2>1. work' \in Seq(SUBSET Row) /\ left' \in 0..MaxBatches /\ stored' \subseteq 1..added'
    BY <1>1, EmptySeq, HeadFacts, PusherAssumption DEF PusherInv, TypeOK
  <2> QED
    BY <1>1, <2>1 DEF PusherInv, TypeOK
<1> QED
  BY <1>1, <1>2, <1>3, SameSpoolKeeps

LEMMA CrashKeeps ==
  ASSUME PusherInv, Crash
  PROVE  PusherInv'
<1>1. /\ work' = <<>> /\ left' = 0 /\ backoff' = FALSE
      /\ crashes < MaxCrashes /\ crashes' = crashes + 1
      /\ UNCHANGED <<overflow, picky, spool, added, up, stored, heard, overflowed, refused>>
  BY DEF Crash
<1>2. Waiting(work', spool)
  BY <1>1, NoneWaiting
<1>3. TypeOK'
  <2>1. work' \in Seq(SUBSET Row) /\ left' \in 0..MaxBatches /\ crashes' \in 0..MaxCrashes
    BY <1>1, EmptySeq, PusherAssumption DEF PusherInv, TypeOK
  <2> QED
    BY <1>1, <2>1 DEF PusherInv, TypeOK
<1> QED
  BY <1>1, <1>2, <1>3, SameSpoolKeeps

LEMMA InvKept == PusherInv /\ [Next]_vars => PusherInv'
<1> SUFFICES ASSUME PusherInv, [Next]_vars
             PROVE  PusherInv'
  OBVIOUS
<1>1. CASE Push
  BY <1>1, PushKeeps
<1>2. CASE Load
  BY <1>2, LoadKeeps
<1>3. CASE Accepted
  BY <1>3, SettleKeeps DEF Accepted
<1>4. CASE Split
  BY <1>4, SplitKeeps
<1>5. CASE Refused
  BY <1>5, SettleKeeps DEF Refused
<1>6. CASE Fail
  BY <1>6, FailKeeps
<1>7. CASE RetryDue
  BY <1>7 DEF RetryDue, PusherInv, TypeOK, Numbers, Ranked, Waiting
<1>8. CASE Crash
  BY <1>8, CrashKeeps
<1>9. CASE Network
  BY <1>9 DEF Network, PusherInv, TypeOK, Numbers, Ranked, Waiting
<1>10. CASE UNCHANGED vars
  BY <1>10 DEF vars, PusherInv, TypeOK, Numbers, Ranked, Waiting
<1> QED
  BY <1>1, <1>2, <1>3, <1>4, <1>5, <1>6, <1>7, <1>8, <1>9, <1>10 DEF Next

LEMMA InvCorrect == Spec => []PusherInv
BY InitHolds, InvKept, PTL DEF Spec

-----------------------------------------------------------------------------
(* The theorems.                                                            *)

(* Every variable of the gateway's queue keeps its type, whatever the sizes *)
(* and the overflow policy.                                                 *)
THEOREM TypeCorrect == Spec => []TypeOK
<1>1. PusherInv => TypeOK
  BY DEF PusherInv
<1> QED
  BY <1>1, InvCorrect, PTL

(* Pusher._send: of what waits to be sent nothing was confirmed before.     *)
THEOREM NotSentAgainCorrect == Spec => []NotSentAgain
<1>1. PusherInv => NotSentAgain
  <2> SUFFICES ASSUME PusherInv, NEW i \in DOMAIN work, NEW r \in work[i]
               PROVE  r \in spool /\ r.n \notin heard
    BY DEF NotSentAgain, Pieces
  <2>1. work \in Seq(SUBSET spool) /\ DOMAIN work = 1..Len(work)
    BY LenProperties DEF PusherInv, Waiting
  <2>2. r \in spool
    BY <2>1, ElementOfSeq
  <2> QED
    BY <2>2 DEF PusherInv, Numbers
<1> QED
  BY <1>1, InvCorrect, PTL

(* Only Push, Accepted, Refused and Fail touch what NothingVanishes adds up.*)
LEMMA VanishesInit == Init => NothingVanishes
BY DEF Init, NothingVanishes, Numbers

LEMMA VanishesKept ==
  PusherInv /\ NothingVanishes /\ [Next]_vars => NothingVanishes'
<1> SUFFICES ASSUME PusherInv, NothingVanishes, [Next]_vars
             PROVE  NothingVanishes'
  OBVIOUS
<1>1. CASE Push
  <2>1. PICK offered :
           /\ added' \in added..MaxAdded
           /\ Numbers(offered) = (added + 1)..added'
           /\ Add(offered)
    BY <1>1, PushFacts
  <2>2. 1..added' = 1..added \cup (added + 1)..added'
    BY <2>1, PusherAssumption DEF PusherInv, TypeOK
  <2>3. /\ overflowed \subseteq overflowed'
        /\ Numbers(spool) \cup Numbers(offered) \subseteq Numbers(spool') \cup overflowed'
        /\ overflowed' \subseteq overflowed \cup Numbers(spool) \cup Numbers(offered)
        /\ spool' \subseteq spool \cup offered
    BY <2>1, AddFacts DEF PusherInv, TypeOK
  <2>4. Numbers(spool') \subseteq Numbers(spool) \cup Numbers(offered)
    BY <2>3 DEF Numbers
  <2>5. UNCHANGED <<stored, refused>>
    BY <1>1 DEF Push
  <2>6. 1..added' = Numbers(spool') \cup stored' \cup overflowed' \cup refused'
    BY <2>1, <2>2, <2>3, <2>4, <2>5 DEF NothingVanishes
  <2> QED
    BY <2>6 DEF NothingVanishes, Numbers
<1>2. CASE Accepted \/ Refused
  <2>1. /\ work # <<>> /\ spool' = spool \ Head(work) /\ UNCHANGED <<added, overflowed>>
        /\ \/ stored' = stored \cup Numbers(Head(work)) /\ refused' = refused
           \/ stored' = stored /\ refused' = refused \cup Numbers(Head(work))
    BY <1>2 DEF Accepted, Refused, Settle
  <2>2. Numbers(spool) = Numbers(spool') \cup Numbers(Head(work))
    BY <2>1, HeadFacts DEF Numbers
  <2>3. 1..added' = Numbers(spool') \cup stored' \cup overflowed' \cup refused'
    BY <2>1, <2>2 DEF NothingVanishes
  <2> QED
    BY <2>3 DEF NothingVanishes, Numbers
<1>3. CASE Fail
  <2>1. /\ work # <<>> /\ UNCHANGED <<spool, added, overflowed, refused>>
        /\ stored \subseteq stored' /\ stored' \subseteq stored \cup Numbers(Head(work))
    BY <1>3 DEF Fail
  <2>2. Numbers(Head(work)) \subseteq Numbers(spool)
    BY <2>1, HeadFacts DEF Numbers
  <2>3. Numbers(spool)' = Numbers(spool)
    BY <2>1 DEF Numbers
  <2> QED
    BY <2>1, <2>2, <2>3 DEF NothingVanishes
<1>4. CASE Load \/ Split \/ RetryDue \/ Crash \/ Network \/ UNCHANGED vars
  BY <1>4 DEF Load, Split, RetryDue, Crash, Network, vars, NothingVanishes, Numbers
<1> QED
  BY <1>1, <1>2, <1>3, <1>4 DEF Next

(* Through outages, lost answers, cuts, refusals and restarts no row is     *)
(* lost but for lack of room or on the server's word.                       *)
THEOREM NothingVanishesCorrect == Spec => []NothingVanishes
BY VanishesInit, VanishesKept, InvCorrect, PTL DEF Spec

(* Rows reach the server in the order they were collected, each kind for    *)
(* itself: the action property, from the invariant alone.                   *)
THEOREM OldestFirstCorrect == Spec => OldestFirst
<1>1. PusherInv /\ [Next]_vars =>
        \A r, s \in spool :
          r.n < s.n /\ r.soe = s.soe /\ s.n \in stored' \ stored => r.n \in stored' \cup refused'
  <2> SUFFICES ASSUME PusherInv, [Next]_vars, NEW r \in spool, NEW s \in spool,
                      r.n < s.n, r.soe = s.soe, s.n \in stored' \ stored
               PROVE  r.n \in stored'
    OBVIOUS
  <2>1. work # <<>> /\ stored' = stored \cup Numbers(Head(work))
    <3>1. CASE Accepted
      BY <3>1 DEF Accepted
    <3>2. CASE Fail
      BY <3>2 DEF Fail
    <3>3. CASE Push \/ Load \/ Split \/ Refused \/ RetryDue \/ Crash \/ Network \/ UNCHANGED vars
      BY <3>3 DEF Push, Load, Split, Refused, RetryDue, Crash, Network, vars
    <3> QED
      BY <3>1, <3>2, <3>3 DEF Next
  <2>2. PICK t \in Head(work) : t.n = s.n
    BY <2>1 DEF Numbers
  <2>3. t = s
    BY <2>1, <2>2, HeadFacts DEF PusherInv, Ranked
  <2>4. work \in Seq(SUBSET spool) /\ Head(work) = work[1] /\ 1 \in DOMAIN work
    BY <2>1, LenProperties, EmptySeq DEF PusherInv, Waiting
  <2>5. \E j \in 1..1 : r \in work[j]
    BY <2>2, <2>3, <2>4 DEF PusherInv, Waiting
  <2>6. r \in Head(work)
    BY <2>4, <2>5
  <2> QED
    BY <2>1, <2>6 DEF Numbers
<1> QED
  BY <1>1, InvCorrect, PTL DEF Spec, OldestFirst

(* Pusher._send: a server that refuses for size or content only never costs *)
(* a valid row, however requests are cut.                                   *)
THEOREM OnlyBadRefusedCorrect == Spec => OnlyBadRefused
<1>1. PusherInv /\ [Next]_vars =>
        (~picky => \A r \in spool : r.n \in refused' \ refused => r.bad)
  <2> SUFFICES ASSUME PusherInv, [Next]_vars, ~picky, NEW r \in spool, r.n \in refused' \ refused
               PROVE  r.bad
    OBVIOUS
  <2>1. Refused
    <3>1. CASE Push \/ Load \/ Accepted \/ Split \/ Fail \/ RetryDue \/ Crash \/ Network \/ UNCHANGED vars
      BY <3>1 DEF Push, Load, Accepted, Split, Fail, RetryDue, Crash, Network, vars
    <3> QED
      BY <3>1 DEF Next
  <2>2. /\ work # <<>> /\ Unfit(Head(work)) /\ ~(Cardinality(Head(work)) > 1)
        /\ refused' = refused \cup Numbers(Head(work))
    BY <2>1 DEF Refused, Splits
  <2>3. Head(work) \subseteq spool /\ IsFiniteSet(Head(work)) /\ Cardinality(Head(work)) \in Nat
    BY <2>2, HeadFacts, FS_Subset, FS_CardinalityType DEF PusherInv
  <2>4. PICK t \in Head(work) : t.n = r.n
    BY <2>2 DEF Numbers
  <2>5. t = r
    BY <2>3, <2>4 DEF PusherInv, Ranked
  <2>6. PICK b \in Head(work) : b.bad
    BY <2>2, <2>3, PusherAssumption DEF Unfit
  <2>7. Cardinality(Head(work)) = 1
    BY <2>2, <2>3, <2>4, FS_EmptySet
  <2>8. b = r
    BY <2>3, <2>4, <2>5, <2>6, <2>7, FS_Singleton
  <2> QED
    BY <2>6, <2>8
<1> QED
  BY <1>1, InvCorrect, PTL DEF Spec, OnlyBadRefused

(* Whatever a cycle brings, both policies keep the spool within its limit.  *)
LEMMA BoundedKept ==
  PusherInv /\ SpoolBounded /\ [Next]_vars => SpoolBounded'
<1> SUFFICES ASSUME PusherInv, SpoolBounded, [Next]_vars
             PROVE  SpoolBounded'
  OBVIOUS
<1>1. CASE Push
  <2>1. PICK offered : IsFiniteSet(offered) /\ Add(offered)
    BY <1>1, PushFacts
  <2>2. /\ IsFiniteSet(spool) /\ Cardinality(spool) \in Nat /\ Cardinality(offered) \in Nat
        /\ IsFiniteSet(spool \cup offered) /\ Cardinality(spool \cup offered) \in Nat
        /\ Cardinality(spool \cap offered) \in Nat
        /\ Cardinality(spool \cup offered) =
             Cardinality(spool) + Cardinality(offered) - Cardinality(spool \cap offered)
    <3>1. IsFiniteSet(spool)
      BY DEF PusherInv
    <3>2. IsFiniteSet(spool \cup offered) /\ IsFiniteSet(spool \cap offered)
      BY <2>1, <3>1, FS_Union, FS_Subset
    <3> QED
      BY <2>1, <3>1, <3>2, FS_Union, FS_CardinalityType
  <2>3. CASE spool' = spool
    BY <2>3 DEF SpoolBounded
  <2>4. CASE Excess(offered) <= 0 /\ spool' = spool \cup offered
    BY <2>2, <2>4, PusherAssumption DEF SpoolBounded, Excess
  <2>5. ASSUME Excess(offered) > 0, NEW old \in Oldest(spool \cup offered, Excess(offered)),
               spool' = (spool \cup offered) \ old
        PROVE  SpoolBounded'
    <3>1. old \subseteq spool \cup offered /\ Cardinality(old) = Excess(offered)
      BY <2>5 DEF Oldest
    <3>2. (spool \cup offered) \cap old = old
      BY <3>1
    <3>3. \A S, T : IsFiniteSet(S) => Cardinality(S \ T) = Cardinality(S) - Cardinality(S \cap T)
      BY FS_Difference
    <3>4. Cardinality((spool \cup offered) \ old) = Cardinality(spool \cup offered) - Cardinality(old)
      <4>1. Cardinality((spool \cup offered) \ old)
              = Cardinality(spool \cup offered) - Cardinality((spool \cup offered) \cap old)
        BY <2>2, <3>3
      <4> QED
        BY <3>2, <4>1
    <3> QED
      BY <2>2, <2>5, <3>1, <3>4, PusherAssumption DEF SpoolBounded, Excess
  <2> QED
    BY <2>1, <2>3, <2>4, <2>5 DEF Add
<1>2. CASE Accepted \/ Refused
  <2>1. spool' \subseteq spool /\ IsFiniteSet(spool)
    BY <1>2 DEF Accepted, Refused, Settle, PusherInv
  <2>2. /\ Cardinality(spool') <= Cardinality(spool)
        /\ Cardinality(spool) \in Nat /\ Cardinality(spool') \in Nat
    BY <2>1, FS_Subset, FS_CardinalityType
  <2> QED
    BY <2>2, PusherAssumption DEF SpoolBounded
<1>3. CASE Load \/ Split \/ Fail \/ RetryDue \/ Crash \/ Network \/ UNCHANGED vars
  BY <1>3 DEF Load, Split, Fail, RetryDue, Crash, Network, vars, SpoolBounded
<1> QED
  BY <1>1, <1>2, <1>3 DEF Next

(* spool_max_rows is a limit whatever one cycle brings.                     *)
THEOREM SpoolBoundedCorrect == Spec => []SpoolBounded
<1>1. Init => SpoolBounded
  BY FS_EmptySet, PusherAssumption DEF Init, SpoolBounded
<1> QED
  BY <1>1, BoundedKept, InvCorrect, PTL DEF Spec
=============================================================================
