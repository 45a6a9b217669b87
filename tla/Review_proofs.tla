--------------------------- MODULE Review_proofs ---------------------------
(***************************************************************************)
(* Versions and change requests, for any users, models, files, drafts,     *)
(* change requests and bounds.  What is merged was approved by another     *)
(* person, and the versions of a model count from 1, also where            *)
(* transactions overlap.  Where they do not: a version on the head follows *)
(* it, a draft goes into one version, the files of versions are there, and *)
(* the states of versions tell the history of their change requests.       *)
(***************************************************************************)
EXTENDS Review, FiniteSetTheorems, TLAPS

Statuses == {"open", "changes_requested", "approved", "rejected", "merged"}

(* No row, or a row of change_requests.                                     *)
IsRow(r) ==
  \/ r = NoCR
  \/ /\ r = [model |-> r.model, version |-> r.version, author |-> r.author, status |-> r.status]
     /\ r.status \in Statuses

Decided(r) == r.status \in {"approved", "merged"}

(* Among revs is an approval that suffices for this row of c.               *)
Signed(revs, c, row) ==
  \E r \in revs :
    /\ r.cr = c /\ r.by \in Approvers /\ r.by # row.author
    /\ ~setting.overlap => r.version = row.version

RowsSigned ==
  /\ crs = [c \in CRs |-> crs[c]]
  /\ \A c \in CRs : IsRow(crs[c]) /\ (Decided(crs[c]) => Signed(reviews, c, crs[c]))

(* What a late transaction has read is of the same author, and what it read *)
(* as approved has its approval.                                            *)
LateSigned ==
  /\ ~setting.overlap => late = {}
  /\ \A view \in late : view.late
  /\ late # {} => \A c \in CRs :
       /\ IsRow(lateCrs[c])
       /\ lateCrs[c] # NoCR => crs[c] # NoCR /\ lateCrs[c].author = crs[c].author
       /\ Decided(lateCrs[c]) => Signed(reviews, c, lateCrs[c])

ReviewedInv == RowsSigned /\ LateSigned

-----------------------------------------------------------------------------
(* An approval that suffices stays among more of them, for the same author  *)
(* and version, or the same author where transactions overlap.              *)
LEMMA SignedStays ==
  ASSUME NEW revs, NEW more, NEW c, NEW row, NEW new,
         Signed(revs, c, row), revs \subseteq more,
         new.author = row.author, ~setting.overlap => new.version = row.version
  PROVE  Signed(more, c, new)
BY DEF Signed

(* The row that a transaction with this view reads.                         *)
LEMMA ReadRow ==
  ASSUME ReviewedInv, NEW view \in Views, NEW c \in CRs
  PROVE  /\ IsRow(CRsOf(view)[c])
         /\ CRsOf(view)[c] # NoCR => crs[c] # NoCR /\ CRsOf(view)[c].author = crs[c].author
         /\ Decided(CRsOf(view)[c]) => Signed(reviews, c, CRsOf(view)[c])
         /\ ~setting.overlap => CRsOf(view)[c] = crs[c]
<1>1. CASE view = View(FALSE)
  <2>1. CRsOf(view) = crs
    BY <1>1 DEF CRsOf, View
  <2> QED BY <2>1 DEF ReviewedInv, RowsSigned
<1>2. CASE view \in late
  <2>1. CRsOf(view) = lateCrs /\ setting.overlap
    BY <1>2 DEF CRsOf, ReviewedInv, LateSigned
  <2> QED BY <1>2, <2>1 DEF ReviewedInv, LateSigned
<1> QED BY <1>1, <1>2 DEF Views

(* The commit of a review keeps the invariant, however stale it is, if what *)
(* it decides is signed and the author is not its to change.                *)
LEMMA CommitKeeps ==
  ASSUME ReviewedInv, NEW view \in Views, NEW vs, NEW c \in CRs, NEW row,
         CommitReview(view, vs, c, row), lateCrs' = IF late' = {} THEN <<>> ELSE lateCrs,
         reviews \subseteq reviews',
         IsRow(row), row # NoCR, Decided(row) => Signed(reviews', c, row),
         \/ crs[c] = NoCR
         \/ CRsOf(view)[c] # NoCR /\ row.author = CRsOf(view)[c].author
  PROVE  ReviewedInv'
<1> DEFINE old == CRsOf(view)[c]
           new == [f \in DOMAIN row |-> IF row[f] # old[f] THEN row[f] ELSE crs[c][f]]
<1>1. /\ crs' = [crs EXCEPT ![c] = new]
      /\ setting' = setting /\ late' = late \ {view}
  BY DEF CommitReview, store
<1>2. row = [model |-> row.model, version |-> row.version, author |-> row.author, status |-> row.status]
      /\ row.status \in Statuses
  BY DEF IsRow
<1>3. /\ IsRow(old)
      /\ old # NoCR => crs[c] # NoCR /\ old.author = crs[c].author
      /\ ~setting.overlap => old = crs[c]
  BY ReadRow
<1>4. IsRow(crs[c]) /\ crs = [d \in CRs |-> crs[d]]
  BY DEF ReviewedInv, RowsSigned
<1>5. new = [model   |-> IF row.model # old.model THEN row.model ELSE crs[c].model,
             version |-> IF row.version # old.version THEN row.version ELSE crs[c].version,
             author  |-> IF row.author # old.author THEN row.author ELSE crs[c].author,
             status  |-> IF row.status # old.status THEN row.status ELSE crs[c].status]
  BY <1>2
<1> HIDE DEF new, old
<1>6. new.status \in Statuses /\ new # NoCR
  <2>1. CASE crs[c] = NoCR
    BY <1>2, <1>3, <1>5, <2>1 DEF Statuses, NoCR
  <2>2. CASE crs[c] # NoCR
    BY <1>2, <1>4, <1>5, <2>2 DEF IsRow, Statuses, NoCR
  <2> QED BY <2>1, <2>2
<1>7. IsRow(new)
  BY <1>5, <1>6 DEF IsRow
<1>8. crs[c] # NoCR => new.author = crs[c].author
  BY <1>3, <1>5 DEF old
<1>9. Decided(new) => Signed(reviews', c, new)
  <2> SUFFICES ASSUME Decided(new) PROVE Signed(reviews', c, new)
    OBVIOUS
  <2>1. CASE crs[c] = NoCR
    <3>1. old = NoCR /\ row.status # old.status
      BY <1>2, <1>3, <2>1 DEF NoCR, Statuses
    <3>2. new = row
      BY <1>2, <1>5, <2>1, <3>1
    <3> QED BY <3>2
  <2>2. CASE crs[c] # NoCR /\ row.status # old.status
    <3>1. new.status = row.status /\ new.author = row.author
      BY <1>3, <1>5, <2>2 DEF old
    <3>2. ~setting.overlap => new.version = row.version
      BY <1>3, <1>5
    <3>3. Signed(reviews', c, row)
      BY <3>1 DEF Decided
    <3> QED BY <3>1, <3>2, <3>3, SignedStays
  <2>3. CASE crs[c] # NoCR /\ row.status = old.status
    <3>1. new.status = crs[c].status
      BY <1>5, <2>3
    <3>2. Signed(reviews, c, crs[c])
      BY <3>1 DEF Decided, ReviewedInv, RowsSigned
    <3>3. CASE setting.overlap
      BY <1>8, <2>3, <3>2, <3>3, SignedStays
    <3>4. CASE ~setting.overlap
      <4>1. new.version = row.version /\ new.author = row.author
        BY <1>3, <1>5, <3>4
      <4>2. Signed(reviews', c, row)
        BY <1>3, <2>3, <3>1, <3>4 DEF Decided
      <4> QED BY <4>1, <4>2, SignedStays
    <3> QED BY <3>3, <3>4
  <2> QED BY <2>1, <2>2, <2>3
<1>10. RowsSigned'
  <2>1. crs' = [d \in CRs |-> crs'[d]]
    BY <1>1, <1>4
  <2>2. ASSUME NEW d \in CRs PROVE IsRow(crs'[d]) /\ (Decided(crs'[d]) => Signed(reviews', d, crs'[d]))
    <3>1. CASE d = c
      BY <1>1, <1>4, <1>7, <1>9, <3>1
    <3>2. CASE d # c
      <4>1. crs'[d] = crs[d]
        BY <1>1, <1>4, <3>2
      <4>2. IsRow(crs[d]) /\ (Decided(crs[d]) => Signed(reviews, d, crs[d]))
        BY DEF ReviewedInv, RowsSigned
      <4> QED BY <4>1, <4>2, SignedStays
    <3> QED BY <3>1, <3>2
  <2> QED BY <1>1, <2>1, <2>2 DEF RowsSigned, Signed, IsRow, Decided
<1>11. LateSigned'
  <2>1. (~setting.overlap => late' = {}) /\ \A v \in late' : v.late
    BY <1>1 DEF ReviewedInv, LateSigned
  <2>2. ASSUME late' # {}, NEW d \in CRs
        PROVE  /\ IsRow(lateCrs'[d])
               /\ lateCrs'[d] # NoCR => crs'[d] # NoCR /\ lateCrs'[d].author = crs'[d].author
               /\ Decided(lateCrs'[d]) => Signed(reviews', d, lateCrs'[d])
    <3>1. late # {} /\ lateCrs' = lateCrs
      BY <1>1, <2>2
    <3>2. /\ IsRow(lateCrs[d])
          /\ lateCrs[d] # NoCR => crs[d] # NoCR /\ lateCrs[d].author = crs[d].author
          /\ Decided(lateCrs[d]) => Signed(reviews, d, lateCrs[d])
      BY <3>1 DEF ReviewedInv, LateSigned
    <3>3. crs[d] # NoCR => crs'[d] # NoCR /\ crs'[d].author = crs[d].author
      BY <1>1, <1>4, <1>6, <1>8
    <3>4. Signed(reviews, d, lateCrs[d]) => Signed(reviews', d, lateCrs[d])
      BY SignedStays
    <3> QED BY <3>1, <3>2, <3>3, <3>4
  <2> QED BY <1>1, <2>1, <2>2 DEF LateSigned, Signed, IsRow, Decided
<1> QED BY <1>10, <1>11 DEF ReviewedInv
-----------------------------------------------------------------------------
LEMMA ReviewedInit == InitAll => ReviewedInv
<1> SUFFICES ASSUME InitAll PROVE ReviewedInv
  OBVIOUS
<1>1. crs = [c \in CRs |-> NoCR] /\ late = {}
  BY DEF InitAll, Init
<1>2. \A c \in CRs : crs[c] = NoCR /\ ~Decided(NoCR)
  BY <1>1 DEF NoCR, Decided
<1> QED BY <1>1, <1>2 DEF ReviewedInv, RowsSigned, LateSigned, IsRow

(* A row that is there, with another status.                                *)
LEMMA ChangedStatus ==
  ASSUME NEW cr, IsRow(cr), cr # NoCR, NEW s \in Statuses
  PROVE  LET row == [cr EXCEPT !.status = s]
         IN  IsRow(row) /\ row # NoCR /\ row.author = cr.author /\ row.version = cr.version /\ row.status = s
<1>1. cr = [model |-> cr.model, version |-> cr.version, author |-> cr.author, status |-> cr.status]
  BY DEF IsRow
<1> DEFINE row == [cr EXCEPT !.status = s]
<1>2. row = [model |-> cr.model, version |-> cr.version, author |-> cr.author, status |-> s]
  BY <1>1
<1> HIDE DEF row
<1>3. row.model = cr.model /\ row.author = cr.author /\ row.version = cr.version /\ row.status = s
  BY <1>2
<1>4. IsRow(row) /\ row # NoCR
  BY <1>2, <1>3 DEF IsRow, Statuses, NoCR
<1> QED BY <1>3, <1>4 DEF row

(* The handlers of a change request.                                        *)
LEMMA ConsiderKeeps == ReviewedInv /\ Consider => ReviewedInv'
<1> SUFFICES ASSUME ReviewedInv, Consider PROVE ReviewedInv'
  OBVIOUS
<1> PICK c \in CRs :
       \/ \E u \in Users :
            Approve(u, c) \/ RequestChanges(u, c) \/ \E v \in DOMAIN versions : CreateCR(u, c, v)
       \/ \E v \in DOMAIN versions : SetCRVersion(c, v)
       \/ MergeCR(c) \/ RejectCR(c)
  BY DEF Consider
<1>l. lateCrs' = IF late' = {} THEN <<>> ELSE lateCrs
  BY DEF Consider
<1>1. ASSUME NEW u \in Users, Approve(u, c) PROVE ReviewedInv'
  <2> PICK view \in Views :
         LET cr == CRsOf(view)[c]
         IN  /\ Found(view, c) /\ Undecided(cr) /\ MayDecide(u, cr)
             /\ CommitReview(view, view.versions, c, [cr EXCEPT !.status = "approved"])
             /\ reviews' = reviews \cup {[cr |-> c, by |-> u, version |-> cr.version]}
    BY <1>1 DEF Approve
  <2> DEFINE cr == CRsOf(view)[c]
             row == [cr EXCEPT !.status = "approved"]
  <2>1. cr # NoCR /\ IsRow(cr) /\ u \in Approvers /\ u # cr.author
    BY ReadRow DEF Found, MayDecide
  <2>2. IsRow(row) /\ row # NoCR /\ row.author = cr.author /\ row.version = cr.version
    BY <2>1, ChangedStatus DEF Statuses
  <2>3. Signed(reviews', c, row)
    <3> DEFINE r == [cr |-> c, by |-> u, version |-> cr.version]
    <3>1. r \in reviews' /\ r.cr = c /\ r.by = u /\ r.version = cr.version
      OBVIOUS
    <3> HIDE DEF r, row, cr
    <3> QED BY <2>1, <2>2, <3>1 DEF Signed
  <2>4. CommitReview(view, view.versions, c, row) /\ reviews \subseteq reviews'
    OBVIOUS
  <2> HIDE DEF row
  <2> QED BY <1>l, <2>1, <2>2, <2>3, <2>4, CommitKeeps
<1>2. ASSUME NEW u \in Users, RequestChanges(u, c) PROVE ReviewedInv'
  <2> PICK view \in Views :
         LET cr == CRsOf(view)[c]
         IN  /\ Found(view, c)
             /\ CommitReview(view, view.versions, c, [cr EXCEPT !.status = "changes_requested"])
             /\ UNCHANGED reviews
    BY <1>2 DEF RequestChanges
  <2> DEFINE cr == CRsOf(view)[c]
             row == [cr EXCEPT !.status = "changes_requested"]
  <2>1. cr # NoCR /\ IsRow(cr)
    BY ReadRow DEF Found
  <2>2. IsRow(row) /\ row # NoCR /\ row.author = cr.author /\ row.status = "changes_requested"
    BY <2>1, ChangedStatus DEF Statuses
  <2>3. CommitReview(view, view.versions, c, row) /\ reviews \subseteq reviews'
    OBVIOUS
  <2> HIDE DEF row
  <2> QED BY <1>l, <2>1, <2>2, <2>3, CommitKeeps DEF Decided
<1>3. ASSUME NEW u \in Users, NEW v \in DOMAIN versions, CreateCR(u, c, v) PROVE ReviewedInv'
  <2> PICK view \in Views :
         /\ crs[c] = NoCR
         /\ CommitReview(view, Moved(view.versions, v, "shared"), c,
              [model |-> view.versions[v].model, version |-> v, author |-> u, status |-> "open"])
         /\ UNCHANGED reviews
    BY <1>3 DEF CreateCR
  <2> DEFINE row == [model |-> view.versions[v].model, version |-> v, author |-> u, status |-> "open"]
  <2>1. IsRow(row) /\ row # NoCR /\ row.status = "open"
    BY DEF IsRow, Statuses, NoCR
  <2>2. CommitReview(view, Moved(view.versions, v, "shared"), c, row) /\ reviews \subseteq reviews'
    OBVIOUS
  <2> HIDE DEF row
  <2> QED BY <1>l, <2>1, <2>2, CommitKeeps DEF Decided
<1>4. ASSUME NEW v \in DOMAIN versions, SetCRVersion(c, v) PROVE ReviewedInv'
  <2> PICK view \in Views :
         LET cr == CRsOf(view)[c]
         IN  /\ Found(view, c)
             /\ CommitReview(view, Moved(Moved(view.versions, cr.version, "wip"), v, "shared"), c,
                  [model |-> cr.model, version |-> v, author |-> cr.author, status |-> "open"])
             /\ UNCHANGED reviews
    BY <1>4 DEF SetCRVersion
  <2> DEFINE cr == CRsOf(view)[c]
             row == [model |-> cr.model, version |-> v, author |-> cr.author, status |-> "open"]
  <2>1. cr # NoCR /\ IsRow(cr)
    BY ReadRow DEF Found
  <2>2. IsRow(row) /\ row # NoCR /\ row.author = cr.author /\ row.status = "open"
    BY DEF IsRow, Statuses, NoCR
  <2>3. CommitReview(view, Moved(Moved(view.versions, cr.version, "wip"), v, "shared"), c, row)
        /\ reviews \subseteq reviews'
    OBVIOUS
  <2> HIDE DEF row
  <2> QED BY <1>l, <2>1, <2>2, <2>3, CommitKeeps DEF Decided
<1>5. ASSUME MergeCR(c) PROVE ReviewedInv'
  <2> PICK view \in Views :
         LET cr == CRsOf(view)[c]
         IN  /\ Found(view, c) /\ cr.status = "approved"
             /\ CommitReview(view, Published(view.versions, cr), c, [cr EXCEPT !.status = "merged"])
             /\ UNCHANGED reviews
    BY <1>5 DEF MergeCR
  <2> DEFINE cr == CRsOf(view)[c]
             row == [cr EXCEPT !.status = "merged"]
  <2>1. cr # NoCR /\ IsRow(cr) /\ Signed(reviews, c, cr)
    BY ReadRow DEF Found, Decided
  <2>2. IsRow(row) /\ row # NoCR /\ row.author = cr.author /\ row.version = cr.version
    BY <2>1, ChangedStatus DEF Statuses
  <2>3. CommitReview(view, Published(view.versions, cr), c, row) /\ reviews \subseteq reviews'
    OBVIOUS
  <2> HIDE DEF row, cr
  <2>4. Signed(reviews', c, row)
    BY <2>1, <2>2, <2>3, SignedStays
  <2> QED BY <1>l, <2>1, <2>2, <2>3, <2>4, CommitKeeps DEF cr
<1>6. ASSUME RejectCR(c) PROVE ReviewedInv'
  <2> PICK view \in Views :
         LET cr == CRsOf(view)[c]
         IN  /\ Found(view, c)
             /\ CommitReview(view, Moved(view.versions, cr.version, "wip"), c, [cr EXCEPT !.status = "rejected"])
             /\ UNCHANGED reviews
    BY <1>6 DEF RejectCR
  <2> DEFINE cr == CRsOf(view)[c]
             row == [cr EXCEPT !.status = "rejected"]
  <2>1. cr # NoCR /\ IsRow(cr)
    BY ReadRow DEF Found
  <2>2. IsRow(row) /\ row # NoCR /\ row.author = cr.author /\ row.status = "rejected"
    BY <2>1, ChangedStatus DEF Statuses
  <2>3. CommitReview(view, Moved(view.versions, cr.version, "wip"), c, row) /\ reviews \subseteq reviews'
    OBVIOUS
  <2> HIDE DEF row
  <2> QED BY <1>l, <2>1, <2>2, <2>3, CommitKeeps DEF Decided
<1> QED BY <1>1, <1>2, <1>3, <1>4, <1>5, <1>6

(* What is about versions, drafts and files ends a late transaction at most.*)
LEMMA ElsewhereLate == Elsewhere => setting' = setting /\ late' \subseteq late
<1> SUFFICES ASSUME Elsewhere PROVE setting' = setting /\ late' \subseteq late
  OBVIOUS
<1>1. ASSUME NEW w, CreateVersion(w) PROVE setting' = setting /\ late' \subseteq late
  BY <1>1 DEF CreateVersion
<1>2. ASSUME NEW u, NEW m, NEW took, Build(u, m, took) PROVE setting' = setting /\ late' = late
  BY <1>2 DEF Build
<1>3. ASSUME NEW u, NEW m, NEW c, NEW onto, Upload(u, m, c, onto) PROVE setting' = setting /\ late' = late
  BY <1>3 DEF Upload
<1>4. Make => setting' = setting /\ late' \subseteq late
  BY <1>1, <1>2, <1>3 DEF Make, Insert, GiveUp, ImportMesh, Classify, CommitDrafts, Built, RestoreVersion
<1>5. Draw => setting' = setting /\ late' = late
  BY DEF Draw, DeleteDraft, CreateDraft
<1>6. Clean => setting' = setting /\ late' = late
  BY DEF Clean, Collect, EndCollect, Age, Doom, Unlink
<1>7. Rollback => setting' = setting /\ late' \subseteq late
  BY DEF Rollback
<1>8. ASSUME NEW m, DeleteModel(m) \/ RestoreModel(m) PROVE setting' = setting /\ late' = late
  BY <1>8 DEF DeleteModel, RestoreModel
<1> QED BY <1>4, <1>5, <1>6, <1>7, <1>8 DEF Elsewhere

(* The invariant speaks of settings, rows and what is late, and of nothing  *)
(* else.                                                                    *)
LEMMA OthersKeep ==
  ASSUME ReviewedInv, setting' = setting, crs' = crs, reviews' = reviews,
         late' \subseteq late, late' # {} => lateCrs' = lateCrs
  PROVE  ReviewedInv'
<1>1. RowsSigned'
  BY DEF ReviewedInv, RowsSigned, Signed
<1>2. LateSigned'
  BY DEF ReviewedInv, LateSigned, Signed
<1> QED BY <1>1, <1>2 DEF ReviewedInv

(* A transaction begins: it reads what is there.                            *)
LEMMA BeginKeeps == ReviewedInv /\ BeginAll => ReviewedInv'
<1> SUFFICES ASSUME ReviewedInv, BeginAll PROVE ReviewedInv'
  OBVIOUS
<1>1. /\ setting.overlap /\ setting' = setting /\ crs' = crs /\ reviews' = reviews /\ lateCrs' = crs
      /\ late' = {View(TRUE)} /\ View(TRUE).late
  BY DEF BeginAll, Begin, View
<1>2. RowsSigned'
  BY <1>1 DEF ReviewedInv, RowsSigned, Signed
<1>3. LateSigned'
  BY <1>1 DEF ReviewedInv, RowsSigned, LateSigned, Signed
<1> QED BY <1>2, <1>3 DEF ReviewedInv

(* A purge takes requests and reviews of one model, and runs beside no      *)
(* other transaction.                                                       *)
LEMMA PurgeKeeps == ASSUME ReviewedInv, NEW m \in Models, PurgeAll(m) PROVE ReviewedInv'
<1>1. /\ setting' = setting /\ late' = {} /\ lateCrs' = lateCrs
      /\ crs' = [c \in CRs |-> IF crs[c].model = m THEN NoCR ELSE crs[c]]
      /\ reviews' = {r \in reviews : crs[r.cr].model # m}
  BY DEF PurgeAll, Purge
<1>2. ASSUME NEW c \in CRs PROVE IsRow(crs'[c]) /\ (Decided(crs'[c]) => Signed(reviews', c, crs'[c]))
  <2>1. CASE crs[c].model = m
    BY <1>1, <2>1 DEF IsRow, Decided, NoCR
  <2>2. CASE crs[c].model # m
    <3>1. crs'[c] = crs[c] /\ IsRow(crs[c]) /\ (Decided(crs[c]) => Signed(reviews, c, crs[c]))
      BY <1>1, <2>2 DEF ReviewedInv, RowsSigned
    <3>2. \A r \in reviews : r.cr = c => r \in reviews'
      BY <1>1, <2>2
    <3>3. Signed(reviews, c, crs[c]) => Signed(reviews', c, crs[c])
      BY <3>2 DEF Signed
    <3> QED BY <3>1, <3>3
  <2> QED BY <2>1, <2>2
<1>3. RowsSigned'
  BY <1>1, <1>2 DEF RowsSigned, IsRow, Decided, Signed
<1>4. LateSigned'
  BY <1>1 DEF LateSigned
<1> QED BY <1>3, <1>4 DEF ReviewedInv

LEMMA ReviewedNext == ReviewedInv /\ [NextAll]_all => ReviewedInv'
<1> SUFFICES ASSUME ReviewedInv, [NextAll]_all PROVE ReviewedInv'
  OBVIOUS
<1>1. CASE Consider
  BY <1>1, ConsiderKeeps
<1>2. CASE Elsewhere
  <2>1. setting' = setting /\ late' \subseteq late
    BY <1>2, ElsewhereLate
  <2>2. crs' = crs /\ reviews' = reviews /\ (late' # {} => lateCrs' = lateCrs)
    BY <1>2 DEF Elsewhere
  <2> QED BY <2>1, <2>2, OthersKeep
<1>3. CASE BeginAll
  BY <1>3, BeginKeeps
<1>4. CASE \E m \in Models : PurgeAll(m)
  BY <1>4, PurgeKeeps
<1>5. CASE UNCHANGED all
  <2>1. setting' = setting /\ crs' = crs /\ reviews' = reviews /\ late' = late /\ lateCrs' = lateCrs
    BY <1>5 DEF all, vars, review
  <2> QED BY <2>1, OthersKeep
<1> QED BY <1>1, <1>2, <1>3, <1>4, <1>5 DEF NextAll

(* review_cr and merge_cr: whatever was merged has among its reviews an     *)
(* approval by an approver other than the author of its change request;     *)
(* where transactions do not overlap, of the very version that was merged.  *)
THEOREM ReviewedCorrect == SpecAll => []ReviewedOnly
<1>1. ReviewedInv => ReviewedOnly
  BY DEF ReviewedInv, RowsSigned, Decided, Signed, ReviewedOnly
<1> QED BY <1>1, ReviewedInit, ReviewedNext, PTL DEF SpecAll

-----------------------------------------------------------------------------
(* The tables, what late transactions read of them, and what a version      *)
(* follows: the invariants.                                                 *)

(* The versions of each model that are not purged count from 1.             *)
Numbered(vs) ==
  \A m \in Models : {vs[i].number : i \in Of(vs, m)} = 1..Cardinality(Of(vs, m))

StoreTyped ==
  /\ setting \in Settings
  /\ models \in [Models -> {"alive", "deleted", "purged"}]
  /\ drafts \in [Drafts -> Draft]
  /\ files \in [Contents -> {"none", "new", "old"}]
  /\ gc \in Collection
  /\ work \in [Users -> Work]
  /\ \A u \in Users :
       /\ work[u].phase # "none" => work[u].model \in Models
       /\ work[u].phase = "stored" => work[u].sha \in Contents

(* The rows of a model are purged with it.                                  *)
VersionsTyped ==
  /\ versions \in Seq(Version)
  /\ Numbered(versions)
  /\ \A i \in DOMAIN versions :
       (versions[i].state = "purged") <=> (models[versions[i].model] = "purged")

(* vs was the table once, and nothing was purged since.                     *)
Earlier(vs) ==
  /\ vs \in Seq(Version) /\ Numbered(vs) /\ Len(vs) <= Len(versions)
  /\ \A i \in DOMAIN vs :
       /\ vs[i].model = versions[i].model /\ vs[i].number = versions[i].number
       /\ (vs[i].state = "purged") <=> (versions[i].state = "purged")

LateTyped ==
  /\ late = {} \/ \E view : late = {view}
  /\ ~setting.overlap => late = {}
  /\ \A view \in late : view.late = TRUE /\ Earlier(view.versions)

(* A change request is about a version of its model.                        *)
About(cr, vs) == cr.version \in DOMAIN vs /\ vs[cr.version].model = cr.model

CRsTyped ==
  /\ crs \in [CRs -> CR \cup {NoCR}]
  /\ \A c \in CRs : crs[c] # NoCR => About(crs[c], versions) /\ models[crs[c].model] # "purged"
  /\ reviews \subseteq [cr : CRs, by : Users, version : Nat]
  /\ \A view \in late : \A c \in CRs :
       /\ lateCrs[c] \in CR \cup {NoCR}
       /\ lateCrs[c] # NoCR =>
            /\ crs[c] # NoCR /\ lateCrs[c].model = crs[c].model
            /\ About(lateCrs[c], view.versions)

TypedInv == StoreTyped /\ VersionsTyped /\ LateTyped /\ CRsTyped

(* What a version follows is in the table.                                  *)
ForkInv ==
  ~setting.overlap =>
    \A v \in DOMAIN versions :
      LET onto == versions[v].onto
      IN  \/ onto = Any
          \/ onto = None /\ versions[v].number = 1
          \/ onto \in DOMAIN versions /\ versions[v].number = versions[onto].number + 1

-----------------------------------------------------------------------------
(* Numbers.                                                                 *)

LEMMA VersionsOf ==
  ASSUME NEW vs \in Seq(Version), NEW m
  PROVE  /\ IsFiniteSet(Of(vs, m)) /\ Cardinality(Of(vs, m)) \in Nat
         /\ Of(vs, m) \subseteq DOMAIN vs
<1>1. DOMAIN vs = 1..Len(vs) /\ Len(vs) \in Nat
  OBVIOUS
<1>2. IsFiniteSet(DOMAIN vs)
  BY <1>1, FS_Interval
<1>3. Of(vs, m) \in SUBSET DOMAIN vs
  BY DEF Of
<1> QED
  BY <1>2, <1>3, FS_Subset, FS_CardinalityType

(* The head has the greatest number, and the next version the one after it. *)
LEMMA Numbers ==
  ASSUME NEW vs \in Seq(Version), Numbered(vs), NEW m \in Models
  PROVE  LET n == Cardinality(Of(vs, m)) IN
         /\ n \in Nat /\ NextNumber(vs, m) = n + 1
         /\ \A i \in Of(vs, m) : vs[i].number \in 1..n
         /\ \A i, j \in Of(vs, m) : vs[i].number = vs[j].number => i = j
         /\ n = 0 => Of(vs, m) = {} /\ HeadVersion(vs, m) = None
         /\ n # 0 => HeadVersion(vs, m) \in Of(vs, m) /\ vs[HeadVersion(vs, m)].number = n
<1> DEFINE S == Of(vs, m)
           n == Cardinality(S)
           numbers == {vs[i].number : i \in S}
<1>1. IsFiniteSet(S) /\ n \in Nat
  BY VersionsOf
<1>2. numbers = 1..n
  BY DEF Numbered
<1>3. \A i \in S : vs[i].number \in 1..n
  BY <1>2
<1>4. ASSUME NEW i \in S, NEW j \in S, vs[i].number = vs[j].number PROVE i = j
  <2> DEFINE f == [k \in S |-> vs[k].number]
  <2> HIDE DEF S, n
  <2>1. f \in Surjection(S, numbers)
    <3>1. f \in [S -> numbers]
      OBVIOUS
    <3>2. \A t \in numbers : \E k \in S : f[k] = t
      OBVIOUS
    <3> QED
      BY <3>1, <3>2 DEF Surjection
  <2>2. Cardinality(numbers) = n
    <3>1. Cardinality(1..n) = IF 1 > n THEN 0 ELSE n - 1 + 1
      BY <1>1, FS_Interval
    <3>2. Cardinality(1..n) = n
      BY <1>1, <3>1
    <3> HIDE DEF numbers
    <3> QED
      BY <1>2, <3>2
  <2>3. f \in Injection(S, numbers)
    BY <1>1, <2>1, <2>2, FS_Surjection DEF n
  <2>4. f[i] = f[j]
    BY <1>4
  <2> QED
    BY <2>3, <2>4 DEF Injection, IsInjective
<1>5. NextNumber(vs, m) = n + 1
  <2> HIDE DEF n, S
  <2>1. {0} \cup numbers = 0..n
    BY <1>1, <1>2
  <2>2. Max(0..n) = n
    <3>1. n \in 0..n /\ \A k \in 0..n : n >= k
      BY <1>1
    <3>2. \A x \in 0..n : (\A y \in 0..n : x >= y) => x = n
      BY <1>1
    <3> QED
      BY <3>1, <3>2 DEF Max
  <2> QED
    BY <2>1, <2>2 DEF NextNumber, S
<1>6. n = 0 => S = {}
  BY <1>1, FS_EmptySet
<1>7. ASSUME n # 0 PROVE HeadVersion(vs, m) \in S /\ vs[HeadVersion(vs, m)].number = n
  <2> HIDE DEF n
  <2>1. n \in 1..n
    BY <1>1, <1>7
  <2>2. PICK i \in S : vs[i].number = n
    BY <1>2, <2>1
  <2>3. \A j \in S : vs[j].number <= vs[i].number
    BY <1>1, <1>3, <2>2
  <2> DEFINE h == HeadVersion(vs, m)
  <2>4. S # {}
    BY <2>2
  <2>5. h \in S /\ \A j \in S : vs[j].number <= vs[h].number
    BY <2>3, <2>4 DEF HeadVersion
  <2>6. vs[h].number = n
    BY <1>1, <1>3, <2>2, <2>5
  <2> QED
    BY <2>5, <2>6
<1> QED
  BY <1>1, <1>3, <1>4, <1>5, <1>6, <1>7 DEF HeadVersion

(* One more version.                                                        *)
LEMMA OfAppend ==
  ASSUME NEW vs \in Seq(Version), NEW v \in Version, v.state # "purged", NEW m
  PROVE  Of(Append(vs, v), m) = IF m = v.model THEN Of(vs, m) \cup {Len(vs) + 1} ELSE Of(vs, m)
<1>1. /\ DOMAIN Append(vs, v) = DOMAIN vs \cup {Len(vs) + 1}
      /\ Append(vs, v)[Len(vs) + 1] = v
      /\ \A i \in DOMAIN vs : Append(vs, v)[i] = vs[i]
      /\ Len(vs) + 1 \notin DOMAIN vs
  OBVIOUS
<1> QED
  BY <1>1 DEF Of

LEMMA NumberedAppend ==
  ASSUME NEW vs \in Seq(Version), Numbered(vs), NEW v \in Version, v.state # "purged",
         v.number = Cardinality(Of(vs, v.model)) + 1
  PROVE  Numbered(Append(vs, v))
<1> DEFINE ws == Append(vs, v)
           new == Len(vs) + 1
<1>1. ws[new] = v /\ (\A i \in DOMAIN vs : ws[i] = vs[i]) /\ new \notin DOMAIN vs
  OBVIOUS
<1>2. \A m : Of(ws, m) = IF m = v.model THEN Of(vs, m) \cup {new} ELSE Of(vs, m)
  BY OfAppend
<1>3. \A m : Of(vs, m) \subseteq DOMAIN vs /\ IsFiniteSet(Of(vs, m)) /\ Cardinality(Of(vs, m)) \in Nat
  BY VersionsOf
<1> HIDE DEF ws, new
<1>4. ASSUME NEW m \in Models, m # v.model
      PROVE  {ws[i].number : i \in Of(ws, m)} = 1..Cardinality(Of(ws, m))
  <2>1. Of(ws, m) = Of(vs, m) /\ \A i \in Of(vs, m) : ws[i] = vs[i]
    BY <1>1, <1>2, <1>3, <1>4
  <2>2. {ws[i].number : i \in Of(ws, m)} = {vs[i].number : i \in Of(vs, m)}
    BY <2>1
  <2> QED
    BY <2>1, <2>2 DEF Numbered
<1>5. ASSUME NEW m \in Models, m = v.model
      PROVE  {ws[i].number : i \in Of(ws, m)} = 1..Cardinality(Of(ws, m))
  <2> DEFINE S == Of(vs, m)
             n == Cardinality(S)
  <2>1. Of(ws, m) = S \cup {new} /\ new \notin S /\ \A i \in S : ws[i] = vs[i]
    BY <1>1, <1>2, <1>3, <1>5
  <2>2. Cardinality(Of(ws, m)) = n + 1
    BY <1>3, <2>1, FS_AddElement
  <2>3. {ws[i].number : i \in Of(ws, m)} = {vs[i].number : i \in S} \cup {v.number}
    BY <1>1, <2>1
  <2>4. {vs[i].number : i \in S} = 1..n
    BY DEF Numbered
  <2>5. n \in Nat /\ v.number = n + 1
    BY <1>3, <1>5
  <2>6. (1..n) \cup {n + 1} = 1..(n + 1)
    BY <2>5
  <2> HIDE DEF n, S
  <2> QED
    BY <2>2, <2>3, <2>4, <2>5, <2>6
<1> QED
  BY <1>4, <1>5 DEF Numbered, ws

(* Other states.                                                            *)
LEMMA NumberedRestated ==
  ASSUME NEW vs, NEW ws, DOMAIN ws = DOMAIN vs,
         \A i \in DOMAIN vs :
           /\ ws[i].model = vs[i].model /\ ws[i].number = vs[i].number
           /\ (ws[i].state = "purged") <=> (vs[i].state = "purged")
  PROVE  (\A m : Of(ws, m) = Of(vs, m)) /\ (Numbered(vs) => Numbered(ws))
<1>1. \A m : Of(ws, m) = Of(vs, m)
  BY DEF Of
<1>2. \A m : {ws[i].number : i \in Of(ws, m)} = {vs[i].number : i \in Of(vs, m)}
  <2> TAKE m
  <2>1. \A i \in Of(vs, m) : ws[i].number = vs[i].number
    BY DEF Of
  <2> QED
    BY <1>1, <2>1
<1> QED
  BY <1>1, <1>2 DEF Numbered

(* What some transactions read stays what the table was.                    *)
LEMMA EarlierStays ==
  ASSUME NEW vs, Earlier(vs), versions \in Seq(Version), versions' \in Seq(Version),
         Len(versions) <= Len(versions'),
         \A i \in DOMAIN versions :
           /\ versions'[i].model = versions[i].model /\ versions'[i].number = versions[i].number
           /\ (versions'[i].state = "purged") <=> (versions[i].state = "purged")
  PROVE  /\ vs \in Seq(Version) /\ Numbered(vs) /\ Len(vs) <= Len(versions')
         /\ \A i \in DOMAIN vs :
              /\ vs[i].model = versions'[i].model /\ vs[i].number = versions'[i].number
              /\ (vs[i].state = "purged") <=> (versions'[i].state = "purged")
<1>1. vs \in Seq(Version) /\ Len(vs) <= Len(versions)
  BY DEF Earlier
<1>2. DOMAIN vs \subseteq DOMAIN versions
  BY <1>1
<1> QED
  BY <1>1, <1>2 DEF Earlier

(* What a transaction reads, and what it finds of a change request.         *)
LEMMA ReadTyped ==
  ASSUME TypedInv, NEW view \in Views
  PROVE  /\ Earlier(view.versions)
         /\ ~setting.overlap => view = View(FALSE) /\ view.versions = versions
         /\ \A c \in CRs :
              /\ CRsOf(view)[c] \in CR \cup {NoCR}
              /\ CRsOf(view)[c] # NoCR =>
                   /\ crs[c] # NoCR /\ CRsOf(view)[c].model = crs[c].model
                   /\ About(CRsOf(view)[c], view.versions)
              /\ ~setting.overlap => CRsOf(view)[c] = crs[c]
<1>1. CASE view = View(FALSE)
  <2>1. CRsOf(view) = crs /\ view.versions = versions
    BY <1>1 DEF CRsOf, View
  <2>2. Earlier(versions)
    BY DEF Earlier, TypedInv, VersionsTyped
  <2> QED
    BY <1>1, <2>1, <2>2 DEF TypedInv, CRsTyped
<1>2. CASE view \in late
  <2>1. CRsOf(view) = lateCrs /\ setting.overlap /\ Earlier(view.versions)
    BY <1>2 DEF CRsOf, TypedInv, LateTyped
  <2> QED
    BY <1>2, <2>1 DEF TypedInv, CRsTyped
<1> QED
  BY <1>1, <1>2 DEF Views

(* The row that create_version inserts: also one who counted on rows that   *)
(* are not the last gets the number after the last, or none.                *)
LEMMA Creates ==
  ASSUME TypedInv, NEW w, w.model \in Models, w.sha \in Contents,
         w.onto \in Nat \cup {Any, None}, w.took \subseteq Drafts, CreateVersion(w)
  PROVE  LET new == [model |-> w.model, number |-> Cardinality(Of(versions, w.model)) + 1,
                     sha |-> w.sha, state |-> "wip", onto |-> w.onto, took |-> w.took]
         IN  /\ versions' = Append(versions, new) /\ new \in Version
             /\ models[w.model] # "purged" /\ drafts' = Without(w.took) /\ late' \subseteq late
             /\ UNCHANGED <<setting, models, files, gc>>
             /\ ~setting.overlap => HeadFits(versions, w)
<1> DEFINE m == w.model
           n == Cardinality(Of(versions, m))
           new == [model |-> w.model, number |-> n + 1,
                   sha |-> w.sha, state |-> "wip", onto |-> w.onto, took |-> w.took]
<1>0. PICK view \in Views : \E seen \in {view.versions, versions} :
        /\ models[m] # "purged"
        /\ HeadFits(view.versions, w)
        /\ NextNumber(seen, m) \notin {versions[i].number : i \in Of(versions, m)}
        /\ versions' = Append(versions,
             [model |-> w.model, number |-> NextNumber(seen, m), sha |-> w.sha, state |-> "wip",
              onto |-> w.onto, took |-> w.took])
        /\ drafts' = Without(w.took)
        /\ late' = late \ {view}
        /\ UNCHANGED <<setting, models, files, gc>>
  BY DEF CreateVersion
<1>1. PICK seen \in {view.versions, versions} :
        /\ models[m] # "purged"
        /\ HeadFits(view.versions, w)
        /\ NextNumber(seen, m) \notin {versions[i].number : i \in Of(versions, m)}
        /\ versions' = Append(versions,
             [model |-> w.model, number |-> NextNumber(seen, m), sha |-> w.sha, state |-> "wip",
              onto |-> w.onto, took |-> w.took])
        /\ drafts' = Without(w.took)
        /\ late' = late \ {view}
        /\ UNCHANGED <<setting, models, files, gc>>
  BY <1>0
<1>2. versions \in Seq(Version) /\ Numbered(versions)
  BY DEF TypedInv, VersionsTyped
<1>3. Earlier(seen) /\ (~setting.overlap => view.versions = versions)
  <2>1. Earlier(versions)
    BY <1>2 DEF Earlier
  <2> QED
    BY <2>1, ReadTyped
<1>4. NextNumber(seen, m) = n + 1
  <2> DEFINE k == Cardinality(Of(seen, m))
  <2>1. seen \in Seq(Version) /\ Numbered(seen) /\ Len(seen) <= Len(versions)
    BY <1>3 DEF Earlier
  <2>2. DOMAIN seen \subseteq DOMAIN versions
    BY <1>2, <2>1
  <2>3. Of(seen, m) \in SUBSET Of(versions, m)
    BY <1>3, <2>2 DEF Of, Earlier
  <2>4. k <= n /\ k \in Nat /\ n \in Nat
    BY <1>2, <2>1, <2>3, VersionsOf, FS_Subset
  <2>5. NextNumber(seen, m) = k + 1
    BY <2>1, Numbers
  <2>6. {versions[i].number : i \in Of(versions, m)} = 1..n
    BY <1>2 DEF Numbered
  <2>7. k + 1 \notin 1..n
    BY <1>1, <2>5, <2>6
  <2> HIDE DEF k, n
  <2> QED
    BY <2>4, <2>5, <2>7
<1>5. new \in Version
  <2>1. n \in Nat
    BY <1>2, VersionsOf
  <2> QED
    BY <2>1 DEF Version, States
<1> QED
  BY <1>1, <1>3, <1>4, <1>5

-----------------------------------------------------------------------------
(* What the steps do.                                                       *)

RequestTyped(w) ==
  /\ w.model \in Models /\ w.sha \in Contents
  /\ w.onto \in Nat \cup {Any, None} /\ w.took \subseteq Drafts

NewVersion(w) ==
  [model |-> w.model, number |-> Cardinality(Of(versions, w.model)) + 1,
   sha |-> w.sha, state |-> "wip", onto |-> w.onto, took |-> w.took]

Appends(w) ==
  /\ RequestTyped(w) /\ NewVersion(w) \in Version
  /\ versions' = Append(versions, NewVersion(w))
  /\ models[w.model] # "purged" /\ drafts' = Without(w.took) /\ late' \subseteq late
  /\ UNCHANGED <<setting, models, files, gc>>
  /\ ~setting.overlap => HeadFits(versions, w)

Becomes(u, w) == work' = [work EXCEPT ![u] = w]

OnlyWork == UNCHANGED <<setting, models, versions, drafts, gc, late>>

(* The steps of a request that makes a version, as far as the rest needs    *)
(* them.                                                                    *)
LEMMA MakeCases ==
  ASSUME TypedInv, Make
  PROVE  \/ \E w : Appends(w) /\ w.took = {} /\ w.sha \in Shas(versions) /\ work' = work
         \/ \E u \in Users :
              \/ work[u].phase = "stored" /\ Appends(work[u]) /\ Becomes(u, NoWork)
              \/ OnlyWork /\ files' = files /\ Becomes(u, NoWork)
              \/ \E m \in Models, c \in Contents, onto \in Nat \cup {Any} :
                   /\ OnlyWork /\ files' = Stored(c)
                   /\ Becomes(u, [phase |-> "stored", model |-> m, sha |-> c, onto |-> onto,
                                  took |-> {}])
              \/ \E m \in Models : \E took \in SUBSET {d \in Drafts : drafts[d].model = m} :
                   /\ OnlyWork /\ files' = files
                   /\ Becomes(u, [phase |-> "building", model |-> m, sha |-> None,
                                  onto |-> HeadVersion(versions, m), took |-> took])
              \/ \E c \in Contents :
                   /\ work[u].phase = "building" /\ OnlyWork /\ files' = Stored(c)
                   /\ work' = [work EXCEPT ![u].phase = "stored", ![u].sha = c]
<1> DEFINE Goal ==
         \/ \E w : Appends(w) /\ w.took = {} /\ w.sha \in Shas(versions) /\ work' = work
         \/ \E u \in Users :
              \/ work[u].phase = "stored" /\ Appends(work[u]) /\ Becomes(u, NoWork)
              \/ OnlyWork /\ files' = files /\ Becomes(u, NoWork)
              \/ \E m \in Models, c \in Contents, onto \in Nat \cup {Any} :
                   /\ OnlyWork /\ files' = Stored(c)
                   /\ Becomes(u, [phase |-> "stored", model |-> m, sha |-> c, onto |-> onto,
                                  took |-> {}])
              \/ \E m \in Models : \E took \in SUBSET {d \in Drafts : drafts[d].model = m} :
                   /\ OnlyWork /\ files' = files
                   /\ Becomes(u, [phase |-> "building", model |-> m, sha |-> None,
                                  onto |-> HeadVersion(versions, m), took |-> took])
              \/ \E c \in Contents :
                   /\ work[u].phase = "building" /\ OnlyWork /\ files' = Stored(c)
                   /\ work' = [work EXCEPT ![u].phase = "stored", ![u].sha = c]
<1>0. /\ setting.makers \subseteq Users /\ setting.contents \subseteq Contents
      /\ setting.models \subseteq Models /\ setting.drafts \subseteq Drafts
  BY VersionsAssumption DEF TypedInv, StoreTyped, Setting
<1>1. /\ work \in [Users -> Work] /\ versions \in Seq(Version) /\ DOMAIN versions \subseteq Nat
      /\ \A i \in DOMAIN versions : versions[i] \in Version
  BY DEF TypedInv, StoreTyped, VersionsTyped
<1>2. ASSUME NEW w, RequestTyped(w), CreateVersion(w) PROVE Appends(w)
  BY <1>2, Creates DEF RequestTyped, Appends, NewVersion
<1>3. ASSUME NEW u \in Users, Insert(u) PROVE Goal
  <2>1. RequestTyped(work[u])
    BY <1>1, <1>3 DEF Insert, RequestTyped, TypedInv, StoreTyped, Work
  <2>2. Appends(work[u])
    BY <1>2, <1>3, <2>1 DEF Insert
  <2> HIDE DEF Goal
  <2>3. work[u].phase = "stored" /\ Becomes(u, NoWork)
    BY <1>3 DEF Insert, Becomes
  <2> QED
    BY <2>2, <2>3 DEF Goal
<1>4. ASSUME NEW u \in Users, GiveUp(u) PROVE Goal
  BY <1>4 DEF GiveUp, Becomes, OnlyWork
<1>5. ASSUME NEW u \in Users, NEW m, NEW c \in Contents, NEW onto, Upload(u, m, c, onto) PROVE Goal
  <2>1. m \in Models /\ onto \in Nat \cup {Any}
    BY <1>0, <1>1, <1>5 DEF Upload, Alive, Of
  <2>2. /\ OnlyWork /\ files' = Stored(c)
        /\ Becomes(u, [phase |-> "stored", model |-> m, sha |-> c, onto |-> onto, took |-> {}])
    BY <1>5 DEF Upload, OnlyWork, Becomes
  <2> QED
    BY <2>1, <2>2
<1>6. ASSUME NEW u \in Users, NEW m, NEW took \in SUBSET {d \in Drafts : drafts[d].model = m}, Build(u, m, took)
      PROVE  Goal
  <2>1. m \in Models
    BY <1>0, <1>6 DEF Build, Alive
  <2>2. /\ OnlyWork /\ files' = files
        /\ Becomes(u, [phase |-> "building", model |-> m, sha |-> None,
                       onto |-> HeadVersion(versions, m), took |-> took])
    BY <1>6 DEF Build, OnlyWork, Becomes
  <2> QED
    BY <2>1, <2>2
<1>7. ASSUME NEW u \in Users, NEW m \in Models, ImportMesh(u, m) \/ Classify(u, m) PROVE Goal
  BY <1>0, <1>5, <1>6, <1>7 DEF ImportMesh, Classify
<1>8. ASSUME NEW u \in Users, NEW m \in Models, NEW named \in SUBSET setting.drafts, CommitDrafts(u, m, named)
      PROVE  Goal
  <2>1. named \in SUBSET {d \in Drafts : drafts[d].model = m}
    BY <1>8 DEF CommitDrafts
  <2> QED
    BY <1>6, <1>8, <2>1 DEF CommitDrafts
<1>9. ASSUME NEW u \in Users, NEW c \in Contents, Built(u, c) PROVE Goal
  BY <1>9 DEF Built, OnlyWork
<1>10. ASSUME NEW u \in Users, NEW v \in DOMAIN versions, NEW onto \in {Any} \cup DOMAIN versions, RestoreVersion(u, v, onto)
       PROVE  Goal
  <2>1. PICK m \in Models :
          /\ v \in Of(versions, m)
          /\ CreateVersion([model |-> m, sha |-> versions[v].sha, onto |-> onto, took |-> {}])
    BY <1>10 DEF RestoreVersion
  <2> DEFINE w == [model |-> m, sha |-> versions[v].sha, onto |-> onto, took |-> {}]
  <2>2. w.sha \in Shas(versions) /\ w.took = {}
    BY <2>1 DEF Shas, Of
  <2>3. RequestTyped(w)
    BY <1>1 DEF RequestTyped, Version
  <2> HIDE DEF w, Goal
  <2>4. Appends(w)
    BY <1>2, <2>1, <2>3 DEF w
  <2>5. work' = work
    BY <1>10 DEF RestoreVersion
  <2> QED
    BY <2>2, <2>4, <2>5 DEF Goal
<1> HIDE DEF Goal
<1>11. Goal
  BY <1>0, <1>3, <1>4, <1>5, <1>7, <1>8, <1>9, <1>10 DEF Make
<1> QED
  BY <1>11 DEF Goal

(* What a review writes: states of versions of one model that is alive, and *)
(* the row of one change request about such a version.                      *)
Restates(view, vs, m) ==
  /\ DOMAIN vs = DOMAIN view.versions
  /\ \A i \in DOMAIN vs :
       \/ vs[i] = view.versions[i]
       \/ /\ view.versions[i].model = m /\ vs[i].state \in States
          /\ vs[i] = [view.versions[i] EXCEPT !.state = vs[i].state]

Reviews(view, vs, c, row) ==
  /\ CommitReview(view, vs, c, row)
  /\ Alive(row.model) /\ Restates(view, vs, row.model)
  /\ row \in CR /\ About(row, view.versions)
  /\ \/ crs[c] = NoCR
     \/ CRsOf(view)[c] # NoCR /\ row.model = CRsOf(view)[c].model

LEMMA MovedRestates ==
  ASSUME NEW view, Earlier(view.versions), NEW m, NEW vs, Restates(view, vs, m),
         NEW i, i \in DOMAIN view.versions => view.versions[i].model = m, NEW state \in States
  PROVE  Restates(view, Moved(vs, i, state), m)
<1>1. view.versions \in Seq(Version) /\ \A j \in DOMAIN view.versions : view.versions[j] \in Version
  BY DEF Earlier
<1> DEFINE ws == Moved(vs, i, state)
<1>2. DOMAIN ws = DOMAIN vs
  BY DEF Moved
<1>3. ASSUME NEW j \in DOMAIN vs
      PROVE  \/ ws[j] = view.versions[j]
             \/ /\ view.versions[j].model = m /\ ws[j].state \in States
                /\ ws[j] = [view.versions[j] EXCEPT !.state = ws[j].state]
  <2>1. CASE j # i
    BY <2>1 DEF Moved, Restates
  <2>2. CASE j = i
    <3>1. view.versions[j].model = m /\ view.versions[j] \in Version
      BY <1>1, <2>2 DEF Restates
    <3>2. ws[j] = [vs[j] EXCEPT !.state = state]
      BY <2>2 DEF Moved
    <3>3. \/ vs[j] = view.versions[j]
          \/ vs[j] = [view.versions[j] EXCEPT !.state = vs[j].state]
      BY DEF Restates
    <3>4. ws[j] = [view.versions[j] EXCEPT !.state = state]
      BY <3>1, <3>2, <3>3 DEF Version
    <3>5. ws[j].state = state
      BY <3>1, <3>4 DEF Version
    <3> QED
      BY <3>1, <3>4, <3>5
  <2> QED
    BY <2>1, <2>2
<1> QED
  BY <1>2, <1>3 DEF Restates

LEMMA ConsiderCases ==
  ASSUME TypedInv, Consider
  PROVE  /\ \E view \in Views, c \in CRs : \E vs, row : Reviews(view, vs, c, row)
         /\ lateCrs' = IF late' = {} THEN <<>> ELSE lateCrs
         /\ reviews' \subseteq [cr : CRs, by : Users, version : Nat]
<1>0. reviews \subseteq [cr : CRs, by : Users, version : Nat]
  BY DEF TypedInv, CRsTyped
<1>1. \A view \in Views : /\ Earlier(view.versions) /\ view.versions \in Seq(Version)
                          /\ \A i \in DOMAIN view.versions : view.versions[i] \in Version /\ i \in Nat
                          /\ \A m : Restates(view, view.versions, m)
  <2> TAKE view \in Views
  <2>1. Earlier(view.versions) /\ view.versions \in Seq(Version)
    BY ReadTyped DEF Earlier
  <2>2. \A i \in DOMAIN view.versions : view.versions[i] \in Version /\ i \in Nat
    BY <2>1
  <2>3. \A m : Restates(view, view.versions, m)
    BY DEF Restates
  <2> QED
    BY <2>1, <2>2, <2>3
<1>2. ASSUME NEW view \in Views, NEW c \in CRs, Found(view, c)
      PROVE  LET cr == CRsOf(view)[c]
             IN  /\ cr \in CR /\ cr # NoCR /\ Alive(cr.model) /\ About(cr, view.versions)
                 /\ \A s \in Statuses : LET row == [cr EXCEPT !.status = s]
                                        IN  row \in CR /\ row.model = cr.model /\ row.version = cr.version
  <2> DEFINE cr == CRsOf(view)[c]
  <2>1. cr \in CR /\ cr # NoCR /\ cr.model = crs[c].model /\ Alive(crs[c].model) /\ About(cr, view.versions)
    BY <1>2, ReadTyped DEF Found
  <2> HIDE DEF cr
  <2>2. \A s \in Statuses : [cr EXCEPT !.status = s] \in CR /\ [cr EXCEPT !.status = s].model = cr.model
                            /\ [cr EXCEPT !.status = s].version = cr.version
    BY <2>1 DEF CR, Statuses
  <2> QED
    BY <2>1, <2>2 DEF cr
<1> DEFINE Goal(c) == \E view \in Views : \E vs, row : Reviews(view, vs, c, row)
<1>3. ASSUME NEW view \in Views, NEW c \in CRs, NEW vs, NEW s \in Statuses, Found(view, c),
             CommitReview(view, vs, c, [CRsOf(view)[c] EXCEPT !.status = s]),
             Restates(view, vs, CRsOf(view)[c].model)
      PROVE  Goal(c)
  <2> DEFINE cr == CRsOf(view)[c]
             row == [cr EXCEPT !.status = s]
  <2>1. row \in CR /\ row.model = cr.model /\ row.version = cr.version /\ cr # NoCR
        /\ Alive(row.model) /\ About(row, view.versions)
    BY <1>2, <1>3 DEF About
  <2>2. CommitReview(view, vs, c, row) /\ Restates(view, vs, row.model)
    BY <1>3, <2>1
  <2> HIDE DEF row
  <2> QED
    BY <2>1, <2>2 DEF Reviews
<1> PICK c \in CRs :
       \/ \E u \in Users :
            Approve(u, c) \/ RequestChanges(u, c) \/ \E v \in DOMAIN versions : CreateCR(u, c, v)
       \/ \E v \in DOMAIN versions : SetCRVersion(c, v)
       \/ MergeCR(c) \/ RejectCR(c)
  BY DEF Consider
<1>4. ASSUME NEW u \in Users, Approve(u, c) PROVE Goal(c) /\ reviews' \subseteq [cr : CRs, by : Users, version : Nat]
  <2>1. PICK view \in Views :
          /\ Found(view, c)
          /\ CommitReview(view, view.versions, c, [CRsOf(view)[c] EXCEPT !.status = "approved"])
          /\ reviews' = reviews \cup {[cr |-> c, by |-> u, version |-> CRsOf(view)[c].version]}
    BY <1>4 DEF Approve
  <2>2. CRsOf(view)[c].version \in Nat
    BY <1>1, <1>2, <2>1 DEF About
  <2>3. Goal(c)
    BY <1>1, <1>3, <2>1 DEF Statuses
  <2> QED
    BY <1>0, <2>1, <2>2, <2>3
<1>5. ASSUME NEW u \in Users, RequestChanges(u, c) PROVE Goal(c) /\ reviews' = reviews
  BY <1>1, <1>3, <1>5 DEF RequestChanges, Statuses
<1>6. ASSUME NEW u \in Users, NEW v \in DOMAIN versions, CreateCR(u, c, v) PROVE Goal(c) /\ reviews' = reviews
  <2>1. PICK view \in Views :
          /\ crs[c] = NoCR
          /\ v \in DOMAIN view.versions /\ Alive(view.versions[v].model)
          /\ CommitReview(view, Moved(view.versions, v, "shared"), c,
               [model |-> view.versions[v].model, version |-> v, author |-> u, status |-> "open"])
          /\ reviews' = reviews
    BY <1>6 DEF CreateCR
  <2> DEFINE row == [model |-> view.versions[v].model, version |-> v, author |-> u, status |-> "open"]
  <2>2. row \in CR /\ About(row, view.versions)
    BY <1>1, <2>1 DEF CR, Version, About
  <2>3. Restates(view, Moved(view.versions, v, "shared"), row.model)
    BY <1>1, MovedRestates DEF States
  <2>4. Alive(row.model) /\ CommitReview(view, Moved(view.versions, v, "shared"), c, row)
    BY <2>1
  <2> HIDE DEF row
  <2> QED
    BY <2>1, <2>2, <2>3, <2>4 DEF Reviews
<1>7. ASSUME NEW v \in DOMAIN versions, SetCRVersion(c, v) PROVE Goal(c) /\ reviews' = reviews
  <2>1. PICK view \in Views :
          /\ Found(view, c)
          /\ v \in Of(view.versions, CRsOf(view)[c].model)
          /\ CommitReview(view, Moved(Moved(view.versions, CRsOf(view)[c].version, "wip"), v, "shared"), c,
               [model |-> CRsOf(view)[c].model, version |-> v, author |-> CRsOf(view)[c].author, status |-> "open"])
          /\ reviews' = reviews
    BY <1>7 DEF SetCRVersion
  <2> DEFINE cr == CRsOf(view)[c]
             row == [model |-> cr.model, version |-> v, author |-> cr.author, status |-> "open"]
             vs == Moved(Moved(view.versions, cr.version, "wip"), v, "shared")
  <2>2. cr \in CR /\ cr # NoCR /\ Alive(cr.model) /\ About(cr, view.versions)
    BY <1>2, <2>1
  <2>3. row \in CR /\ About(row, view.versions) /\ row.model = cr.model
    BY <1>1, <2>1, <2>2 DEF CR, About, Of
  <2>4. Restates(view, vs, cr.model)
    <3>1. Restates(view, Moved(view.versions, cr.version, "wip"), cr.model)
      BY <1>1, <2>2, MovedRestates DEF States, About
    <3>2. view.versions[v].model = cr.model
      BY <2>1 DEF Of
    <3> QED
      BY <1>1, <3>1, <3>2, MovedRestates DEF States
  <2>5. CommitReview(view, vs, c, row)
    BY <2>1
  <2> HIDE DEF row, vs
  <2> QED
    BY <2>1, <2>2, <2>3, <2>4, <2>5 DEF Reviews
<1>8. ASSUME MergeCR(c) PROVE Goal(c) /\ reviews' = reviews
  <2>1. PICK view \in Views :
          /\ Found(view, c)
          /\ CommitReview(view, Published(view.versions, CRsOf(view)[c]), c, [CRsOf(view)[c] EXCEPT !.status = "merged"])
          /\ reviews' = reviews
    BY <1>8 DEF MergeCR
  <2> DEFINE cr == CRsOf(view)[c]
  <2>2. cr \in CR /\ cr # NoCR /\ Alive(cr.model) /\ About(cr, view.versions)
    BY <1>2, <2>1
  <2>3. Restates(view, Published(view.versions, cr), cr.model)
    <3> DEFINE vs == Published(view.versions, cr)
    <3>1. DOMAIN vs = DOMAIN view.versions
      BY DEF Published
    <3>2. ASSUME NEW i \in DOMAIN view.versions
          PROVE  \/ vs[i] = view.versions[i]
                 \/ /\ view.versions[i].model = cr.model /\ vs[i].state \in States
                    /\ vs[i] = [view.versions[i] EXCEPT !.state = vs[i].state]
      <4>1. view.versions[i] \in Version
        BY <1>1
      <4>2. \A s \in States : [view.versions[i] EXCEPT !.state = s].state = s
        BY <4>1 DEF Version
      <4>3. \/ vs[i] = view.versions[i]
            \/ /\ view.versions[i].model = cr.model
               /\ \E s \in States : vs[i] = [view.versions[i] EXCEPT !.state = s]
        BY <2>2 DEF Published, Of, About, States
      <4> HIDE DEF vs
      <4> QED
        BY <4>2, <4>3
    <3> QED
      BY <3>1, <3>2 DEF Restates
  <2> QED
    BY <1>3, <2>1, <2>3 DEF Statuses
<1>9. ASSUME RejectCR(c) PROVE Goal(c) /\ reviews' = reviews
  <2>1. PICK view \in Views :
          /\ Found(view, c)
          /\ CommitReview(view, Moved(view.versions, CRsOf(view)[c].version, "wip"), c,
                          [CRsOf(view)[c] EXCEPT !.status = "rejected"])
          /\ reviews' = reviews
    BY <1>9 DEF RejectCR
  <2>2. About(CRsOf(view)[c], view.versions)
    BY <1>2, <2>1
  <2>3. Restates(view, Moved(view.versions, CRsOf(view)[c].version, "wip"), CRsOf(view)[c].model)
    BY <1>1, <2>2, MovedRestates DEF States, About
  <2> QED
    BY <1>3, <2>1, <2>3 DEF Statuses
<1>10. lateCrs' = IF late' = {} THEN <<>> ELSE lateCrs
  BY DEF Consider
<1> HIDE DEF Goal
<1>11. Goal(c) /\ reviews' \subseteq [cr : CRs, by : Users, version : Nat]
  BY <1>0, <1>4, <1>5, <1>6, <1>7, <1>8, <1>9
<1> QED
  BY <1>10, <1>11 DEF Goal

-----------------------------------------------------------------------------
(* Types.                                                                   *)

(* Rows that are added, or change their state but for purges, leave late    *)
(* transactions with what was the table once.                               *)
LEMMA LateKeeps ==
  ASSUME TypedInv, versions' \in Seq(Version), Len(versions) <= Len(versions'),
         \A i \in DOMAIN versions :
           /\ versions'[i].model = versions[i].model /\ versions'[i].number = versions[i].number
           /\ (versions'[i].state = "purged") <=> (versions[i].state = "purged"),
         setting' = setting, late' \subseteq late, late' # {} => lateCrs' = lateCrs,
         \A c \in CRs : crs[c] # NoCR => crs'[c] # NoCR /\ crs'[c].model = crs[c].model
  PROVE  /\ LateTyped'
         /\ \A view \in late' : \A c \in CRs :
              /\ lateCrs'[c] \in CR \cup {NoCR}
              /\ lateCrs'[c] # NoCR =>
                   /\ crs'[c] # NoCR /\ lateCrs'[c].model = crs'[c].model
                   /\ About(lateCrs'[c], view.versions)
<1>1. versions \in Seq(Version)
  BY DEF TypedInv, VersionsTyped
<1>2. \A view \in late : view.late = TRUE /\ Earlier(view.versions)
  BY DEF TypedInv, LateTyped
<1>3. \A view \in late' : view.late = TRUE /\ Earlier(view.versions)'
  BY <1>1, <1>2, EarlierStays DEF Earlier
<1>4. late' = {} \/ \E view : late' = {view}
  BY DEF TypedInv, LateTyped
<1>5. LateTyped'
  BY <1>3, <1>4 DEF TypedInv, LateTyped
<1>6. ASSUME NEW view \in late', NEW c \in CRs
      PROVE  /\ lateCrs'[c] \in CR \cup {NoCR}
             /\ lateCrs'[c] # NoCR =>
                  /\ crs'[c] # NoCR /\ lateCrs'[c].model = crs'[c].model
                  /\ About(lateCrs'[c], view.versions)
  <2>1. view \in late /\ lateCrs' = lateCrs
    OBVIOUS
  <2> QED
    BY <2>1 DEF TypedInv, CRsTyped
<1> QED
  BY <1>5, <1>6

(* A change request stays about its version.                                *)
LEMMA AboutKeeps ==
  ASSUME NEW cr, NEW vs \in Seq(Version), NEW ws \in Seq(Version), About(cr, vs), Len(vs) <= Len(ws),
         \A i \in DOMAIN vs : ws[i].model = vs[i].model
  PROVE  About(cr, ws)
<1>1. DOMAIN vs \subseteq DOMAIN ws
  OBVIOUS
<1> QED
  BY <1>1 DEF About

LEMMA TypedAppend ==
  ASSUME TypedInv, NEW w, Appends(w), work' \in [Users -> Work],
         \A u \in Users : /\ work'[u].phase # "none" => work'[u].model \in Models
                          /\ work'[u].phase = "stored" => work'[u].sha \in Contents,
         UNCHANGED <<crs, reviews>>, lateCrs' = IF late' = {} THEN <<>> ELSE lateCrs
  PROVE  TypedInv'
<1> DEFINE new == NewVersion(w)
<1>1. versions \in Seq(Version) /\ Numbered(versions) /\ new \in Version /\ versions' = Append(versions, new)
  BY DEF TypedInv, VersionsTyped, Appends
<1>2. new.model = w.model /\ new.number = Cardinality(Of(versions, w.model)) + 1 /\ new.state = "wip"
  BY DEF NewVersion
<1> HIDE DEF new
<1>3. /\ versions' \in Seq(Version) /\ Len(versions) <= Len(versions')
      /\ DOMAIN versions' = DOMAIN versions \cup {Len(versions) + 1}
      /\ versions'[Len(versions) + 1] = new
      /\ \A i \in DOMAIN versions : versions'[i] = versions[i]
  BY <1>1
<1>4. Numbered(versions')
  BY <1>1, <1>2, NumberedAppend
<1>5. StoreTyped'
  <2>1. drafts' \in [Drafts -> Draft]
    BY DEF Appends, Without, TypedInv, StoreTyped, NoDraft, Draft
  <2> QED
    BY <2>1 DEF Appends, TypedInv, StoreTyped
<1>6. VersionsTyped'
  <2>1. (new.state = "purged") <=> (models[new.model] = "purged")
    BY <1>2 DEF Appends
  <2>2. models' = models
    BY DEF Appends
  <2>3. \A i \in DOMAIN versions' : (versions'[i].state = "purged") <=> (models'[versions'[i].model] = "purged")
    BY <1>3, <2>1, <2>2 DEF TypedInv, VersionsTyped
  <2> QED
    BY <1>3, <1>4, <2>3 DEF VersionsTyped, Numbered
<1>7. /\ LateTyped'
      /\ \A view \in late' : \A c \in CRs :
              /\ lateCrs'[c] \in CR \cup {NoCR}
              /\ lateCrs'[c] # NoCR =>
                   /\ crs'[c] # NoCR /\ lateCrs'[c].model = crs'[c].model
                   /\ About(lateCrs'[c], view.versions)
  BY <1>3, LateKeeps DEF Appends
<1>8. CRsTyped'
  <2>1. ASSUME NEW c \in CRs, crs'[c] # NoCR
        PROVE  About(crs'[c], versions') /\ models'[crs'[c].model] # "purged"
    <3>1. crs'[c] = crs[c] /\ models' = models
      BY DEF Appends
    <3>2. About(crs[c], versions) /\ models[crs[c].model] # "purged"
      BY <2>1, <3>1 DEF TypedInv, CRsTyped
    <3>3. \A i \in DOMAIN versions : versions'[i].model = versions[i].model
      BY <1>3
    <3>4. About(crs[c], versions')
      BY <1>1, <1>3, <3>2, <3>3, AboutKeeps
    <3> QED
      BY <3>1, <3>2, <3>4
  <2> QED
    BY <1>7, <2>1 DEF TypedInv, CRsTyped, About
<1> QED
  BY <1>5, <1>6, <1>7, <1>8 DEF TypedInv

(* Neither versions nor change requests change.                             *)
LEMMA TypedRest ==
  ASSUME TypedInv, UNCHANGED <<setting, versions, crs, reviews>>, StoreTyped',
         \A m \in Models : (models'[m] = "purged") <=> (models[m] = "purged"),
         late' \subseteq late, late' # {} => lateCrs' = lateCrs
  PROVE  TypedInv'
<1>1. versions \in Seq(Version) /\ \A i \in DOMAIN versions : versions[i].model \in Models
  <2>1. \A i \in DOMAIN versions : versions[i] \in Version
    BY DEF TypedInv, VersionsTyped
  <2> QED
    BY <2>1 DEF TypedInv, VersionsTyped, Version
<1>2. VersionsTyped'
  BY <1>1 DEF TypedInv, VersionsTyped, Numbered, Of
<1>3. /\ LateTyped'
      /\ \A view \in late' : \A c \in CRs :
              /\ lateCrs'[c] \in CR \cup {NoCR}
              /\ lateCrs'[c] # NoCR =>
                   /\ crs'[c] # NoCR /\ lateCrs'[c].model = crs'[c].model
                   /\ About(lateCrs'[c], view.versions)
  BY <1>1, LateKeeps
<1>4. CRsTyped'
  <2>1. \A c \in CRs : crs[c] # NoCR => crs[c].model \in Models
    BY DEF TypedInv, CRsTyped, CR
  <2> QED
    BY <1>3, <2>1 DEF TypedInv, CRsTyped, About
<1> QED
  BY <1>2, <1>3, <1>4 DEF TypedInv

(* A request takes the place of another.                                    *)
LEMMA WorkTyped ==
  ASSUME TypedInv, NEW u \in Users, NEW w \in Work, Becomes(u, w),
         w.phase # "none" => w.model \in Models, w.phase = "stored" => w.sha \in Contents
  PROVE  /\ work' \in [Users -> Work]
         /\ \A x \in Users : /\ work'[x].phase # "none" => work'[x].model \in Models
                             /\ work'[x].phase = "stored" => work'[x].sha \in Contents
<1>1. work \in [Users -> Work] /\ work' = [work EXCEPT ![u] = w]
  BY DEF TypedInv, StoreTyped, Becomes
<1>2. work' \in [Users -> Work]
  BY <1>1
<1>3. ASSUME NEW x \in Users
      PROVE  /\ work'[x].phase # "none" => work'[x].model \in Models
             /\ work'[x].phase = "stored" => work'[x].sha \in Contents
  <2>1. CASE x = u
    BY <1>1, <2>1
  <2>2. CASE x # u
    BY <1>1, <2>2 DEF TypedInv, StoreTyped
  <2> QED
    BY <2>1, <2>2
<1> QED
  BY <1>2, <1>3

LEMMA MakeTyped ==
  ASSUME TypedInv, Make, UNCHANGED <<crs, reviews>>, lateCrs' = IF late' = {} THEN <<>> ELSE lateCrs
  PROVE  TypedInv'
<1>0. versions \in Seq(Version) /\ Numbered(versions) /\ DOMAIN versions \subseteq Nat
  BY DEF TypedInv, VersionsTyped
<1>1. ASSUME OnlyWork, files' \in [Contents -> {"none", "new", "old"}], work' \in [Users -> Work],
             \A x \in Users : /\ work'[x].phase # "none" => work'[x].model \in Models
                              /\ work'[x].phase = "stored" => work'[x].sha \in Contents
      PROVE  TypedInv'
  <2>1. StoreTyped'
    BY <1>1 DEF OnlyWork, TypedInv, StoreTyped
  <2> QED
    BY <1>1, <2>1, TypedRest DEF OnlyWork
<1>2. files \in [Contents -> {"none", "new", "old"}] /\ work \in [Users -> Work]
      /\ \A x \in Users : /\ work[x].phase # "none" => work[x].model \in Models
                          /\ work[x].phase = "stored" => work[x].sha \in Contents
  BY DEF TypedInv, StoreTyped
<1>3. \A c : Stored(c) \in [Contents -> {"none", "new", "old"}]
  BY <1>2 DEF Stored
<1>4. NoWork \in Work /\ NoWork.phase = "none"
  BY DEF NoWork, Work
<1>5. ASSUME NEW w, Appends(w), work' = work PROVE TypedInv'
  BY <1>2, <1>5, TypedAppend
<1> SUFFICES ASSUME NEW u \in Users,
              \/ work[u].phase = "stored" /\ Appends(work[u]) /\ Becomes(u, NoWork)
              \/ OnlyWork /\ files' = files /\ Becomes(u, NoWork)
              \/ \E m \in Models, c \in Contents, onto \in Nat \cup {Any} :
                   /\ OnlyWork /\ files' = Stored(c)
                   /\ Becomes(u, [phase |-> "stored", model |-> m, sha |-> c, onto |-> onto,
                                  took |-> {}])
              \/ \E m \in Models : \E took \in SUBSET {d \in Drafts : drafts[d].model = m} :
                   /\ OnlyWork /\ files' = files
                   /\ Becomes(u, [phase |-> "building", model |-> m, sha |-> None,
                                  onto |-> HeadVersion(versions, m), took |-> took])
              \/ \E c \in Contents :
                   /\ work[u].phase = "building" /\ OnlyWork /\ files' = Stored(c)
                   /\ work' = [work EXCEPT ![u].phase = "stored", ![u].sha = c]
             PROVE  TypedInv'
  BY <1>5, MakeCases
<1>6. ASSUME Appends(work[u]), Becomes(u, NoWork) PROVE TypedInv'
  <2>1. /\ work' \in [Users -> Work]
        /\ \A x \in Users : /\ work'[x].phase # "none" => work'[x].model \in Models
                            /\ work'[x].phase = "stored" => work'[x].sha \in Contents
    BY <1>4, <1>6, WorkTyped
  <2> QED
    BY <1>6, <2>1, TypedAppend
<1>7. ASSUME NEW w \in Work, Becomes(u, w), w.phase # "none" => w.model \in Models,
             w.phase = "stored" => w.sha \in Contents, OnlyWork,
             files' \in [Contents -> {"none", "new", "old"}]
      PROVE  TypedInv'
  <2>1. /\ work' \in [Users -> Work]
        /\ \A x \in Users : /\ work'[x].phase # "none" => work'[x].model \in Models
                            /\ work'[x].phase = "stored" => work'[x].sha \in Contents
    BY <1>7, WorkTyped
  <2> QED
    BY <1>1, <1>7, <2>1
<1>8. ASSUME NEW m \in Models, NEW c \in Contents, NEW onto \in Nat \cup {Any}, OnlyWork, files' = Stored(c),
             Becomes(u, [phase |-> "stored", model |-> m, sha |-> c, onto |-> onto, took |-> {}])
      PROVE  TypedInv'
  <2> DEFINE w == [phase |-> "stored", model |-> m, sha |-> c, onto |-> onto, took |-> {}]
  <2>1. w \in Work /\ w.model \in Models /\ w.sha \in Contents
    BY DEF Work
  <2> QED
    BY <1>3, <1>7, <1>8, <2>1
<1>9. ASSUME NEW m \in Models, NEW took \in SUBSET {d \in Drafts : drafts[d].model = m}, OnlyWork, files' = files,
             Becomes(u, [phase |-> "building", model |-> m, sha |-> None,
                         onto |-> HeadVersion(versions, m), took |-> took])
      PROVE  TypedInv'
  <2> DEFINE w == [phase |-> "building", model |-> m, sha |-> None,
                   onto |-> HeadVersion(versions, m), took |-> took]
  <2>1. HeadVersion(versions, m) \in Nat \cup {None}
    <3>1. Of(versions, m) \subseteq Nat
      BY <1>0, VersionsOf
    <3> QED
      BY <1>0, <3>1, Numbers
  <2>2. w \in Work /\ w.model \in Models /\ w.phase = "building"
    BY <2>1 DEF Work
  <2> HIDE DEF w
  <2> QED
    BY <1>2, <1>7, <1>9, <2>2 DEF w
<1>10. ASSUME NEW c \in Contents, work[u].phase = "building", OnlyWork, files' = Stored(c),
              work' = [work EXCEPT ![u].phase = "stored", ![u].sha = c]
       PROVE  TypedInv'
  <2> DEFINE w == [work[u] EXCEPT !.phase = "stored", !.sha = c]
  <2>1. Becomes(u, w)
    BY <1>2, <1>10 DEF Becomes, Work
  <2>2. w \in Work /\ w.model \in Models /\ w.sha \in Contents
    BY <1>2, <1>10 DEF Work
  <2> HIDE DEF w
  <2> QED
    BY <1>3, <1>7, <1>10, <2>1, <2>2
<1> QED
  BY <1>2, <1>4, <1>6, <1>7, <1>8, <1>9, <1>10

LEMMA ElsewhereTyped == ASSUME TypedInv, Elsewhere PROVE TypedInv'
<1>0. /\ UNCHANGED <<crs, reviews>> /\ lateCrs' = IF late' = {} THEN <<>> ELSE lateCrs
      /\ Make \/ Draw \/ Clean \/ Rollback \/ \E m \in Models : DeleteModel(m) \/ RestoreModel(m)
  BY DEF Elsewhere
<1>1. ASSUME UNCHANGED <<setting, versions>>, StoreTyped', late' \subseteq late,
             \A m \in Models : (models'[m] = "purged") <=> (models[m] = "purged")
      PROVE  TypedInv'
  BY <1>0, <1>1, TypedRest
<1>2. CASE Make
  BY <1>0, <1>2, MakeTyped
<1>3. CASE Draw
  <2>1. PICK u \in Users, d \in Drafts : DeleteDraft(u, d) \/ \E m \in Models : CreateDraft(u, m, d)
    BY <1>3 DEF Draw
  <2>2. drafts' \in [Drafts -> Draft]
    <3>1. drafts \in [Drafts -> Draft] /\ setting.models \subseteq Models
      BY VersionsAssumption DEF TypedInv, StoreTyped, Setting
    <3>2. CASE DeleteDraft(u, d)
      BY <3>1, <3>2 DEF DeleteDraft, Without, NoDraft, Draft
    <3>3. ASSUME NEW m \in Models, CreateDraft(u, m, d) PROVE drafts' \in [Drafts -> Draft]
      BY <3>1, <3>3 DEF CreateDraft, Draft
    <3> QED
      BY <2>1, <3>2, <3>3
  <2>3. UNCHANGED <<setting, models, versions, files, work, gc, late>>
    BY <2>1 DEF DeleteDraft, CreateDraft
  <2>4. StoreTyped'
    BY <2>2, <2>3 DEF TypedInv, StoreTyped
  <2> QED
    BY <1>1, <2>3, <2>4
<1>4. CASE Clean
  <2>1. UNCHANGED <<setting, models, versions, drafts, work, late>>
    BY <1>4 DEF Clean, Collect, EndCollect, Age, Doom, Unlink
  <2>2. files' \in [Contents -> {"none", "new", "old"}]
    BY <1>4 DEF Clean, Collect, EndCollect, Age, Doom, Unlink, TypedInv, StoreTyped
  <2>3. gc \in Collection /\ Shas(versions) \subseteq Contents
    <3>1. \A i \in DOMAIN versions : versions[i] \in Version
      BY DEF TypedInv, VersionsTyped
    <3> QED
      BY <3>1 DEF TypedInv, StoreTyped, Shas, Version
  <2>4. gc' \in Collection
    <3>1. CASE Collect
      BY <2>3, <3>1 DEF Collect, Collecting, Collection
    <3>2. CASE EndCollect
      BY <3>2 DEF EndCollect, NoCollection, Collection
    <3>3. ASSUME NEW c \in Contents, Age(c) \/ Doom(c) \/ Unlink(c) PROVE gc' \in Collection
      BY <2>3, <3>3 DEF Age, Doom, Unlink, Collection
    <3> QED
      BY <1>4, <3>1, <3>2, <3>3 DEF Clean
  <2>5. StoreTyped'
    BY <2>1, <2>2, <2>4 DEF TypedInv, StoreTyped
  <2> QED
    BY <1>1, <2>1, <2>5
<1>5. CASE Rollback
  <2>1. UNCHANGED <<setting, models, versions, drafts, files, work, gc>> /\ late' = {}
    BY <1>5 DEF Rollback, store
  <2>2. StoreTyped'
    BY <2>1 DEF TypedInv, StoreTyped
  <2> QED
    BY <1>1, <2>1, <2>2
<1>6. ASSUME NEW m \in Models, DeleteModel(m) \/ RestoreModel(m) PROVE TypedInv'
  <2>1. UNCHANGED <<setting, versions, drafts, files, work, gc, late>>
    BY <1>6 DEF DeleteModel, RestoreModel
  <2>2. /\ models' \in [Models -> {"alive", "deleted", "purged"}]
        /\ \A x \in Models : (models'[x] = "purged") <=> (models[x] = "purged")
    BY <1>6 DEF DeleteModel, RestoreModel, Alive, TypedInv, StoreTyped
  <2>3. StoreTyped'
    BY <2>1, <2>2 DEF TypedInv, StoreTyped
  <2> QED
    BY <1>1, <2>1, <2>2, <2>3
<1> QED
  BY <1>0, <1>2, <1>3, <1>4, <1>5, <1>6

LEMMA BeginTyped == ASSUME TypedInv, BeginAll PROVE TypedInv'
<1>1. /\ setting.overlap /\ late' = {View(TRUE)} /\ lateCrs' = crs
      /\ UNCHANGED <<setting, models, versions, drafts, files, work, gc, crs, reviews>>
  BY DEF BeginAll, Begin, store
<1>2. StoreTyped'
  BY <1>1 DEF TypedInv, StoreTyped
<1>3. View(TRUE).late = TRUE /\ View(TRUE).versions = versions
  BY DEF View
<1>4. VersionsTyped'
  BY <1>1 DEF TypedInv, VersionsTyped
<1>5. LateTyped'
  <2>1. versions \in Seq(Version) /\ Numbered(versions) /\ Len(versions) <= Len(versions)
    BY DEF TypedInv, VersionsTyped
  <2>2. ASSUME NEW view \in late' PROVE view.late = TRUE /\ Earlier(view.versions)'
    <3>1. view.late = TRUE /\ view.versions = versions
      BY <1>1, <1>3
    <3> QED
      BY <1>1, <2>1, <3>1 DEF Earlier
  <2> QED
    BY <1>1, <2>2 DEF LateTyped
<1>6. CRsTyped'
  BY <1>1, <1>3 DEF TypedInv, CRsTyped, About
<1> QED
  BY <1>2, <1>4, <1>5, <1>6 DEF TypedInv

(* The rows of a purged model go, those of the others stay as they are.     *)
LEMMA PurgeVersions ==
  ASSUME TypedInv, NEW m \in Models, Purge(m)
  PROVE  /\ versions' \in Seq(Version) /\ DOMAIN versions' = DOMAIN versions
         /\ \A i \in DOMAIN versions :
              /\ versions'[i] = [versions[i] EXCEPT !.state = versions'[i].state]
              /\ versions'[i].state = IF versions[i].model = m THEN "purged" ELSE versions[i].state
         /\ \A x : Of(versions', x) = IF x = m THEN {} ELSE Of(versions, x)
         /\ Numbered(versions')
<1>1. versions \in Seq(Version) /\ Numbered(versions)
      /\ \A i \in DOMAIN versions :
           versions[i] \in Version /\ ((versions[i].state = "purged") <=> (models[versions[i].model] = "purged"))
  BY DEF TypedInv, VersionsTyped
<1>2. versions' = [i \in DOMAIN versions |->
                    IF i \in Of(versions, m) THEN [versions[i] EXCEPT !.state = "purged"] ELSE versions[i]]
  BY DEF Purge
<1>3. ASSUME NEW i \in DOMAIN versions
      PROVE  /\ versions'[i] = [versions[i] EXCEPT !.state = versions'[i].state]
             /\ versions'[i].state = IF versions[i].model = m THEN "purged" ELSE versions[i].state
             /\ versions'[i] \in Version
  BY <1>1, <1>2 DEF Of, Version
<1>4. versions' \in Seq(Version) /\ DOMAIN versions' = DOMAIN versions
  <2>1. DOMAIN versions = 1..Len(versions) /\ Len(versions) \in Nat
    BY <1>1
  <2>2. versions' = [i \in 1..Len(versions) |-> versions'[i]]
    BY <1>2, <2>1
  <2> QED
    BY <1>3, <2>1, <2>2
<1>5. \A i \in DOMAIN versions : versions'[i].model = versions[i].model /\ versions'[i].number = versions[i].number
  BY <1>1, <1>3 DEF Version
<1>6. ASSUME NEW x PROVE Of(versions', x) = IF x = m THEN {} ELSE Of(versions, x)
  BY <1>3, <1>4, <1>5 DEF Of
<1>7. Numbered(versions')
  <2> SUFFICES ASSUME NEW x \in Models
               PROVE  {versions'[i].number : i \in Of(versions', x)} = 1..Cardinality(Of(versions', x))
    BY DEF Numbered
  <2>1. CASE x = m
    <3>1. Of(versions', x) = {} /\ Cardinality(Of(versions', x)) = 0
      BY <1>6, <2>1, FS_EmptySet
    <3> QED
      BY <3>1
  <2>2. CASE x # m
    <3>1. Of(versions', x) = Of(versions, x) /\ Of(versions, x) \subseteq DOMAIN versions
      BY <1>6, <2>2 DEF Of
    <3>2. {versions'[i].number : i \in Of(versions', x)} = {versions[i].number : i \in Of(versions, x)}
      BY <1>5, <3>1
    <3> QED
      BY <1>1, <3>1, <3>2 DEF Numbered
  <2> QED
    BY <2>1, <2>2
<1> QED
  BY <1>3, <1>4, <1>6, <1>7

LEMMA PurgeTyped == ASSUME TypedInv, NEW m \in Models, PurgeAll(m) PROVE TypedInv'
<1>1. Purge(m) /\ late = {} /\ UNCHANGED <<setting, files, work, late, lateCrs>>
      /\ models' = [models EXCEPT ![m] = "purged"]
      /\ crs' = [c \in CRs |-> IF crs[c].model = m THEN NoCR ELSE crs[c]]
      /\ reviews' \subseteq reviews
  BY DEF PurgeAll, Purge
<1>2. /\ versions' \in Seq(Version) /\ DOMAIN versions' = DOMAIN versions
      /\ \A i \in DOMAIN versions :
           /\ versions'[i] = [versions[i] EXCEPT !.state = versions'[i].state]
           /\ versions'[i].state = IF versions[i].model = m THEN "purged" ELSE versions[i].state
      /\ Numbered(versions')
  BY <1>1, PurgeVersions
<1>3. \A i \in DOMAIN versions : versions'[i].model = versions[i].model /\ versions[i].model \in Models
  <2>1. \A i \in DOMAIN versions : versions[i] \in Version
    BY DEF TypedInv, VersionsTyped
  <2> QED
    BY <1>2, <2>1 DEF Version
<1>4. StoreTyped'
  <2>1. drafts' \in [Drafts -> Draft]
    BY <1>1 DEF Purge, Without, NoDraft, Draft, TypedInv, StoreTyped
  <2>2. gc' \in Collection
    <3>1. \A i \in DOMAIN versions' : versions'[i] \in Version
      BY <1>2
    <3>2. Shas(versions') \subseteq Contents /\ \A i \in Of(versions, m) : versions[i].sha \in Contents
      <4>1. \A i \in DOMAIN versions : versions[i] \in Version
        BY DEF TypedInv, VersionsTyped
      <4>2. Shas(versions') \subseteq Contents
        BY <3>1 DEF Shas, Version
      <4> QED
        BY <4>1, <4>2 DEF Of, Version
    <3>3. gc' = Collecting(versions', {versions[i].sha : i \in Of(versions, m)})
      BY <1>1 DEF Purge
    <3> QED
      BY <3>2, <3>3 DEF Collecting, Collection
  <2>3. models' \in [Models -> {"alive", "deleted", "purged"}]
    BY <1>1 DEF TypedInv, StoreTyped
  <2> QED
    BY <1>1, <2>1, <2>2, <2>3 DEF TypedInv, StoreTyped
<1>5. VersionsTyped'
  <2>1. \A i \in DOMAIN versions' : (versions'[i].state = "purged") <=> (models'[versions'[i].model] = "purged")
    BY <1>1, <1>2, <1>3 DEF TypedInv, VersionsTyped, StoreTyped
  <2> QED
    BY <1>2, <2>1 DEF VersionsTyped, Numbered, Of
<1>6. LateTyped'
  BY <1>1 DEF LateTyped
<1>7. CRsTyped'
  <2>1. \A c \in CRs : crs[c] \in CR \cup {NoCR}
    BY DEF TypedInv, CRsTyped
  <2>2. crs' \in [CRs -> CR \cup {NoCR}]
    BY <1>1, <2>1
  <2>3. ASSUME NEW c \in CRs, crs'[c] # NoCR PROVE About(crs'[c], versions') /\ models'[crs'[c].model] # "purged"
    <3>1. crs'[c] = crs[c] /\ crs[c].model # m /\ crs[c] # NoCR
      BY <1>1, <2>3
    <3>2. About(crs[c], versions) /\ models[crs[c].model] # "purged"
      BY <3>1 DEF TypedInv, CRsTyped
    <3>3. models'[crs[c].model] = models[crs[c].model]
      BY <1>1, <3>1 DEF TypedInv, StoreTyped
    <3>4. About(crs[c], versions')
      BY <1>2, <1>3, <3>2 DEF About
    <3> QED
      BY <3>1, <3>2, <3>3, <3>4
  <2> QED
    BY <1>1, <2>2, <2>3 DEF CRsTyped, TypedInv, About
<1> QED
  BY <1>4, <1>5, <1>6, <1>7 DEF TypedInv

(* A review changes states only, of versions of its model, to states a      *)
(* version has, and one row.                                                *)
LEMMA ReviewChanges ==
  ASSUME TypedInv, NEW view \in Views, NEW c \in CRs, NEW vs, NEW row, Reviews(view, vs, c, row)
  PROVE  /\ versions' \in Seq(Version) /\ DOMAIN versions' = DOMAIN versions
         /\ \A i \in DOMAIN versions :
              /\ versions'[i] = [versions[i] EXCEPT !.state = versions'[i].state]
              /\ versions'[i].model = versions[i].model /\ versions'[i].number = versions[i].number
              /\ (versions'[i].state = "purged") <=> (versions[i].state = "purged")
         /\ crs' = [crs EXCEPT ![c] = crs'[c]] /\ crs'[c] \in CR
         /\ crs'[c].model = row.model /\ About(crs'[c], versions)
         /\ late' \subseteq late /\ UNCHANGED <<setting, store>>
<1>1. /\ versions' = [i \in DOMAIN versions |->
           IF i \in DOMAIN vs /\ vs[i] # view.versions[i] THEN [versions[i] EXCEPT !.state = vs[i].state] ELSE versions[i]]
      /\ crs' = [crs EXCEPT ![c] =
           [f \in DOMAIN row |-> IF row[f] # CRsOf(view)[c][f] THEN row[f] ELSE crs[c][f]]]
      /\ late' \subseteq late /\ UNCHANGED <<setting, store>>
      /\ Alive(row.model) /\ Restates(view, vs, row.model)
      /\ row \in CR /\ About(row, view.versions)
      /\ \/ crs[c] = NoCR
         \/ CRsOf(view)[c] # NoCR /\ row.model = CRsOf(view)[c].model
  BY DEF Reviews, CommitReview
<1>2. versions \in Seq(Version) /\ \A i \in DOMAIN versions : versions[i] \in Version
  BY DEF TypedInv, VersionsTyped
<1>3. /\ Earlier(view.versions)
      /\ CRsOf(view)[c] \in CR \cup {NoCR}
      /\ CRsOf(view)[c] # NoCR =>
           /\ crs[c] # NoCR /\ CRsOf(view)[c].model = crs[c].model
           /\ About(CRsOf(view)[c], view.versions)
  BY ReadTyped
<1>4. DOMAIN view.versions \subseteq DOMAIN versions
      /\ \A i \in DOMAIN view.versions : view.versions[i].model = versions[i].model
  <2>1. view.versions \in Seq(Version) /\ Len(view.versions) <= Len(versions)
    BY <1>3 DEF Earlier
  <2>2. DOMAIN view.versions \subseteq DOMAIN versions
    BY <1>2, <2>1
  <2>3. \A i \in DOMAIN view.versions : view.versions[i].model = versions[i].model
    BY <1>3 DEF Earlier
  <2> QED
    BY <2>2, <2>3
<1>5. ASSUME NEW i \in DOMAIN versions
      PROVE  /\ versions'[i] = [versions[i] EXCEPT !.state = versions'[i].state]
             /\ versions'[i].model = versions[i].model /\ versions'[i].number = versions[i].number
             /\ (versions'[i].state = "purged") <=> (versions[i].state = "purged")
             /\ versions'[i] \in Version
  <2>1. CASE i \in DOMAIN vs /\ vs[i] # view.versions[i]
    <3>1. view.versions[i].model = row.model /\ vs[i].state \in States /\ i \in DOMAIN view.versions
      BY <1>1, <2>1 DEF Restates
    <3>2. versions[i].model = row.model
      BY <1>4, <3>1
    <3>3. versions[i].state # "purged"
      BY <1>1, <3>2 DEF Alive, TypedInv, VersionsTyped
    <3>4. versions'[i] = [versions[i] EXCEPT !.state = vs[i].state]
      BY <1>1, <2>1
    <3> QED
      BY <1>2, <3>1, <3>3, <3>4 DEF Version, States
  <2>2. CASE ~(i \in DOMAIN vs /\ vs[i] # view.versions[i])
    BY <1>1, <1>2, <2>2 DEF Version
  <2> QED
    BY <2>1, <2>2
<1>6. versions' \in Seq(Version) /\ DOMAIN versions' = DOMAIN versions
  <2>1. DOMAIN versions = 1..Len(versions) /\ Len(versions) \in Nat
    BY <1>2
  <2>2. versions' = [i \in 1..Len(versions) |-> versions'[i]]
    BY <1>1, <2>1
  <2> QED
    BY <1>5, <2>1, <2>2
<1>7. crs \in [CRs -> CR \cup {NoCR}]
  BY DEF TypedInv, CRsTyped
<1>8. /\ DOMAIN row = {"model", "version", "author", "status"}
      /\ \A f \in DOMAIN row : crs'[c][f] = IF row[f] # CRsOf(view)[c][f] THEN row[f] ELSE crs[c][f]
      /\ DOMAIN crs'[c] = DOMAIN row
      /\ crs' = [crs EXCEPT ![c] = crs'[c]]
  BY <1>1, <1>7 DEF CR
<1>9. /\ crs'[c].model = (IF row.model # CRsOf(view)[c].model THEN row.model ELSE crs[c].model)
      /\ crs'[c].version = (IF row.version # CRsOf(view)[c].version THEN row.version ELSE crs[c].version)
      /\ crs'[c].author = (IF row.author # CRsOf(view)[c].author THEN row.author ELSE crs[c].author)
      /\ crs'[c].status = (IF row.status # CRsOf(view)[c].status THEN row.status ELSE crs[c].status)
      /\ crs'[c] = [model |-> crs'[c].model, version |-> crs'[c].version,
                    author |-> crs'[c].author, status |-> crs'[c].status]
  <2> DEFINE new == [f \in DOMAIN row |-> IF row[f] # CRsOf(view)[c][f] THEN row[f] ELSE crs[c][f]]
  <2>1. crs'[c] = new
    BY <1>1, <1>7
  <2>2. new = [model |-> new.model, version |-> new.version, author |-> new.author, status |-> new.status]
    BY <1>8
  <2> QED
    BY <1>8, <2>1, <2>2
<1>10. /\ row.model \in Models /\ row.version \in Nat /\ row.author \in Users
       /\ row.status \in {"open", "changes_requested", "approved", "rejected", "merged"}
  BY <1>1 DEF CR
<1>11. CASE CRsOf(view)[c] = NoCR
  <2>1. crs'[c].version = row.version
    <3>1. row.version # 0
      BY <1>1, <1>3 DEF About, Earlier
    <3> QED
      BY <1>9, <1>11, <3>1 DEF NoCR
  <2>2. crs'[c].model = row.model /\ crs'[c].author = row.author /\ crs'[c].status = row.status
    BY <1>9, <1>10, <1>11, VersionsAssumption DEF NoCR
  <2>3. crs'[c] \in CR
    BY <1>9, <1>10, <2>1, <2>2 DEF CR
  <2>4. About(crs'[c], versions)
    BY <1>1, <1>4, <2>1, <2>2 DEF About
  <2> QED
    BY <1>1, <1>5, <1>6, <1>8, <2>2, <2>3, <2>4
<1>12. CASE CRsOf(view)[c] # NoCR
  <2>1. crs[c] \in CR /\ crs[c] # NoCR /\ crs[c].model = CRsOf(view)[c].model /\ About(crs[c], versions)
    <3>1. crs[c] # NoCR /\ crs[c].model = CRsOf(view)[c].model
      BY <1>3, <1>12
    <3>2. About(crs[c], versions)
      BY <3>1 DEF TypedInv, CRsTyped
    <3> QED
      BY <1>7, <3>1, <3>2
  <2>2. row.model = crs[c].model
    BY <1>1, <2>1
  <2>3. crs'[c].model = row.model
    BY <1>9, <2>2
  <2>4. crs'[c] \in CR
    BY <1>9, <1>10, <2>1 DEF CR
  <2>5. About(crs'[c], versions)
    <3>1. About(row, versions)
      BY <1>1, <1>4 DEF About
    <3>2. crs'[c].version \in {row.version, crs[c].version}
      BY <1>9
    <3> QED
      BY <2>1, <2>2, <2>3, <3>1, <3>2 DEF About
  <2> QED
    BY <1>1, <1>5, <1>6, <1>8, <2>3, <2>4, <2>5
<1> QED
  BY <1>11, <1>12

LEMMA ConsiderTyped == ASSUME TypedInv, Consider PROVE TypedInv'
<1>1. PICK view \in Views, c \in CRs : \E vs, row : Reviews(view, vs, c, row)
  BY ConsiderCases
<1>2. PICK vs, row : Reviews(view, vs, c, row)
  BY <1>1
<1>3. /\ versions' \in Seq(Version) /\ DOMAIN versions' = DOMAIN versions
      /\ \A i \in DOMAIN versions :
           /\ versions'[i].model = versions[i].model /\ versions'[i].number = versions[i].number
           /\ (versions'[i].state = "purged") <=> (versions[i].state = "purged")
      /\ crs' = [crs EXCEPT ![c] = crs'[c]] /\ crs'[c] \in CR
      /\ crs'[c].model = row.model /\ About(crs'[c], versions)
      /\ late' \subseteq late
      /\ UNCHANGED <<setting, models, drafts, files, work, gc>>
  <2>1. UNCHANGED <<setting, store>>
    BY <1>2, ReviewChanges
  <2>2. UNCHANGED <<setting, models, drafts, files, work, gc>>
    BY <2>1 DEF store
  <2>3. \A i \in DOMAIN versions :
          /\ versions'[i].model = versions[i].model /\ versions'[i].number = versions[i].number
          /\ (versions'[i].state = "purged") <=> (versions[i].state = "purged")
    BY <1>2, ReviewChanges
  <2>4. /\ versions' \in Seq(Version) /\ DOMAIN versions' = DOMAIN versions
        /\ crs' = [crs EXCEPT ![c] = crs'[c]] /\ crs'[c] \in CR
        /\ crs'[c].model = row.model /\ About(crs'[c], versions)
        /\ late' \subseteq late
    BY <1>2, ReviewChanges
  <2> QED
    BY <2>2, <2>3, <2>4
<1>4. /\ Alive(row.model)
      /\ \/ crs[c] = NoCR
         \/ CRsOf(view)[c] # NoCR /\ row.model = CRsOf(view)[c].model
  BY <1>2 DEF Reviews
<1>5. lateCrs' = (IF late' = {} THEN <<>> ELSE lateCrs)
      /\ reviews' \subseteq [cr : CRs, by : Users, version : Nat]
  BY ConsiderCases
<1>6. versions \in Seq(Version) /\ Numbered(versions)
  BY DEF TypedInv, VersionsTyped
<1>7. Numbered(versions') /\ Len(versions') = Len(versions)
  BY <1>3, <1>6, NumberedRestated
<1>8. crs \in [CRs -> CR \cup {NoCR}] /\ crs' \in [CRs -> CR \cup {NoCR}]
  BY <1>3 DEF TypedInv, CRsTyped
<1>9. crs'[c] # NoCR
  BY <1>3, VersionsAssumption DEF CR, NoCR
<1>10. crs[c] # NoCR => crs[c].model = row.model
  BY <1>4, ReadTyped
<1>11. \A d \in CRs : crs[d] # NoCR => crs'[d] # NoCR /\ crs'[d].model = crs[d].model
  BY <1>3, <1>8, <1>9, <1>10
<1>12. StoreTyped'
  BY <1>3 DEF TypedInv, StoreTyped
<1>13. VersionsTyped'
  <2>1. \A i \in DOMAIN versions' : (versions'[i].state = "purged") <=> (models'[versions'[i].model] = "purged")
    BY <1>3 DEF TypedInv, VersionsTyped
  <2> QED
    BY <1>3, <1>7, <2>1 DEF VersionsTyped, Numbered, Of
<1>14. /\ LateTyped'
       /\ \A v \in late' : \A d \in CRs :
              /\ lateCrs'[d] \in CR \cup {NoCR}
              /\ lateCrs'[d] # NoCR =>
                   /\ crs'[d] # NoCR /\ lateCrs'[d].model = crs'[d].model
                   /\ About(lateCrs'[d], v.versions)
  BY <1>3, <1>5, <1>6, <1>7, <1>11, LateKeeps
<1>15. ASSUME NEW d \in CRs, crs'[d] # NoCR PROVE About(crs'[d], versions') /\ models'[crs'[d].model] # "purged"
  <2>1. CASE d = c
    <3>1. models[row.model] # "purged"
      BY <1>4 DEF Alive
    <3> QED
      BY <1>3, <2>1, <3>1 DEF About
  <2>2. CASE d # c
    <3>1. crs'[d] = crs[d]
      BY <1>3, <1>8, <2>2
    <3>2. About(crs[d], versions) /\ models[crs[d].model] # "purged"
      BY <1>15, <3>1 DEF TypedInv, CRsTyped
    <3> QED
      BY <1>3, <3>1, <3>2 DEF About
  <2> QED
    BY <2>1, <2>2
<1>16. CRsTyped'
  BY <1>5, <1>8, <1>14, <1>15 DEF CRsTyped, About
<1> QED
  BY <1>12, <1>13, <1>14, <1>16 DEF TypedInv

LEMMA TypedInit == InitAll => TypedInv
<1> SUFFICES ASSUME InitAll PROVE TypedInv
  OBVIOUS
<1>1. StoreTyped
  BY DEF InitAll, Init, StoreTyped, NoDraft, Draft, NoWork, Work, NoCollection, Collection
<1>2. VersionsTyped
  <2>1. versions = <<>> /\ DOMAIN versions = {} /\ versions \in Seq(Version)
    BY DEF InitAll, Init
  <2>2. \A m : Of(versions, m) = {}
    BY <2>1 DEF Of
  <2>3. \A m : {versions[i].number : i \in Of(versions, m)} = 1..Cardinality(Of(versions, m))
    <3> TAKE m
    <3>1. Cardinality(Of(versions, m)) = 0
      BY <2>2, FS_EmptySet
    <3> QED
      BY <2>2, <3>1
  <2> QED
    BY <2>1, <2>3 DEF VersionsTyped, Numbered
<1>3. LateTyped
  BY DEF InitAll, Init, LateTyped
<1>4. CRsTyped
  BY DEF InitAll, Init, CRsTyped
<1> QED
  BY <1>1, <1>2, <1>3, <1>4 DEF TypedInv

LEMMA TypedNext == TypedInv /\ [NextAll]_all => TypedInv'
<1> SUFFICES ASSUME TypedInv, [NextAll]_all PROVE TypedInv'
  OBVIOUS
<1>1. CASE UNCHANGED all
  <2>1. UNCHANGED <<setting, models, versions, drafts, files, work, gc, late, crs, reviews, lateCrs>>
    BY <1>1 DEF all, vars, store, review
  <2>2. StoreTyped'
    BY <2>1 DEF TypedInv, StoreTyped
  <2> QED
    BY <2>1, <2>2, TypedRest
<1> QED
  BY <1>1, ConsiderTyped, ElsewhereTyped, BeginTyped, PurgeTyped DEF NextAll

(* Types, and the numbers of the versions of each model: for any users,     *)
(* models and bounds they count from 1 without gaps or repetitions, also    *)
(* where transactions overlap (create_version, purge_deleted_model).        *)
THEOREM ReviewTypeCorrect == SpecAll => []ReviewTypeOK
<1>1. ASSUME TypedInv PROVE ReviewTypeOK
  <2>1. Cardinality(late) <= 1
    <3>1. late = {} \/ \E view : late = {view}
      BY <1>1 DEF TypedInv, LateTyped
    <3>2. CASE late = {}
      BY <3>2, FS_EmptySet
    <3>3. ASSUME NEW view, late = {view} PROVE Cardinality(late) <= 1
      BY <3>3, FS_Singleton
    <3> QED
      BY <3>1, <3>2, <3>3
  <2>2. \A i \in DOMAIN versions : versions[i] \in Version
    BY <1>1 DEF TypedInv, VersionsTyped
  <2>3. TypeOK
    BY <1>1, <2>1, <2>2 DEF TypedInv, StoreTyped, VersionsTyped, Numbered, TypeOK
  <2> QED
    BY <1>1, <2>3 DEF TypedInv, CRsTyped, ReviewTypeOK
<1> QED BY <1>1, TypedInit, TypedNext, PTL DEF SpecAll

-----------------------------------------------------------------------------
(* No silent fork.                                                          *)

(* But for its state a row stays as it was inserted.                        *)
Restated ==
  /\ DOMAIN versions' = DOMAIN versions
  /\ \A i \in DOMAIN versions :
       /\ versions'[i].model = versions[i].model /\ versions'[i].number = versions[i].number
       /\ versions'[i].sha = versions[i].sha /\ versions'[i].onto = versions[i].onto
       /\ versions'[i].took = versions[i].took

LEMMA ConsiderRestates ==
  ASSUME TypedInv, Consider
  PROVE  /\ Restated /\ late' \subseteq late
         /\ UNCHANGED <<setting, models, drafts, files, work, gc>>
         /\ \A i \in DOMAIN versions : (versions'[i].state = "purged") <=> (versions[i].state = "purged")
<1>1. PICK view \in Views, c \in CRs : \E vs, row : Reviews(view, vs, c, row)
  BY ConsiderCases
<1>2. PICK vs, row : Reviews(view, vs, c, row)
  BY <1>1
<1>3. /\ DOMAIN versions' = DOMAIN versions /\ late' \subseteq late
      /\ \A i \in DOMAIN versions : versions'[i] = [versions[i] EXCEPT !.state = versions'[i].state]
  BY <1>2, ReviewChanges
<1>4. \A i \in DOMAIN versions : (versions'[i].state = "purged") <=> (versions[i].state = "purged")
  BY <1>2, ReviewChanges
<1>5. UNCHANGED <<setting, store>>
  BY <1>2, ReviewChanges
<1>6. \A i \in DOMAIN versions : versions[i] \in Version
  BY DEF TypedInv, VersionsTyped
<1>7. Restated
  BY <1>3, <1>6 DEF Restated, Version
<1> QED
  BY <1>3, <1>4, <1>5, <1>7 DEF store

LEMMA PurgeRestates == ASSUME TypedInv, NEW m \in Models, Purge(m) PROVE Restated
<1>1. /\ DOMAIN versions' = DOMAIN versions
      /\ \A i \in DOMAIN versions : versions'[i] = [versions[i] EXCEPT !.state = versions'[i].state]
  BY PurgeVersions
<1>2. \A i \in DOMAIN versions : versions[i] \in Version
  BY DEF TypedInv, VersionsTyped
<1> QED
  BY <1>1, <1>2 DEF Restated, Version

LEMMA MakesNothing ==
  ASSUME Elsewhere, ~Make
  PROVE  UNCHANGED <<setting, versions, work>>
BY DEF Elsewhere, Draw, DeleteDraft, CreateDraft, Clean, Collect, EndCollect, Age, Doom, Unlink, Rollback, store,
       DeleteModel, RestoreModel

(* Every step adds a row or leaves all but states as they are.              *)
LEMMA VersionsStep ==
  ASSUME TypedInv, [NextAll]_all
  PROVE  setting' = setting /\ (Restated \/ \E w : Appends(w))
<1>1. CASE Consider
  BY <1>1, ConsiderRestates
<1>2. CASE UNCHANGED <<setting, versions>>
  BY <1>2 DEF Restated
<1>3. CASE Make
  <2>1. (\E w : Appends(w)) \/ OnlyWork
    BY <1>3, MakeCases
  <2>2. ASSUME NEW w, Appends(w) PROVE setting' = setting
    BY <2>2 DEF Appends
  <2> QED
    BY <1>2, <2>1, <2>2 DEF OnlyWork
<1>4. ASSUME NEW m \in Models, PurgeAll(m) PROVE setting' = setting /\ Restated
  <2>1. Purge(m) /\ setting' = setting
    BY <1>4 DEF PurgeAll, Purge
  <2> QED
    BY <2>1, PurgeRestates
<1>5. CASE Elsewhere /\ ~Make
  BY <1>2, <1>5, MakesNothing
<1>6. CASE BeginAll \/ UNCHANGED all
  BY <1>2, <1>6 DEF BeginAll, Begin, all, vars
<1> QED
  BY <1>1, <1>3, <1>4, <1>5, <1>6 DEF NextAll

(* The rows after a row was added.                                          *)
LEMMA RowsAppended ==
  ASSUME TypedInv, NEW w, Appends(w)
  PROVE  LET new == Len(versions) + 1 IN
         /\ DOMAIN versions' = DOMAIN versions \cup {new} /\ new \notin DOMAIN versions
         /\ \A i \in DOMAIN versions : versions'[i] = versions[i]
         /\ versions'[new] = NewVersion(w) /\ DOMAIN versions \subseteq Nat
<1>1. versions \in Seq(Version)
  BY DEF TypedInv, VersionsTyped
<1>2. versions' = Append(versions, NewVersion(w)) /\ NewVersion(w) \in Version
  BY DEF Appends
<1> QED
  BY <1>1, <1>2

LEMMA ForkNext == ForkInv /\ TypedInv /\ [NextAll]_all => ForkInv'
<1> SUFFICES ASSUME ForkInv, TypedInv, [NextAll]_all, ~setting.overlap, ~setting'.overlap
             PROVE  ForkInv'
  BY VersionsStep DEF ForkInv
<1>1. CASE Restated
  BY <1>1 DEF ForkInv, Restated
<1>2. ASSUME NEW w, Appends(w) PROVE ForkInv'
  <2> DEFINE new == Len(versions) + 1
             m == w.model
             n == Cardinality(Of(versions, m))
  <2>1. /\ DOMAIN versions' = DOMAIN versions \cup {new} /\ new \notin DOMAIN versions
        /\ \A i \in DOMAIN versions : versions'[i] = versions[i]
        /\ versions'[new] = NewVersion(w) /\ DOMAIN versions \subseteq Nat
    BY <1>2, RowsAppended
  <2> HIDE DEF new
  <2>2. versions'[new].onto = w.onto /\ versions'[new].number = n + 1
    BY <2>1 DEF NewVersion
  <2>3. m \in Models /\ w.onto \in {Any, HeadVersion(versions, m)}
    BY <1>2 DEF Appends, RequestTyped, HeadFits
  <2>4. versions \in Seq(Version) /\ Numbered(versions)
    BY DEF TypedInv, VersionsTyped
  <2>5. /\ n \in Nat
        /\ n = 0 => HeadVersion(versions, m) = None
        /\ n # 0 => HeadVersion(versions, m) \in Of(versions, m) /\ versions[HeadVersion(versions, m)].number = n
    BY <2>3, <2>4, Numbers
  <2>6. Of(versions, m) \subseteq DOMAIN versions
    BY DEF Of
  <2>7. \/ w.onto = Any
        \/ w.onto = None /\ versions'[new].number = 1
        \/ w.onto \in DOMAIN versions /\ versions'[new].number = versions[w.onto].number + 1
    BY <2>2, <2>3, <2>5, <2>6
  <2>8. ASSUME NEW v \in DOMAIN versions'
        PROVE  LET onto == versions'[v].onto
               IN  \/ onto = Any
                   \/ onto = None /\ versions'[v].number = 1
                   \/ onto \in DOMAIN versions' /\ versions'[v].number = versions'[onto].number + 1
    <3>1. CASE v = new
      BY <2>1, <2>2, <2>7, <3>1
    <3>2. CASE v \in DOMAIN versions
      BY <2>1, <3>2 DEF ForkInv
    <3> QED
      BY <2>1, <3>1, <3>2
  <2> QED
    BY <2>8 DEF ForkInv
<1> QED
  BY <1>1, <1>2, VersionsStep

(* No silent fork, for any engineers, models and bounds: as long as         *)
(* transactions do not overlap a version that was made on the head follows  *)
(* it, whatever was committed in between (create_version, HeadMoved).       *)
THEOREM ForkCorrect == SpecAll => []NoSilentFork
<1>1. InitAll => ForkInv
  BY DEF InitAll, Init, ForkInv
<1>2. TypedInv /\ ForkInv => NoSilentFork
  <2> SUFFICES ASSUME TypedInv, ForkInv, ~setting.overlap, NEW v \in DOMAIN versions
               PROVE  CASE versions[v].onto = Any -> TRUE
                        [] versions[v].onto = None -> versions[v].number = 1
                        [] OTHER -> versions[v].number = versions[versions[v].onto].number + 1
    BY DEF NoSilentFork
  <2>1. DOMAIN versions \subseteq Nat
    BY DEF TypedInv, VersionsTyped
  <2>2. LET onto == versions[v].onto
        IN  \/ onto = Any
            \/ onto = None /\ versions[v].number = 1
            \/ onto \in DOMAIN versions /\ versions[v].number = versions[onto].number + 1
    BY DEF ForkInv
  <2>3. CASE versions[v].onto = Any
    BY <2>3, VersionsAssumption
  <2>4. CASE versions[v].onto = None
    BY <2>1, <2>2, <2>4, VersionsAssumption
  <2>5. CASE versions[v].onto \notin {Any, None}
    BY <2>2, <2>5
  <2> QED
    BY <2>3, <2>4, <2>5
<1> QED BY <1>1, <1>2, TypedInit, TypedNext, ForkNext, PTL DEF SpecAll

-----------------------------------------------------------------------------
(* A draft is committed once.                                               *)

(* The number of the version a request builds on, 0 without one.            *)
Base(vs, onto) == IF onto \in DOMAIN vs THEN vs[onto].number ELSE 0

(* Expected heads and their numbers stay when rows are added or restated.   *)
LEMMA BaseStays ==
  ASSUME NEW onto,
         DOMAIN versions \subseteq DOMAIN versions',
         \A i \in DOMAIN versions : versions'[i].number = versions[i].number,
         onto \in DOMAIN versions \/ onto \notin DOMAIN versions'
  PROVE  Base(versions', onto) = Base(versions, onto)
BY DEF Base

(* The expected head of a request for drafts is a version of its model, and *)
(* older than the next.                                                     *)
LEMMA BaseBelow ==
  ASSUME TypedInv, NEW onto, NEW m \in Models, models[m] # "purged",
         onto = None \/ (onto \in DOMAIN versions /\ versions[onto].model = m)
  PROVE  /\ Base(versions, onto) \in Nat /\ Base(versions, onto) <= Cardinality(Of(versions, m))
         /\ \A v \in DOMAIN versions :
              versions[v].model = m => versions[v].number <= Cardinality(Of(versions, m)) /\ versions[v].number \in Nat
<1> DEFINE n == Cardinality(Of(versions, m))
<1>1. versions \in Seq(Version) /\ Numbered(versions) /\ DOMAIN versions \subseteq Nat
  BY DEF TypedInv, VersionsTyped
<1>2. n \in Nat /\ \A i \in Of(versions, m) : versions[i].number \in 1..n
  BY <1>1, Numbers
<1>3. \A v \in DOMAIN versions : versions[v].model = m => v \in Of(versions, m)
  BY DEF TypedInv, VersionsTyped, Of
<1>4. None \notin DOMAIN versions
  BY <1>1, VersionsAssumption
<1> HIDE DEF n
<1>5. \A v \in DOMAIN versions : versions[v].model = m => versions[v].number <= n /\ versions[v].number \in Nat
  BY <1>2, <1>3
<1>6. Base(versions, onto) \in Nat /\ Base(versions, onto) <= n
  BY <1>2, <1>4, <1>5 DEF Base
<1> QED
  BY <1>5, <1>6 DEF n

(* What holds as long as transactions do not overlap: whoever committed a   *)
(* draft first made a version after the head that the others who took it up *)
(* expect.                                                                  *)
Spent == \A v \in DOMAIN versions : \A d \in versions[v].took : drafts[d] = NoDraft(TRUE)

Held == \A u \in Users : \A d \in work[u].took : drafts[d] = NoDraft(TRUE) \/ drafts[d].model = work[u].model

Aimed(w) ==
  w.took # {} =>
    /\ w.model \in Models
    /\ w.onto = None \/ (w.onto \in DOMAIN versions /\ versions[w.onto].model = w.model)

Alike == \A u, w \in Users : work[u].took \cap work[w].took # {} => work[u].model = work[w].model

Behind(w, v) ==
  w.took \cap versions[v].took # {} =>
    versions[v].model = w.model /\ Base(versions, w.onto) < versions[v].number

Once == \A v, w \in DOMAIN versions : versions[v].took \cap versions[w].took # {} => v = w

DraftsFollow ==
  /\ Spent /\ Held /\ Alike /\ Once
  /\ \A u \in Users : Aimed(work[u])
  /\ \A u \in Users, v \in DOMAIN versions : Behind(work[u], v)

(* Requests go, drafts go, rows are restated.                               *)
LEMMA DraftsRestated ==
  ASSUME DraftsFollow, TypedInv, Restated,
         \A u \in Users : work'[u] \in {work[u], NoWork},
         \A d \in Drafts : drafts'[d] \in {drafts[d], NoDraft(TRUE)}
  PROVE  DraftsFollow'
<1>1. \A i \in DOMAIN versions : versions[i] \in Version
  BY DEF TypedInv, VersionsTyped
<1>2. /\ \A i \in DOMAIN versions : versions[i].took \subseteq Drafts
      /\ \A u \in Users : work[u].took \subseteq Drafts
  BY <1>1 DEF Version, TypedInv, StoreTyped, Work
<1>3. \A u \in Users : work'[u].took # {} => work'[u] = work[u]
  BY DEF NoWork
<1>4. \A onto : Base(versions', onto) = Base(versions, onto)
  BY DEF Restated, Base
<1>5. Spent'
  BY <1>2 DEF DraftsFollow, Spent, Restated
<1>6. Held'
  BY <1>2, <1>3 DEF DraftsFollow, Held
<1>7. ASSUME NEW u \in Users PROVE Aimed(work[u])'
  <2>1. Aimed(work[u])
    BY DEF DraftsFollow
  <2> QED
    BY <1>3, <2>1 DEF Aimed, Restated
<1>8. Alike'
  BY <1>3 DEF DraftsFollow, Alike
<1>9. ASSUME NEW u \in Users, NEW v \in DOMAIN versions' PROVE Behind(work[u], v)'
  <2>1. Behind(work[u], v) /\ v \in DOMAIN versions
    BY DEF DraftsFollow, Restated
  <2> QED
    BY <1>3, <1>4, <2>1 DEF Behind, Restated
<1>10. Once'
  BY DEF DraftsFollow, Once, Restated
<1> QED
  BY <1>5, <1>6, <1>7, <1>8, <1>9, <1>10 DEF DraftsFollow

(* A row is added: the head that its drafts' request expected is the head,  *)
(* so that no other commit of one of them came first.                       *)
LEMMA DraftsAppend ==
  ASSUME DraftsFollow, TypedInv, ~setting.overlap, NEW w, Appends(w),
         w.took = {} \/ \E u \in Users : w = work[u],
         \A u \in Users : work'[u] \in {work[u], NoWork}
  PROVE  DraftsFollow'
<1> DEFINE new == Len(versions) + 1
           m == w.model
           n == Cardinality(Of(versions, m))
<1>1. /\ DOMAIN versions' = DOMAIN versions \cup {new} /\ new \notin DOMAIN versions
      /\ \A i \in DOMAIN versions : versions'[i] = versions[i]
      /\ versions'[new] = NewVersion(w) /\ DOMAIN versions \subseteq Nat
  BY RowsAppended
<1>2. None \notin DOMAIN versions'
  <2>1. versions \in Seq(Version)
    BY DEF TypedInv, VersionsTyped
  <2>2. new \in Nat
    BY <2>1
  <2> HIDE DEF new
  <2> QED
    BY <1>1, <2>2, VersionsAssumption
<1> HIDE DEF new
<1>3. /\ versions'[new].took = w.took /\ versions'[new].model = m /\ versions'[new].number = n + 1
      /\ m \in Models /\ w.took \subseteq Drafts /\ models[m] # "purged"
  BY <1>1 DEF NewVersion, Appends, RequestTyped
<1>4. /\ \A i \in DOMAIN versions : versions[i].took \subseteq Drafts
      /\ \A u \in Users : work[u].took \subseteq Drafts
  <2>1. \A i \in DOMAIN versions : versions[i] \in Version
    BY DEF TypedInv, VersionsTyped
  <2> QED
    BY <2>1 DEF Version, TypedInv, StoreTyped, Work
<1>5. \A u \in Users : work'[u].took # {} => work'[u] = work[u]
  BY DEF NoWork
<1>6. /\ \A d \in Drafts : drafts'[d] \in {drafts[d], NoDraft(TRUE)}
      /\ \A d \in w.took : drafts'[d] = NoDraft(TRUE)
  BY <1>3 DEF Appends, Without
<1>7. versions \in Seq(Version) /\ Numbered(versions) /\ n \in Nat
  BY VersionsOf DEF TypedInv, VersionsTyped
<1>8. ASSUME NEW u \in Users, work[u].took # {} PROVE Base(versions', work[u].onto) = Base(versions, work[u].onto)
  <2>1. Aimed(work[u])
    BY DEF DraftsFollow
  <2>2. work[u].onto = None \/ work[u].onto \in DOMAIN versions
    BY <1>8, <2>1 DEF Aimed
  <2> QED
    BY <1>1, <1>2, <2>2, BaseStays
<1>9. Spent'
  BY <1>1, <1>3, <1>4, <1>6 DEF DraftsFollow, Spent
<1>10. Held'
  BY <1>4, <1>5, <1>6 DEF DraftsFollow, Held
<1>11. ASSUME NEW u \in Users PROVE Aimed(work[u])'
  <2>1. Aimed(work[u])
    BY DEF DraftsFollow
  <2> QED
    BY <1>1, <1>5, <2>1 DEF Aimed
<1>12. Alike'
  BY <1>5 DEF DraftsFollow, Alike
<1>13. ASSUME NEW u \in Users, NEW v \in DOMAIN versions' PROVE Behind(work[u], v)'
  <2> SUFFICES ASSUME work'[u].took \cap versions'[v].took # {}
               PROVE  versions'[v].model = work'[u].model /\ Base(versions', work'[u].onto) < versions'[v].number
    BY DEF Behind
  <2>1. work'[u] = work[u] /\ work[u].took # {} /\ Base(versions', work[u].onto) = Base(versions, work[u].onto)
    BY <1>5, <1>8
  <2>2. CASE v \in DOMAIN versions
    <3>1. Behind(work[u], v) /\ versions'[v] = versions[v]
      BY <1>1, <2>2 DEF DraftsFollow
    <3> QED
      BY <2>1, <3>1 DEF Behind
  <2>3. CASE v = new
    <3>1. w.took \cap work[u].took # {}
      BY <1>3, <2>1, <2>3
    <3>2. m = work[u].model
      BY <3>1 DEF DraftsFollow, Alike
    <3>3. Base(versions, work[u].onto) \in Nat /\ Base(versions, work[u].onto) <= n
      <4>1. Aimed(work[u])
        BY DEF DraftsFollow
      <4>2. \/ work[u].onto = None
            \/ work[u].onto \in DOMAIN versions /\ versions[work[u].onto].model = m
        BY <2>1, <3>2, <4>1 DEF Aimed
      <4> QED
        BY <1>3, <4>2, BaseBelow
    <3>4. Base(versions, work[u].onto) < n + 1
      BY <1>7, <3>3
    <3> QED
      BY <1>3, <2>1, <2>3, <3>2, <3>4
  <2> QED
    BY <1>1, <2>2, <2>3
<1>14. ASSUME NEW v \in DOMAIN versions, w.took \cap versions[v].took # {} PROVE FALSE
  <2>1. PICK u \in Users : w = work[u]
    BY <1>14
  <2>2. Behind(w, v) /\ Aimed(w)
    BY <2>1 DEF DraftsFollow
  <2>3. versions[v].model = m /\ Base(versions, w.onto) < versions[v].number
    BY <1>14, <2>2 DEF Behind
  <2>4. \/ w.onto = None
        \/ w.onto \in DOMAIN versions /\ versions[w.onto].model = m
    BY <1>14, <2>2 DEF Aimed
  <2>5. w.onto \in {Any, HeadVersion(versions, m)}
    BY DEF Appends, HeadFits
  <2>6. w.onto # Any
    BY <1>1, <2>4, VersionsAssumption
  <2>7. versions[v].number <= n /\ versions[v].number \in Nat
    BY <1>3, <2>3, <2>4, BaseBelow
  <2>8. v \in Of(versions, m)
    BY <1>3, <2>3 DEF TypedInv, VersionsTyped, Of
  <2>9. n # 0
    BY <1>3, <1>7, <2>8, Numbers
  <2>10. HeadVersion(versions, m) \in Of(versions, m) /\ versions[HeadVersion(versions, m)].number = n
    BY <1>3, <1>7, <2>9, Numbers
  <2>11. versions[w.onto].number = n /\ w.onto \in DOMAIN versions
    BY <2>5, <2>6, <2>10 DEF Of
  <2>12. Base(versions, w.onto) = n
    BY <2>11 DEF Base
  <2> QED
    BY <1>7, <2>3, <2>7, <2>12
<1>15. Once'
  <2>1. ASSUME NEW v \in DOMAIN versions', NEW x \in DOMAIN versions', versions'[v].took \cap versions'[x].took # {}
        PROVE  v = x
    <3>1. CASE v \in DOMAIN versions /\ x \in DOMAIN versions
      BY <1>1, <2>1, <3>1 DEF DraftsFollow, Once
    <3>2. CASE v = new /\ x \in DOMAIN versions
      BY <1>1, <1>3, <1>14, <2>1, <3>2
    <3>3. CASE x = new /\ v \in DOMAIN versions
      BY <1>1, <1>3, <1>14, <2>1, <3>3
    <3> QED
      BY <1>1, <3>1, <3>2, <3>3
  <2> QED
    BY <2>1 DEF Once
<1> QED
  BY <1>9, <1>10, <1>11, <1>12, <1>13, <1>15 DEF DraftsFollow

(* A request begins, for drafts that are there, or goes on.                 *)
LEMMA DraftsBegin ==
  ASSUME DraftsFollow, TypedInv, UNCHANGED <<versions, drafts>>, NEW u \in Users, NEW w, Becomes(u, w),
         \/ w.took = {}
         \/ /\ w.model \in Models /\ w.onto = HeadVersion(versions, w.model)
            /\ \A d \in w.took : drafts[d].model = w.model
         \/ w.model = work[u].model /\ w.onto = work[u].onto /\ w.took = work[u].took
  PROVE  DraftsFollow'
<1>1. work \in [Users -> Work] /\ work' = [work EXCEPT ![u] = w]
  BY DEF TypedInv, StoreTyped, Becomes
<1>2. work'[u] = w /\ \A x \in Users : x # u => work'[x] = work[x]
  BY <1>1
<1>3. \A m \in Models : NoDraft(TRUE).model # m
  BY VersionsAssumption DEF NoDraft
<1>4. /\ Spent /\ Held /\ Alike /\ Once
      /\ \A x \in Users : Aimed(work[x])
      /\ \A x \in Users, v \in DOMAIN versions : Behind(work[x], v)
  BY DEF DraftsFollow
<1>5. ASSUME \A d \in w.took : drafts[d] = NoDraft(TRUE) \/ drafts[d].model = w.model,
             \A x \in Users : w.took \cap work[x].took # {} => w.model = work[x].model,
             Aimed(w), \A v \in DOMAIN versions : Behind(w, v)
      PROVE  DraftsFollow'
  <2>1. Spent' /\ Once'
    BY <1>4 DEF Spent, Once
  <2>2. Held'
    <3>1. ASSUME NEW x \in Users, NEW d \in work'[x].took
          PROVE  drafts[d] = NoDraft(TRUE) \/ drafts[d].model = work'[x].model
      <4>1. CASE x = u
        BY <1>2, <1>5, <4>1
      <4>2. CASE x # u
        BY <1>2, <1>4, <4>2 DEF Held
      <4> QED
        BY <4>1, <4>2
    <3> QED
      BY <3>1 DEF Held
  <2>3. Alike'
    BY <1>2, <1>4, <1>5 DEF Alike
  <2>4. ASSUME NEW x \in Users PROVE Aimed(work[x])'
    <3>1. Aimed(work'[x])
      BY <1>2, <1>4, <1>5
    <3> QED
      BY <3>1 DEF Aimed
  <2>5. ASSUME NEW x \in Users, NEW v \in DOMAIN versions' PROVE Behind(work[x], v)'
    <3>1. Behind(work'[x], v)
      BY <1>2, <1>4, <1>5
    <3> QED
      BY <3>1 DEF Behind
  <2> QED
    BY <2>1, <2>2, <2>3, <2>4, <2>5 DEF DraftsFollow
<1>6. CASE w.model = work[u].model /\ w.onto = work[u].onto /\ w.took = work[u].took
  <2>1. \A d \in w.took : drafts[d] = NoDraft(TRUE) \/ drafts[d].model = w.model
    BY <1>4, <1>6 DEF Held
  <2>2. \A x \in Users : w.took \cap work[x].took # {} => w.model = work[x].model
    BY <1>4, <1>6 DEF Alike
  <2>3. Aimed(w)
    BY <1>4, <1>6 DEF Aimed
  <2>4. ASSUME NEW v \in DOMAIN versions PROVE Behind(w, v)
    <3>1. Behind(work[u], v)
      BY <1>4
    <3> QED
      BY <1>6, <3>1 DEF Behind
  <2> QED
    BY <1>5, <2>1, <2>2, <2>3, <2>4
<1>7. CASE w.took = {}
  <2>1. Aimed(w) /\ \A v \in DOMAIN versions : Behind(w, v)
    BY <1>7 DEF Aimed, Behind
  <2> QED
    BY <1>5, <1>7, <2>1
<1>8. ASSUME w.model \in Models, w.onto = HeadVersion(versions, w.model),
             \A d \in w.took : drafts[d].model = w.model
      PROVE  DraftsFollow'
  <2>1. w.onto = None \/ w.onto \in Of(versions, w.model)
    <3> DEFINE n == Cardinality(Of(versions, w.model))
    <3>1. versions \in Seq(Version) /\ Numbered(versions)
      BY DEF TypedInv, VersionsTyped
    <3>2. n = 0 => HeadVersion(versions, w.model) = None
      BY <1>8, <3>1, Numbers
    <3>3. n # 0 => HeadVersion(versions, w.model) \in Of(versions, w.model)
      BY <1>8, <3>1, Numbers
    <3> QED
      BY <1>8, <3>2, <3>3
  <2>2. Aimed(w)
    BY <1>8, <2>1 DEF Aimed, Of
  <2>3. ASSUME NEW v \in DOMAIN versions PROVE Behind(w, v)
    <3>1. w.took \cap versions[v].took = {}
      BY <1>3, <1>4, <1>8 DEF Spent
    <3> QED
      BY <3>1 DEF Behind
  <2>4. \A x \in Users : w.took \cap work[x].took # {} => w.model = work[x].model
    BY <1>3, <1>4, <1>8 DEF Held
  <2> QED
    BY <1>5, <1>8, <2>2, <2>3, <2>4
<1> QED
  BY <1>6, <1>7, <1>8

(* A draft is made in a place where none was.                               *)
LEMMA DraftsCreate ==
  ASSUME DraftsFollow, TypedInv, NEW u \in Users, NEW m, NEW d \in Drafts, CreateDraft(u, m, d)
  PROVE  DraftsFollow'
<1>1. /\ drafts[d] = NoDraft(FALSE) /\ UNCHANGED <<versions, work>>
      /\ \A e \in Drafts : e # d => drafts'[e] = drafts[e]
  BY DEF CreateDraft, TypedInv, StoreTyped
<1>2. NoDraft(FALSE) # NoDraft(TRUE) /\ NoDraft(FALSE).model = None
  <2>1. NoDraft(FALSE).gone # NoDraft(TRUE).gone
    BY DEF NoDraft
  <2> QED
    BY <2>1 DEF NoDraft
<1>3. \A v \in DOMAIN versions : versions[v].took \subseteq Drafts /\ d \notin versions[v].took
  <2>1. \A i \in DOMAIN versions : versions[i] \in Version
    BY DEF TypedInv, VersionsTyped
  <2> QED
    BY <1>1, <1>2, <2>1 DEF DraftsFollow, Spent, Version
<1>4. ASSUME NEW x \in Users PROVE work[x].took \subseteq Drafts /\ d \notin work[x].took
  <2>1. Held /\ Aimed(work[x])
    BY DEF DraftsFollow
  <2>2. d \in work[x].took => drafts[d].model = work[x].model /\ work[x].model \in Models
    BY <1>1, <1>2, <2>1 DEF Held, Aimed
  <2> QED
    BY <1>1, <1>2, <2>2, VersionsAssumption DEF TypedInv, StoreTyped, Work
<1>5. Spent'
  BY <1>1, <1>3 DEF DraftsFollow, Spent
<1>6. Held'
  BY <1>1, <1>4 DEF DraftsFollow, Held
<1>7. Alike' /\ Once'
  BY <1>1 DEF DraftsFollow, Alike, Once
<1>8. ASSUME NEW x \in Users PROVE Aimed(work[x])'
  BY <1>1 DEF DraftsFollow, Aimed
<1>9. ASSUME NEW x \in Users, NEW v \in DOMAIN versions' PROVE Behind(work[x], v)'
  <2>1. Behind(work[x], v)
    BY <1>1 DEF DraftsFollow
  <2> QED
    BY <1>1, <2>1 DEF Behind
<1> QED
  BY <1>5, <1>6, <1>7, <1>8, <1>9 DEF DraftsFollow

LEMMA DraftsMake ==
  ASSUME DraftsFollow, TypedInv, ~setting.overlap, Make
  PROVE  DraftsFollow'
<1>0. /\ work \in [Users -> Work]
      /\ \A u \in Users : Becomes(u, NoWork) => \A x \in Users : work'[x] \in {work[x], NoWork}
  BY DEF TypedInv, StoreTyped, Becomes
<1>1. ASSUME NEW w, Appends(w), w.took = {}, work' = work PROVE DraftsFollow'
  BY <1>1, DraftsAppend
<1>2. ASSUME NEW u \in Users, Appends(work[u]), Becomes(u, NoWork) PROVE DraftsFollow'
  BY <1>0, <1>2, DraftsAppend
<1>3. ASSUME NEW u \in Users, NEW w, OnlyWork, Becomes(u, w),
             \/ w.took = {}
             \/ /\ w.model \in Models /\ w.onto = HeadVersion(versions, w.model)
                /\ \A d \in w.took : drafts[d].model = w.model
             \/ w.model = work[u].model /\ w.onto = work[u].onto /\ w.took = work[u].took
      PROVE  DraftsFollow'
  BY <1>3, DraftsBegin DEF OnlyWork
<1>4. ASSUME NEW u \in Users, OnlyWork, Becomes(u, NoWork) PROVE DraftsFollow'
  <2>1. NoWork.took = {}
    BY DEF NoWork
  <2> QED
    BY <1>3, <1>4, <2>1
<1>5. ASSUME NEW u \in Users, NEW m \in Models, NEW c \in Contents, NEW onto \in Nat \cup {Any}, OnlyWork,
             Becomes(u, [phase |-> "stored", model |-> m, sha |-> c, onto |-> onto, took |-> {}])
      PROVE  DraftsFollow'
  BY <1>3, <1>5
<1>6. ASSUME NEW u \in Users, NEW m \in Models, NEW took \in SUBSET {d \in Drafts : drafts[d].model = m}, OnlyWork,
             Becomes(u, [phase |-> "building", model |-> m, sha |-> None,
                         onto |-> HeadVersion(versions, m), took |-> took])
      PROVE  DraftsFollow'
  <2> DEFINE w == [phase |-> "building", model |-> m, sha |-> None,
                   onto |-> HeadVersion(versions, m), took |-> took]
  <2>1. /\ w.model \in Models /\ w.onto = HeadVersion(versions, w.model)
        /\ \A d \in w.took : drafts[d].model = w.model
    OBVIOUS
  <2>2. Becomes(u, w)
    BY <1>6
  <2> HIDE DEF w
  <2> QED
    BY <1>3, <1>6, <2>1, <2>2
<1>7. ASSUME NEW u \in Users, NEW c \in Contents, OnlyWork,
             work' = [work EXCEPT ![u].phase = "stored", ![u].sha = c]
      PROVE  DraftsFollow'
  <2> DEFINE w == [work[u] EXCEPT !.phase = "stored", !.sha = c]
  <2>1. Becomes(u, w)
    BY <1>0, <1>7 DEF Becomes, Work
  <2>2. w.model = work[u].model /\ w.onto = work[u].onto /\ w.took = work[u].took
    BY <1>0 DEF Work
  <2> HIDE DEF w
  <2> QED
    BY <1>3, <1>7, <2>1, <2>2
<1> QED
  BY <1>1, <1>2, <1>4, <1>5, <1>6, <1>7, MakeCases

LEMMA DraftsNext == DraftsFollow /\ TypedInv /\ ~setting.overlap /\ [NextAll]_all => DraftsFollow'
<1> SUFFICES ASSUME DraftsFollow, TypedInv, ~setting.overlap, [NextAll]_all PROVE DraftsFollow'
  OBVIOUS
<1>1. ASSUME Restated, UNCHANGED work, \A d \in Drafts : drafts'[d] \in {drafts[d], NoDraft(TRUE)}
      PROVE  DraftsFollow'
  BY <1>1, DraftsRestated
<1>2. \A took : \A d \in Drafts : Without(took)[d] \in {drafts[d], NoDraft(TRUE)}
  BY DEF Without
<1>3. ASSUME UNCHANGED <<versions, work>>, \A d \in Drafts : drafts'[d] \in {drafts[d], NoDraft(TRUE)}
      PROVE  DraftsFollow'
  BY <1>1, <1>3 DEF Restated
<1>4. CASE Consider
  BY <1>1, <1>4, ConsiderRestates
<1>5. CASE Make
  BY <1>5, DraftsMake
<1>6. ASSUME NEW u \in Users, NEW d \in Drafts, DeleteDraft(u, d) PROVE DraftsFollow'
  BY <1>2, <1>3, <1>6 DEF DeleteDraft
<1>7. ASSUME NEW u \in Users, NEW d \in Drafts, NEW m \in Models, CreateDraft(u, m, d) PROVE DraftsFollow'
  BY <1>7, DraftsCreate
<1>8. ASSUME Clean \/ Rollback \/ BeginAll \/ UNCHANGED all PROVE DraftsFollow'
  <2>1. UNCHANGED <<versions, work, drafts>>
    BY <1>8 DEF Clean, Collect, EndCollect, Age, Doom, Unlink, Rollback, BeginAll, Begin, store, all, vars
  <2> QED
    BY <1>3, <2>1
<1>9. ASSUME NEW m \in Models, DeleteModel(m) \/ RestoreModel(m) PROVE DraftsFollow'
  <2>1. UNCHANGED <<versions, work, drafts>>
    BY <1>9 DEF DeleteModel, RestoreModel
  <2> QED
    BY <1>3, <2>1
<1>10. ASSUME NEW m \in Models, PurgeAll(m) PROVE DraftsFollow'
  <2>1. Purge(m) /\ UNCHANGED work /\ drafts' = Without({d \in Drafts : drafts[d].model = m})
    BY <1>10 DEF PurgeAll, Purge
  <2> QED
    BY <1>1, <1>2, <2>1, PurgeRestates
<1> QED
  BY <1>4, <1>5, <1>6, <1>7, <1>8, <1>9, <1>10 DEF NextAll, Elsewhere, Draw

(* A draft goes into one version, for any engineers, drafts and bounds:     *)
(* whoever commits it second expects a head that the first has moved, as    *)
(* long as transactions do not overlap (commit_drafts, create_version).     *)
THEOREM DraftCorrect == SpecAll => []DraftOnce
<1> DEFINE Inv == ~setting.overlap => DraftsFollow
<1>1. InitAll => Inv
  <2>1. InitAll => DOMAIN versions = {} /\ \A u \in Users : work[u].took = {}
    BY DEF InitAll, Init, NoWork
  <2> QED
    BY <2>1 DEF DraftsFollow, Spent, Held, Aimed, Alike, Behind, Once
<1>2. Inv /\ TypedInv /\ [NextAll]_all => Inv'
  <2>1. TypedInv /\ [NextAll]_all => setting' = setting
    BY VersionsStep
  <2> QED
    BY <2>1, DraftsNext
<1>3. Inv => DraftOnce
  BY DEF DraftsFollow, Once, DraftOnce
<1> QED BY <1>1, <1>2, <1>3, TypedInit, TypedNext, PTL DEF SpecAll

-----------------------------------------------------------------------------
(* The files of versions are there.                                         *)

(* A file that was stored for a row to come stays new, and so does one of a *)
(* row that came while a collection runs, unless it counted as referred to. *)
FilesHeld ==
  /\ gc.doomed = {} /\ (~gc.open => gc.old = {})
  /\ \A u \in Users : work[u].phase = "stored" => files[work[u].sha] = "new"
  /\ gc.open => \A c \in Shas(versions) : c \in gc.refs \/ files[c] = "new"
  /\ \A c \in Shas(versions) : files[c] # "none"

LEMMA ShasAppended ==
  ASSUME TypedInv, NEW w, Appends(w)
  PROVE  Shas(versions') = Shas(versions) \cup {w.sha}
<1> DEFINE new == Len(versions) + 1
<1>1. /\ DOMAIN versions' = DOMAIN versions \cup {new} /\ new \notin DOMAIN versions
      /\ \A i \in DOMAIN versions : versions'[i] = versions[i]
      /\ versions'[new] = NewVersion(w)
  BY RowsAppended
<1>2. versions'[new].sha = w.sha /\ versions'[new].state # "purged"
  BY <1>1 DEF NewVersion
<1> HIDE DEF new
<1> QED
  BY <1>1, <1>2 DEF Shas

(* Files are stored, requests begin and go.                                 *)
LEMMA FilesStored ==
  ASSUME FilesHeld, TypedInv, UNCHANGED <<versions, gc>>,
         files' = files \/ \E c \in Contents : files' = Stored(c),
         \A u \in Users : work'[u].phase = "stored" => work'[u] = work[u] \/ files'[work'[u].sha] = "new"
  PROVE  FilesHeld'
<1>1. files \in [Contents -> {"none", "new", "old"}] /\ work \in [Users -> Work]
      /\ \A u \in Users : work[u].phase = "stored" => work[u].sha \in Contents
  BY DEF TypedInv, StoreTyped
<1>2. Shas(versions) \subseteq Contents
  <2>1. \A i \in DOMAIN versions : versions[i] \in Version
    BY DEF TypedInv, VersionsTyped
  <2> QED
    BY <2>1 DEF Shas, Version
<1>3. \A c \in Contents : files'[c] = files[c] \/ files'[c] = "new"
  BY <1>1 DEF Stored
<1>4. \A u \in Users : work'[u].phase = "stored" => files'[work'[u].sha] = "new"
  BY <1>1, <1>3 DEF FilesHeld
<1>5. gc'.open => \A c \in Shas(versions') : c \in gc'.refs \/ files'[c] = "new"
  BY <1>2, <1>3 DEF FilesHeld
<1>6. \A c \in Shas(versions') : files'[c] # "none"
  BY <1>2, <1>3 DEF FilesHeld
<1> QED
  BY <1>4, <1>5, <1>6 DEF FilesHeld

LEMMA FilesMake ==
  ASSUME FilesHeld, TypedInv, ~setting.overlap, Make
  PROVE  FilesHeld'
<1>0. /\ work \in [Users -> Work] /\ files \in [Contents -> {"none", "new", "old"}]
      /\ \A u \in Users : Becomes(u, NoWork) => \A x \in Users : work'[x] = work[x] \/ work'[x].phase = "none"
      /\ \A c \in Contents : Stored(c)[c] = "new"
  BY DEF TypedInv, StoreTyped, Becomes, NoWork, Stored
<1>1. ASSUME NEW w, Appends(w), w.sha \in Shas(versions) \/ files[w.sha] = "new",
             \A x \in Users : work'[x] = work[x] \/ work'[x].phase = "none"
      PROVE  FilesHeld'
  <2>1. Shas(versions') = Shas(versions) \cup {w.sha} /\ UNCHANGED <<files, gc>>
    BY <1>1, ShasAppended DEF Appends
  <2>2. \A u \in Users : work'[u].phase = "stored" => files'[work'[u].sha] = "new"
    BY <1>1, <2>1 DEF FilesHeld
  <2>3. gc'.open => \A c \in Shas(versions') : c \in gc'.refs \/ files'[c] = "new"
    BY <1>1, <2>1 DEF FilesHeld
  <2>4. \A c \in Shas(versions') : files'[c] # "none"
    BY <1>1, <2>1 DEF FilesHeld
  <2> QED
    BY <2>1, <2>2, <2>3, <2>4 DEF FilesHeld
<1>2. ASSUME NEW w, Appends(w), w.sha \in Shas(versions), work' = work PROVE FilesHeld'
  BY <1>1, <1>2
<1>3. ASSUME NEW u \in Users, work[u].phase = "stored", Appends(work[u]), Becomes(u, NoWork) PROVE FilesHeld'
  <2>1. files[work[u].sha] = "new"
    BY <1>3 DEF FilesHeld
  <2> QED
    BY <1>0, <1>1, <1>3, <2>1
<1>4. ASSUME NEW u \in Users, OnlyWork, files' = files, Becomes(u, NoWork) PROVE FilesHeld'
  BY <1>0, <1>4, FilesStored DEF OnlyWork
<1>5. ASSUME NEW u \in Users, NEW w, Becomes(u, w), OnlyWork, NEW c \in Contents, files' = Stored(c), w.sha = c
      PROVE  FilesHeld'
  <2>1. \A x \in Users : work'[x] = work[x] \/ work'[x].sha = c
    BY <1>0, <1>5 DEF Becomes
  <2> QED
    BY <1>0, <1>5, <2>1, FilesStored DEF OnlyWork
<1>6. ASSUME NEW u \in Users, NEW m \in Models, NEW c \in Contents, NEW onto \in Nat \cup {Any}, OnlyWork,
             files' = Stored(c),
             Becomes(u, [phase |-> "stored", model |-> m, sha |-> c, onto |-> onto, took |-> {}])
      PROVE  FilesHeld'
  BY <1>5, <1>6
<1>7. ASSUME NEW u \in Users, NEW w, w.phase = "building", Becomes(u, w), OnlyWork, files' = files
      PROVE  FilesHeld'
  <2>1. \A x \in Users : work'[x] = work[x] \/ work'[x].phase = "building"
    BY <1>0, <1>7 DEF Becomes
  <2> QED
    BY <1>7, <2>1, FilesStored DEF OnlyWork
<1>8. ASSUME NEW u \in Users, NEW m \in Models, NEW took \in SUBSET {d \in Drafts : drafts[d].model = m}, OnlyWork,
             files' = files,
             Becomes(u, [phase |-> "building", model |-> m, sha |-> None,
                         onto |-> HeadVersion(versions, m), took |-> took])
      PROVE  FilesHeld'
  BY <1>7, <1>8
<1>9. ASSUME NEW u \in Users, NEW c \in Contents, OnlyWork, files' = Stored(c),
             work' = [work EXCEPT ![u].phase = "stored", ![u].sha = c]
      PROVE  FilesHeld'
  <2> DEFINE w == [work[u] EXCEPT !.phase = "stored", !.sha = c]
  <2>1. Becomes(u, w)
    BY <1>0, <1>9 DEF Becomes, Work
  <2>2. w.sha = c
    BY <1>0 DEF Work
  <2> HIDE DEF w
  <2> QED
    BY <1>5, <1>9, <2>1, <2>2
<1> QED
  BY <1>2, <1>3, <1>4, <1>6, <1>8, <1>9, MakeCases

(* A collection begins, with all that is referred to, or goes on.           *)
LEMMA FilesClean ==
  ASSUME FilesHeld, TypedInv, ~setting.overlap, Clean
  PROVE  FilesHeld'
<1>1. /\ files \in [Contents -> {"none", "new", "old"}] /\ gc \in Collection
      /\ \A u \in Users : work[u].phase = "stored" => work[u].sha \in Contents
  BY DEF TypedInv, StoreTyped
<1>2. CASE Collect
  <2>1. gc' = Collecting(versions, Contents) /\ UNCHANGED <<versions, files, work>>
    BY <1>2 DEF Collect
  <2>2. gc'.open /\ gc'.doomed = {} /\ gc'.refs = Shas(versions)
    BY <2>1 DEF Collecting
  <2> QED
    BY <2>1, <2>2 DEF FilesHeld
<1>3. CASE EndCollect
  <2>1. gc' = NoCollection /\ UNCHANGED <<versions, files, work>>
    BY <1>3 DEF EndCollect
  <2>2. ~gc'.open /\ gc'.doomed = {} /\ gc'.old = {}
    BY <2>1 DEF NoCollection
  <2> QED
    BY <2>1, <2>2 DEF FilesHeld
<1>4. ASSUME NEW c \in Contents, Age(c) PROVE FilesHeld'
  <2>1. /\ ~gc.open /\ UNCHANGED <<versions, gc, work>> /\ files' = [files EXCEPT ![c] = "old"]
        /\ \A u \in Users : work[u].sha # c
    BY <1>4 DEF Age
  <2>2. \A d : d # c => files'[d] = files[d]
    BY <1>1, <2>1
  <2>3. \A u \in Users : work'[u].phase = "stored" => files'[work'[u].sha] = "new"
    BY <2>1, <2>2 DEF FilesHeld
  <2>4. \A d \in Shas(versions') : files'[d] # "none"
    BY <1>1, <2>1, <2>2 DEF FilesHeld
  <2> QED
    BY <2>1, <2>3, <2>4 DEF FilesHeld
<1>5. ASSUME NEW c \in Contents, Unlink(c) PROVE FilesHeld'
  <2>1. /\ c \in gc.old \ gc.refs /\ files[c] = "old"
        /\ files' = [files EXCEPT ![c] = "none"] /\ gc' = [gc EXCEPT !.doomed = @ \ {c}]
        /\ UNCHANGED <<versions, work>>
    BY <1>5 DEF Unlink, Collectable, FilesHeld
  <2>2. gc'.open = gc.open /\ gc'.refs = gc.refs /\ gc'.old = gc.old /\ gc'.doomed = {}
    BY <1>1, <2>1 DEF Collection, FilesHeld
  <2>3. gc.open
    BY <2>1 DEF FilesHeld
  <2>4. \A d : d # c => files'[d] = files[d]
    BY <1>1, <2>1
  <2>5. c \notin Shas(versions)
    BY <2>1, <2>3 DEF FilesHeld
  <2>6. \A u \in Users : work'[u].phase = "stored" => files'[work'[u].sha] = "new"
    BY <2>1, <2>4 DEF FilesHeld
  <2>7. \A d \in Shas(versions') : (d \in gc'.refs \/ files'[d] = "new") /\ files'[d] # "none"
    BY <2>1, <2>2, <2>3, <2>4, <2>5 DEF FilesHeld
  <2> QED
    BY <2>2, <2>3, <2>6, <2>7 DEF FilesHeld
<1>6. ASSUME NEW c \in Contents, Doom(c) PROVE FALSE
  BY <1>6 DEF Doom
<1> QED
  BY <1>2, <1>3, <1>4, <1>5, <1>6 DEF Clean

LEMMA FilesNext == FilesHeld /\ TypedInv /\ ~setting.overlap /\ [NextAll]_all => FilesHeld'
<1> SUFFICES ASSUME FilesHeld, TypedInv, ~setting.overlap, [NextAll]_all PROVE FilesHeld'
  OBVIOUS
<1>1. CASE Consider
  <2>1. Restated /\ UNCHANGED <<files, gc, work>>
        /\ \A i \in DOMAIN versions : (versions'[i].state = "purged") <=> (versions[i].state = "purged")
    BY <1>1, ConsiderRestates
  <2>2. Shas(versions') = Shas(versions)
    BY <2>1 DEF Shas, Restated
  <2> QED
    BY <2>1, <2>2 DEF FilesHeld
<1>2. CASE Make
  BY <1>2, FilesMake
<1>3. CASE Clean
  BY <1>3, FilesClean
<1>4. ASSUME NEW m \in Models, PurgeAll(m) PROVE FilesHeld'
  <2>1. Purge(m) /\ UNCHANGED <<files, work>>
        /\ gc' = Collecting(versions', {versions[i].sha : i \in Of(versions, m)})
    BY <1>4 DEF PurgeAll, Purge
  <2>2. gc'.open /\ gc'.doomed = {} /\ gc'.refs = Shas(versions')
    BY <2>1 DEF Collecting
  <2>3. /\ Restated
        /\ \A i \in DOMAIN versions :
             versions'[i].state = IF versions[i].model = m THEN "purged" ELSE versions[i].state
    BY <2>1, PurgeRestates, PurgeVersions
  <2>4. Shas(versions') \subseteq Shas(versions)
    BY <2>3 DEF Shas, Restated
  <2> QED
    BY <2>1, <2>2, <2>4 DEF FilesHeld
<1>5. ASSUME Draw \/ Rollback \/ BeginAll \/ UNCHANGED all \/ \E m \in Models : DeleteModel(m) \/ RestoreModel(m)
      PROVE  FilesHeld'
  <2>1. UNCHANGED <<versions, work, files, gc>>
    BY <1>5 DEF Draw, DeleteDraft, CreateDraft, Rollback, BeginAll, Begin, store, all, vars, DeleteModel, RestoreModel
  <2> QED
    BY <2>1 DEF FilesHeld
<1> QED
  BY <1>1, <1>2, <1>3, <1>4, <1>5 DEF NextAll, Elsewhere

(* The file of every version is there, for any contents, models and         *)
(* engineers: what a collection deletes was old, and not referred to when   *)
(* it began, and since then nothing came to refer to it that did not touch  *)
(* it, as long as transactions do not overlap (blob_gc.py).                 *)
THEOREM FilesCorrect == SpecAll => []FilesKept
<1> DEFINE Inv == ~setting.overlap => FilesHeld
<1>1. InitAll => Inv
  <2>1. InitAll => /\ Shas(versions) = {} /\ ~gc.open /\ gc.doomed = {} /\ gc.old = {}
                   /\ \A u \in Users : work[u].phase = "none"
    BY DEF InitAll, Init, NoWork, NoCollection, Shas
  <2> QED
    BY <2>1 DEF FilesHeld
<1>2. Inv /\ TypedInv /\ [NextAll]_all => Inv'
  <2>1. TypedInv /\ [NextAll]_all => setting' = setting
    BY VersionsStep
  <2> QED
    BY <2>1, FilesNext
<1>3. Inv => FilesKept
  BY DEF FilesHeld, FilesKept
<1> QED BY <1>1, <1>2, <1>3, TypedInit, TypedNext, PTL DEF SpecAll

-----------------------------------------------------------------------------
(* States of versions tell the history of their change requests.            *)

(* Each part of the invariant is about a direction: from the change         *)
(* requests to the states, or back.                                         *)
Pending(cr) == cr.status \in {"open", "changes_requested", "approved"}

Merged(cr) == cr.status = "merged"

PendingShared == \A c \in CRs : Pending(crs[c]) => versions[crs[c].version].state = "shared"

PendingAlone ==
  \A c, d \in CRs : Pending(crs[c]) /\ Pending(crs[d]) /\ crs[c].version = crs[d].version => c = d

SharedPending ==
  \A i \in DOMAIN versions : versions[i].state = "shared" => \E c \in CRs : Pending(crs[c]) /\ crs[c].version = i

Public == {"published", "archived"}

PublicMerged ==
  \A i \in DOMAIN versions : versions[i].state \in Public => \E c \in CRs : Merged(crs[c]) /\ crs[c].version = i

(* A version at least as new as that of cr is published.                    *)
Overcome(vs, cr) ==
  \E i \in Of(vs, cr.model) : vs[i].state = "published" /\ vs[cr.version].number <= vs[i].number

MergedPublic ==
  \A c \in CRs : Merged(crs[c]) => versions[crs[c].version].state \in Public /\ Overcome(versions, crs[c])

NothingNewer ==
  \A c \in CRs : \A i \in Of(versions, crs[c].model) :
    Merged(crs[c]) /\ versions[i].state = "published" => versions[crs[c].version].number <= versions[i].number

StatesHeld == PendingShared /\ PendingAlone /\ SharedPending /\ PublicMerged /\ MergedPublic /\ NothingNewer

(* Without overlap a review commits the rows it made.                       *)
LEMMA CommitsAlone ==
  ASSUME TypedInv, ~setting.overlap, NEW view \in Views, NEW c \in CRs, NEW vs, NEW row \in CR, NEW m,
         CommitReview(view, vs, c, row), Restates(view, vs, m)
  PROVE  /\ \A i \in DOMAIN versions : versions'[i] = vs[i]
         /\ crs'[c] = row /\ \A d \in CRs : d # c => crs'[d] = crs[d]
<1>1. view.versions = versions /\ CRsOf(view)[c] = crs[c]
  BY ReadTyped
<1>2. /\ versions' = [i \in DOMAIN versions |->
           IF i \in DOMAIN vs /\ vs[i] # versions[i] THEN [versions[i] EXCEPT !.state = vs[i].state] ELSE versions[i]]
      /\ crs' = [crs EXCEPT ![c] =
           [f \in DOMAIN row |-> IF row[f] # crs[c][f] THEN row[f] ELSE crs[c][f]]]
  BY <1>1 DEF CommitReview
<1>3. \A i \in DOMAIN versions : versions'[i] = vs[i]
  BY <1>1, <1>2 DEF Restates
<1>4. crs \in [CRs -> CR \cup {NoCR}]
  BY DEF TypedInv, CRsTyped
<1>5. [f \in DOMAIN row |-> IF row[f] # crs[c][f] THEN row[f] ELSE crs[c][f]] = row
  <2>1. \A f \in DOMAIN row : (IF row[f] # crs[c][f] THEN row[f] ELSE crs[c][f]) = row[f]
    OBVIOUS
  <2>2. row = [f \in DOMAIN row |-> row[f]]
    BY DEF CR
  <2> QED
    BY <2>1, <2>2
<1> QED
  BY <1>2, <1>3, <1>4, <1>5

LEMMA MovedStates ==
  ASSUME NEW vs, NEW j, NEW state \in States, \A i \in DOMAIN vs : vs[i] \in Version
  PROVE  /\ DOMAIN Moved(vs, j, state) = DOMAIN vs
         /\ \A i \in DOMAIN vs : /\ Moved(vs, j, state)[i] \in Version
                                 /\ Moved(vs, j, state)[i].state = IF i = j THEN state ELSE vs[i].state
<1>1. DOMAIN Moved(vs, j, state) = DOMAIN vs
  BY DEF Moved
<1>2. ASSUME NEW i \in DOMAIN vs
      PROVE  /\ Moved(vs, j, state)[i] \in Version
             /\ Moved(vs, j, state)[i].state = IF i = j THEN state ELSE vs[i].state
  <2>1. CASE i = j
    <3>1. Moved(vs, j, state)[i] = [vs[i] EXCEPT !.state = state]
      BY <2>1 DEF Moved
    <3> QED
      BY <2>1, <3>1 DEF Version
  <2>2. CASE i # j
    BY <2>2 DEF Moved
  <2> QED
    BY <2>1, <2>2
<1> QED
  BY <1>1, <1>2

(* One change request that is not merged gets another row that is not, and  *)
(* what it is about goes from wip to shared or back.                        *)
LEMMA StatesReviewed ==
  ASSUME StatesHeld, TypedInv, Restated, NEW c \in CRs, NEW row,
         crs'[c] = row, \A d \in CRs : d # c => crs'[d] = crs[d],
         ~Merged(crs[c]), ~Merged(row),
         \A i \in DOMAIN versions :
           \/ versions'[i].state = versions[i].state
           \/ versions'[i].state \in {"wip", "shared"} /\ versions[i].state \in {"wip", "shared"},
         \A i \in DOMAIN versions :
           (versions'[i].state = "shared") <=>
             \/ Pending(row) /\ i = row.version
             \/ versions[i].state = "shared" /\ ~(Pending(crs[c]) /\ i = crs[c].version),
         Pending(row) =>
           /\ row.version \in DOMAIN versions
           /\ \/ versions[row.version].state = "wip"
              \/ Pending(crs[c]) /\ row.version = crs[c].version
  PROVE  StatesHeld'
<1>1. \A d \in CRs : Pending(crs[d]) \/ Merged(crs[d]) => About(crs[d], versions)
  <2>1. \A d \in CRs : crs[d] # NoCR => About(crs[d], versions)
    BY DEF TypedInv, CRsTyped
  <2> QED
    BY <2>1 DEF Pending, Merged, NoCR
<1>2. ASSUME NEW d \in CRs, Pending(crs[d]) PROVE crs[d].version \in DOMAIN versions /\ versions[crs[d].version].state = "shared"
  BY <1>1, <1>2 DEF About, StatesHeld, PendingShared
<1>3. ASSUME NEW d \in CRs, d # c, Pending(crs[d]), Pending(row) PROVE crs[d].version # row.version
  BY <1>2, <1>3 DEF StatesHeld, PendingAlone
<1>4. PendingShared'
  <2> SUFFICES ASSUME NEW d \in CRs, Pending(crs'[d]) PROVE versions'[crs'[d].version].state = "shared"
    BY DEF PendingShared, Pending
  <2>1. CASE d = c
    BY <2>1
  <2>2. CASE d # c
    <3>1. crs'[d] = crs[d] /\ Pending(crs[d])
      BY <2>2
    <3>2. ~(Pending(crs[c]) /\ crs[d].version = crs[c].version)
      BY <2>2, <3>1 DEF StatesHeld, PendingAlone
    <3> QED
      BY <1>2, <3>1, <3>2
  <2> QED
    BY <2>1, <2>2
<1>5. PendingAlone'
  <2> SUFFICES ASSUME NEW d \in CRs, NEW e \in CRs, Pending(crs'[d]), Pending(crs'[e]), crs'[d].version = crs'[e].version
               PROVE  d = e
    BY DEF PendingAlone, Pending
  <2>1. CASE d = c /\ e # c
    BY <1>3, <2>1
  <2>2. CASE d # c /\ e = c
    BY <1>3, <2>2
  <2>3. CASE d # c /\ e # c
    BY <2>3 DEF StatesHeld, PendingAlone
  <2> QED
    BY <2>1, <2>2, <2>3
<1>6. SharedPending'
  <2> SUFFICES ASSUME NEW i \in DOMAIN versions, versions'[i].state = "shared"
               PROVE  \E d \in CRs : Pending(crs'[d]) /\ crs'[d].version = i
    BY DEF SharedPending, Pending, Restated
  <2>1. CASE Pending(row) /\ i = row.version
    BY <2>1
  <2>2. CASE versions[i].state = "shared" /\ ~(Pending(crs[c]) /\ i = crs[c].version)
    <3>1. PICK d \in CRs : Pending(crs[d]) /\ crs[d].version = i
      BY <2>2 DEF StatesHeld, SharedPending
    <3>2. d # c
      BY <2>2, <3>1
    <3> QED
      BY <3>1, <3>2
  <2> QED
    BY <2>1, <2>2
<1>7. \A i \in DOMAIN versions : /\ versions'[i].state \in Public <=> versions[i].state \in Public
                                 /\ versions'[i].state = "published" <=> versions[i].state = "published"
  BY DEF Public
<1>8. \A d \in CRs : /\ Merged(crs'[d]) <=> Merged(crs[d])
                     /\ Merged(crs[d]) => crs'[d] = crs[d] /\ crs[d].version \in DOMAIN versions
  BY <1>1 DEF About
<1>9. PublicMerged'
  <2> SUFFICES ASSUME NEW i \in DOMAIN versions, versions'[i].state \in Public
               PROVE  \E d \in CRs : Merged(crs'[d]) /\ crs'[d].version = i
    BY DEF PublicMerged, Merged, Restated
  <2>1. PICK d \in CRs : Merged(crs[d]) /\ crs[d].version = i
    BY <1>7 DEF StatesHeld, PublicMerged
  <2> QED
    BY <1>8, <2>1
<1>10. \A m : Of(versions', m) = Of(versions, m)
  <2>1. \A i \in DOMAIN versions : (versions'[i].state = "purged") <=> (versions[i].state = "purged")
    OBVIOUS
  <2> QED
    BY <2>1 DEF Restated, Of
<1>11. MergedPublic'
  <2> SUFFICES ASSUME NEW d \in CRs, Merged(crs[d])
               PROVE  versions'[crs[d].version].state \in Public /\ Overcome(versions', crs'[d])
    BY <1>8 DEF MergedPublic, Merged
  <2>1. versions[crs[d].version].state \in Public /\ Overcome(versions, crs[d])
    BY DEF StatesHeld, MergedPublic
  <2>2. PICK i \in Of(versions, crs[d].model) :
          versions[i].state = "published" /\ versions[crs[d].version].number <= versions[i].number
    BY <2>1 DEF Overcome
  <2>3. i \in DOMAIN versions
    BY DEF Of
  <2>4. versions'[i].state = "published" /\ versions'[crs[d].version].number <= versions'[i].number
    BY <1>7, <1>8, <2>2, <2>3 DEF Restated
  <2> QED
    BY <1>7, <1>8, <1>10, <2>1, <2>4 DEF Overcome
<1>12. NothingNewer'
  <2>1. ASSUME NEW d \in CRs, NEW i \in Of(versions', crs'[d].model),
               Merged(crs'[d]), versions'[i].state = "published"
        PROVE  versions'[crs'[d].version].number <= versions'[i].number
    <3>1. /\ Merged(crs[d]) /\ crs'[d] = crs[d] /\ crs[d].version \in DOMAIN versions
          /\ i \in Of(versions, crs[d].model) /\ i \in DOMAIN versions
      <4>1. Merged(crs[d]) /\ crs'[d] = crs[d] /\ crs[d].version \in DOMAIN versions
        BY <1>8, <2>1
      <4>2. i \in Of(versions, crs[d].model)
        BY <1>10, <4>1
      <4> QED
        BY <4>1, <4>2 DEF Of
    <3>2. versions[i].state = "published"
      BY <1>7, <2>1, <3>1
    <3>3. versions[crs[d].version].number <= versions[i].number
      BY <3>1, <3>2 DEF StatesHeld, NothingNewer
    <3> QED
      BY <3>1, <3>3 DEF Restated
  <2> QED
    BY <2>1 DEF NothingNewer, Merged
<1> QED
  BY <1>4, <1>5, <1>6, <1>9, <1>11, <1>12 DEF StatesHeld

(* A merge publishes a version that is newer than the published one.        *)
LEMMA StatesMerged ==
  ASSUME StatesHeld, TypedInv, Restated, NEW c \in CRs, Alive(crs[c].model),
         crs[c] # NoCR, crs[c].status = "approved",
         ~Overtaken(versions, crs[c]),
         \A i \in DOMAIN versions : versions'[i] = Published(versions, crs[c])[i],
         crs'[c] = [crs[c] EXCEPT !.status = "merged"], \A d \in CRs : d # c => crs'[d] = crs[d]
  PROVE  StatesHeld'
<1> DEFINE v == crs[c].version
           m == crs[c].model
<1>1. \A d \in CRs : Pending(crs[d]) \/ Merged(crs[d]) => About(crs[d], versions)
  <2>1. \A d \in CRs : crs[d] # NoCR => About(crs[d], versions)
    BY DEF TypedInv, CRsTyped
  <2> QED
    BY <2>1 DEF Pending, Merged, NoCR
<1>2. /\ v \in DOMAIN versions /\ versions[v].model = m /\ versions[v].state = "shared"
      /\ Pending(crs[c]) /\ ~Merged(crs[c])
  <2>1. Pending(crs[c]) /\ ~Merged(crs[c])
    BY DEF Pending, Merged
  <2>2. About(crs[c], versions)
    BY <1>1, <2>1
  <2> QED
    BY <2>1, <2>2 DEF About, StatesHeld, PendingShared
<1>3. crs'[c].version = v /\ crs'[c].model = m /\ crs'[c].status = "merged"
  <2>1. crs[c] \in CR
    BY DEF TypedInv, CRsTyped
  <2> QED
    BY <2>1 DEF CR
<1>4. \A i \in DOMAIN versions : versions[i] \in Version
  BY DEF TypedInv, VersionsTyped
<1>5. ASSUME NEW i \in DOMAIN versions
      PROVE  /\ i = v => versions'[i].state = "published"
             /\ i # v /\ versions[i].model = m /\ versions[i].state = "published" =>
                  versions'[i].state = "archived"
             /\ i # v /\ ~(versions[i].model = m /\ versions[i].state = "published") =>
                  versions'[i].state = versions[i].state
  BY <1>4 DEF Published, Of, Version
<1>6. \A d \in CRs : /\ Merged(crs'[d]) <=> d = c \/ Merged(crs[d])
                     /\ Pending(crs'[d]) <=> d # c /\ Pending(crs[d])
                     /\ d # c => crs'[d] = crs[d]
  BY <1>2, <1>3 DEF Merged, Pending
<1>7. \A i \in DOMAIN versions :
        i # v => /\ versions'[i].state = "shared" <=> versions[i].state = "shared"
                 /\ versions'[i].state \in Public <=> versions[i].state \in Public
  BY <1>5 DEF Public
<1>8. PendingShared'
  <2> SUFFICES ASSUME NEW d \in CRs, Pending(crs'[d]) PROVE versions'[crs'[d].version].state = "shared"
    BY DEF PendingShared, Pending
  <2>1. crs'[d] = crs[d] /\ d # c /\ Pending(crs[d])
    BY <1>6
  <2>2. About(crs[d], versions) /\ versions[crs[d].version].state = "shared"
    BY <1>1, <2>1 DEF StatesHeld, PendingShared
  <2>3. crs[d].version # v
    BY <1>2, <2>1 DEF StatesHeld, PendingAlone
  <2> QED
    BY <1>7, <2>1, <2>2, <2>3 DEF About
<1>9. PendingAlone'
  BY <1>6 DEF StatesHeld, PendingAlone, Pending
<1>10. SharedPending'
  <2> SUFFICES ASSUME NEW i \in DOMAIN versions, versions'[i].state = "shared"
               PROVE  \E d \in CRs : Pending(crs'[d]) /\ crs'[d].version = i
    BY DEF SharedPending, Pending, Restated
  <2>1. i # v /\ versions[i].state = "shared"
    BY <1>5, <1>7
  <2>2. PICK d \in CRs : Pending(crs[d]) /\ crs[d].version = i
    BY <2>1 DEF StatesHeld, SharedPending
  <2> QED
    BY <1>6, <2>1, <2>2
<1>11. PublicMerged'
  <2> SUFFICES ASSUME NEW i \in DOMAIN versions, versions'[i].state \in Public
               PROVE  \E d \in CRs : Merged(crs'[d]) /\ crs'[d].version = i
    BY DEF PublicMerged, Merged, Restated
  <2>1. CASE i = v
    BY <1>3, <1>6, <2>1
  <2>2. CASE i # v
    <3>1. PICK d \in CRs : Merged(crs[d]) /\ crs[d].version = i
      BY <1>7, <2>2 DEF StatesHeld, PublicMerged
    <3> QED
      BY <1>2, <1>6, <3>1
  <2> QED
    BY <2>1, <2>2
<1>12. \A x : Of(versions', x) = Of(versions, x)
  <2>1. \A i \in DOMAIN versions : (versions'[i].state = "purged") <=> (versions[i].state = "purged")
    BY <1>2, <1>5
  <2> QED
    BY <2>1 DEF Restated, Of
<1>13. v \in Of(versions, m) /\ \A x : \A i \in Of(versions, x) : i \in DOMAIN versions /\ versions[i].model = x
  BY <1>2 DEF Of
<1>14. \A i \in DOMAIN versions : versions[i].number \in Nat
  BY <1>4 DEF Version
<1>15. ASSUME NEW d \in CRs, Merged(crs[d]), crs[d].model = m
       PROVE  versions[crs[d].version].number <= versions[v].number
  <2>1. PICK i \in Of(versions, m) :
          versions[i].state = "published" /\ versions[crs[d].version].number <= versions[i].number
    BY <1>15 DEF StatesHeld, MergedPublic, Overcome
  <2>2. i # v
    BY <1>2, <2>1
  <2>3. ~(versions[i].number >= versions[v].number)
    BY <2>1, <2>2 DEF Overtaken
  <2>4. i \in DOMAIN versions /\ crs[d].version \in DOMAIN versions
    BY <1>1, <1>13, <1>15 DEF About
  <2> QED
    BY <1>2, <1>14, <2>1, <2>3, <2>4
<1>16. MergedPublic'
  <2>1. Overcome(versions', crs'[c]) /\ versions'[v].state \in Public
    BY <1>2, <1>3, <1>5, <1>12, <1>13, <1>14 DEF Overcome, Public, Restated
  <2>2. ASSUME NEW d \in CRs, d # c, Merged(crs[d])
        PROVE  versions'[crs[d].version].state \in Public /\ Overcome(versions', crs[d])
    <3>1. versions[crs[d].version].state \in Public /\ Overcome(versions, crs[d]) /\ crs[d].version \in DOMAIN versions
      BY <1>1, <2>2 DEF StatesHeld, MergedPublic, About
    <3>2. versions'[crs[d].version].state \in Public
      BY <1>2, <1>7, <3>1 DEF Public
    <3>3. CASE crs[d].model = m
      <4>1. versions[crs[d].version].number <= versions[v].number
        BY <1>15, <2>2, <3>3
      <4>2. v \in Of(versions', crs[d].model) /\ versions'[v].state = "published"
        BY <1>2, <1>5, <1>12, <1>13, <3>3
      <4>3. versions'[crs[d].version].number <= versions'[v].number
        BY <1>2, <3>1, <4>1 DEF Restated
      <4> QED
        BY <3>2, <4>2, <4>3 DEF Overcome
    <3>4. CASE crs[d].model # m
      <4>1. PICK i \in Of(versions, crs[d].model) :
              versions[i].state = "published" /\ versions[crs[d].version].number <= versions[i].number
        BY <3>1 DEF Overcome
      <4>2. i \in DOMAIN versions /\ versions[i].model # m
        BY <1>13, <3>4, <4>1
      <4>3. versions'[i].state = "published"
        BY <1>2, <1>5, <4>1, <4>2
      <4>4. versions'[crs[d].version].number <= versions'[i].number /\ i \in Of(versions', crs[d].model)
        BY <1>12, <3>1, <4>1, <4>2 DEF Restated
      <4> QED
        BY <3>2, <4>3, <4>4 DEF Overcome
    <3> QED
      BY <3>3, <3>4
  <2> QED
    BY <1>3, <1>6, <2>1, <2>2 DEF MergedPublic, Merged
<1>17. NothingNewer'
  <2>1. ASSUME NEW d \in CRs, NEW i \in Of(versions', crs'[d].model),
               Merged(crs'[d]), versions'[i].state = "published"
        PROVE  versions'[crs'[d].version].number <= versions'[i].number
    <3>1. i \in Of(versions, crs'[d].model) /\ i \in DOMAIN versions /\ versions[i].model = crs'[d].model
      BY <1>12, <1>13
    <3>2. CASE crs'[d].model = m
      <4>1. i = v
        BY <1>5, <2>1, <3>1, <3>2
      <4>2. versions[crs'[d].version].number <= versions[v].number /\ crs'[d].version \in DOMAIN versions
        <5>1. CASE d = c
          <6>1. crs'[d].version = v /\ v \in DOMAIN versions /\ versions[v].number \in Nat
            BY <1>2, <1>3, <1>14, <5>1
          <6>2. versions[v].number <= versions[v].number
            BY <6>1
          <6> QED
            BY <6>1, <6>2
        <5>2. CASE d # c
          <6>1. crs'[d] = crs[d] /\ Merged(crs[d]) /\ crs[d].model = m
            BY <1>6, <2>1, <3>2, <5>2
          <6>2. About(crs[d], versions)
            BY <1>1, <6>1
          <6> QED
            BY <1>15, <6>1, <6>2 DEF About
        <5> QED
          BY <5>1, <5>2
      <4> QED
        BY <1>2, <4>1, <4>2 DEF Restated
    <3>3. CASE crs'[d].model # m
      <4>1. d # c /\ crs'[d] = crs[d] /\ Merged(crs[d]) /\ crs[d].version \in DOMAIN versions
        BY <1>1, <1>3, <1>6, <2>1, <3>3 DEF About
      <4>2. versions[i].state = "published"
        BY <1>2, <1>5, <2>1, <3>1, <3>3
      <4>3. versions[crs[d].version].number <= versions[i].number
        BY <3>1, <4>1, <4>2 DEF StatesHeld, NothingNewer
      <4> QED
        BY <3>1, <4>1, <4>3 DEF Restated
    <3> QED
      BY <3>2, <3>3
  <2> QED
    BY <2>1 DEF NothingNewer, Merged
<1> QED
  BY <1>8, <1>9, <1>10, <1>11, <1>16, <1>17 DEF StatesHeld

(* The rows that are found, and what becomes of their versions.             *)
LEMMA StatesConsider ==
  ASSUME StatesHeld, TypedInv, ~setting.overlap, Consider
  PROVE  StatesHeld'
<1>0. Restated
  BY ConsiderRestates
<1>1. \A i \in DOMAIN versions : versions[i] \in Version /\ i \in Nat
  BY DEF TypedInv, VersionsTyped
<1>2. /\ \A view \in Views : view.versions = versions /\ \A c \in CRs : CRsOf(view)[c] = crs[c]
      /\ \A c \in CRs : crs[c] \in CR \cup {NoCR}
      /\ \A view \in Views : \A m : Restates(view, view.versions, m)
  <2>1. \A view \in Views : view.versions = versions /\ \A c \in CRs : CRsOf(view)[c] = crs[c]
    BY ReadTyped
  <2> QED
    BY <2>1 DEF TypedInv, CRsTyped, Restates
<1>3. \A view \in Views : Earlier(view.versions)
  BY ReadTyped
<1>4. ASSUME NEW view \in Views, NEW c \in CRs, Found(view, c)
      PROVE  /\ crs[c] \in CR /\ crs[c] # NoCR /\ About(crs[c], versions) /\ Alive(crs[c].model)
             /\ \A s \in Statuses : LET row == [crs[c] EXCEPT !.status = s]
                                    IN  row \in CR /\ row.version = crs[c].version /\ row.status = s
  <2>1. crs[c] \in CR /\ crs[c] # NoCR /\ Alive(crs[c].model)
    BY <1>2, <1>4 DEF Found
  <2>2. About(crs[c], versions)
    BY <2>1 DEF TypedInv, CRsTyped
  <2>3. \A s \in Statuses : LET row == [crs[c] EXCEPT !.status = s]
                            IN  row \in CR /\ row.version = crs[c].version /\ row.status = s
    BY <2>1 DEF CR, Statuses
  <2> QED
    BY <2>1, <2>2, <2>3
<1>5. ASSUME NEW view \in Views, NEW c \in CRs, Found(view, c), Undecided(crs[c]),
             NEW s \in {"approved", "changes_requested"},
             CommitReview(view, view.versions, c, [crs[c] EXCEPT !.status = s])
      PROVE  StatesHeld'
  <2> DEFINE row == [crs[c] EXCEPT !.status = s]
  <2>1. row \in CR /\ row.version = crs[c].version /\ row.status = s /\ About(crs[c], versions)
    BY <1>4, <1>5 DEF Statuses
  <2> HIDE DEF row
  <2>2. CommitReview(view, versions, c, row)
    BY <1>2, <1>5 DEF row
  <2>3. Restates(view, versions, crs[c].model)
    BY <1>2
  <2>4. /\ \A i \in DOMAIN versions : versions'[i] = versions[i]
        /\ crs'[c] = row /\ \A d \in CRs : d # c => crs'[d] = crs[d]
    BY <2>1, <2>2, <2>3, CommitsAlone
  <2>5. Pending(crs[c]) /\ Pending(row) /\ ~Merged(crs[c]) /\ ~Merged(row) /\ row.version \in DOMAIN versions
    BY <1>5, <2>1 DEF Undecided, Pending, Merged, About
  <2>6. versions[crs[c].version].state = "shared"
    BY <2>5 DEF StatesHeld, PendingShared
  <2> QED
    BY <1>0, <2>1, <2>4, <2>5, <2>6, StatesReviewed
<1>6. ASSUME NEW u \in Users, NEW c \in CRs, NEW v \in DOMAIN versions, CreateCR(u, c, v)
      PROVE  StatesHeld'
  <2>1. PICK view \in Views :
          /\ crs[c] = NoCR
          /\ v \in DOMAIN view.versions /\ view.versions[v].state = "wip"
          /\ CommitReview(view, Moved(view.versions, v, "shared"), c,
               [model |-> view.versions[v].model, version |-> v, author |-> u, status |-> "open"])
    BY <1>6 DEF CreateCR
  <2> DEFINE row == [model |-> versions[v].model, version |-> v, author |-> u, status |-> "open"]
             vs == Moved(versions, v, "shared")
  <2>2. row \in CR /\ row.version = v /\ row.status = "open"
    BY <1>1 DEF CR, Version
  <2>3. CommitReview(view, vs, c, row) /\ crs[c] = NoCR /\ versions[v].state = "wip"
    BY <1>2, <2>1
  <2>4. Restates(view, vs, versions[v].model)
    BY <1>2, <1>3, MovedRestates DEF States
  <2>5. \A i \in DOMAIN versions : vs[i].state = IF i = v THEN "shared" ELSE versions[i].state
    BY <1>1, MovedStates DEF States
  <2> HIDE DEF row, vs
  <2>6. /\ \A i \in DOMAIN versions : versions'[i] = vs[i]
        /\ crs'[c] = row /\ \A d \in CRs : d # c => crs'[d] = crs[d]
    BY <2>2, <2>3, <2>4, CommitsAlone
  <2>7. ~Pending(crs[c]) /\ ~Merged(crs[c]) /\ Pending(row) /\ ~Merged(row)
    BY <2>2, <2>3 DEF Pending, Merged, NoCR
  <2> QED
    BY <1>0, <2>2, <2>3, <2>5, <2>6, <2>7, StatesReviewed
<1>7. ASSUME NEW c \in CRs, NEW v \in DOMAIN versions, SetCRVersion(c, v)
      PROVE  StatesHeld'
  <2>1. PICK view \in Views :
          LET cr == CRsOf(view)[c]
          IN  /\ Found(view, c) /\ Undecided(cr)
              /\ v \in Of(view.versions, cr.model) /\ view.versions[v].state = "wip"
              /\ CommitReview(view, Moved(Moved(view.versions, cr.version, "wip"), v, "shared"), c,
                   [model |-> cr.model, version |-> v, author |-> cr.author, status |-> "open"])
    BY <1>7 DEF SetCRVersion
  <2> DEFINE cr == crs[c]
             row == [model |-> cr.model, version |-> v, author |-> cr.author, status |-> "open"]
             us == Moved(versions, cr.version, "wip")
             vs == Moved(us, v, "shared")
  <2>2. /\ cr \in CR /\ About(cr, versions) /\ Undecided(cr) /\ v \in Of(versions, cr.model)
        /\ versions[v].state = "wip" /\ CommitReview(view, vs, c, row)
    BY <1>2, <1>4, <2>1
  <2>3. row \in CR /\ row.version = v /\ row.status = "open"
    BY <1>1, <2>2 DEF CR
  <2>4. Restates(view, vs, cr.model)
    <3>1. Restates(view, us, cr.model)
      BY <1>2, <1>3, <2>2, MovedRestates DEF States, About
    <3>2. versions[v].model = cr.model
      BY <2>2 DEF Of
    <3> HIDE DEF us
    <3> QED
      BY <1>2, <1>3, <3>1, <3>2, MovedRestates DEF States
  <2>5. \A i \in DOMAIN versions :
          vs[i].state = IF i = v THEN "shared" ELSE IF i = cr.version THEN "wip" ELSE versions[i].state
    <3>1. /\ DOMAIN us = DOMAIN versions
          /\ \A i \in DOMAIN versions : us[i] \in Version /\ us[i].state = IF i = cr.version THEN "wip" ELSE versions[i].state
      BY <1>1, MovedStates DEF States
    <3> HIDE DEF us
    <3>2. \A i \in DOMAIN us : vs[i].state = IF i = v THEN "shared" ELSE us[i].state
      BY <3>1, MovedStates DEF States
    <3> QED
      BY <3>1, <3>2
  <2> HIDE DEF row, vs
  <2>6. /\ \A i \in DOMAIN versions : versions'[i] = vs[i]
        /\ crs'[c] = row /\ \A d \in CRs : d # c => crs'[d] = crs[d]
    BY <2>2, <2>3, <2>4, CommitsAlone
  <2>7. Pending(crs[c]) /\ ~Merged(crs[c]) /\ Pending(row) /\ ~Merged(row)
    BY <2>2, <2>3 DEF Pending, Merged, Undecided
  <2>8. versions[cr.version].state = "shared"
    BY <2>7 DEF StatesHeld, PendingShared
  <2> QED
    BY <1>0, <2>2, <2>3, <2>5, <2>6, <2>7, <2>8, StatesReviewed
<1>8. ASSUME NEW c \in CRs, MergeCR(c) PROVE StatesHeld'
  <2>1. PICK view \in Views :
          LET cr == CRsOf(view)[c]
          IN  /\ Found(view, c) /\ cr.status = "approved"
              /\ ~Overtaken(view.versions, cr)
              /\ CommitReview(view, Published(view.versions, cr), c, [cr EXCEPT !.status = "merged"])
    BY <1>8 DEF MergeCR
  <2> DEFINE row == [crs[c] EXCEPT !.status = "merged"]
  <2>2. /\ crs[c] # NoCR /\ Alive(crs[c].model) /\ crs[c].status = "approved" /\ About(crs[c], versions)
        /\ ~Overtaken(versions, crs[c]) /\ CommitReview(view, Published(versions, crs[c]), c, row)
    BY <1>2, <1>4, <2>1
  <2>3. row \in CR
    BY <1>4, <2>1 DEF Statuses
  <2>4. Restates(view, Published(versions, crs[c]), crs[c].model)
    <3>1. DOMAIN Published(versions, crs[c]) = DOMAIN versions
      BY DEF Published
    <3>2. ASSUME NEW i \in DOMAIN versions
          PROVE  LET vs == Published(versions, crs[c]) IN
                 \/ vs[i] = versions[i]
                 \/ /\ versions[i].model = crs[c].model /\ vs[i].state \in States
                    /\ vs[i] = [versions[i] EXCEPT !.state = vs[i].state]
      <4> DEFINE vs == Published(versions, crs[c])
      <4>1. \/ vs[i] = versions[i]
            \/ /\ versions[i].model = crs[c].model
               /\ \E s \in States : vs[i] = [versions[i] EXCEPT !.state = s]
        BY <2>2 DEF Published, Of, About, States
      <4>2. \A s \in States : [versions[i] EXCEPT !.state = s].state = s
        BY <1>1 DEF Version
      <4> HIDE DEF vs
      <4> QED
        BY <4>1, <4>2 DEF vs
    <3> QED
      BY <1>2, <3>1, <3>2 DEF Restates
  <2> HIDE DEF row
  <2>5. /\ \A i \in DOMAIN versions : versions'[i] = Published(versions, crs[c])[i]
        /\ crs'[c] = row /\ \A d \in CRs : d # c => crs'[d] = crs[d]
    BY <2>2, <2>3, <2>4, CommitsAlone
  <2> QED
    BY <1>0, <2>2, <2>5, StatesMerged DEF row
<1>9. ASSUME NEW c \in CRs, RejectCR(c) PROVE StatesHeld'
  <2>1. PICK view \in Views :
          LET cr == CRsOf(view)[c]
          IN  /\ Found(view, c) /\ cr.status \notin {"merged", "rejected"}
              /\ CommitReview(view, Moved(view.versions, cr.version, "wip"), c, [cr EXCEPT !.status = "rejected"])
    BY <1>9 DEF RejectCR
  <2> DEFINE row == [crs[c] EXCEPT !.status = "rejected"]
             vs == Moved(versions, crs[c].version, "wip")
  <2>2. /\ crs[c] \in CR /\ crs[c].status \notin {"merged", "rejected"} /\ About(crs[c], versions)
        /\ CommitReview(view, vs, c, row)
    BY <1>2, <1>4, <2>1
  <2>3. row \in CR /\ row.status = "rejected"
    BY <1>4, <2>1 DEF Statuses
  <2>4. Restates(view, vs, crs[c].model)
    BY <1>2, <1>3, <2>2, MovedRestates DEF States, About
  <2>5. \A i \in DOMAIN versions : vs[i].state = IF i = crs[c].version THEN "wip" ELSE versions[i].state
    BY <1>1, MovedStates DEF States
  <2> HIDE DEF row, vs
  <2>6. /\ \A i \in DOMAIN versions : versions'[i] = vs[i]
        /\ crs'[c] = row /\ \A d \in CRs : d # c => crs'[d] = crs[d]
    BY <2>2, <2>3, <2>4, CommitsAlone
  <2>7. Pending(crs[c]) /\ ~Merged(crs[c]) /\ ~Pending(row) /\ ~Merged(row)
    BY <2>2, <2>3 DEF Pending, Merged, CR
  <2>8. versions[crs[c].version].state = "shared"
    BY <2>7 DEF StatesHeld, PendingShared
  <2> QED
    BY <1>0, <2>3, <2>5, <2>6, <2>7, <2>8, StatesReviewed
<1>10. ASSUME NEW u \in Users, NEW c \in CRs, Approve(u, c) \/ RequestChanges(u, c) PROVE StatesHeld'
  <2>1. PICK view \in Views, s \in {"approved", "changes_requested"} :
          LET cr == CRsOf(view)[c]
          IN  /\ Found(view, c) /\ Undecided(cr)
              /\ CommitReview(view, view.versions, c, [cr EXCEPT !.status = s])
    BY <1>10 DEF Approve, RequestChanges
  <2> QED
    BY <1>2, <1>5, <2>1
<1> QED
  BY <1>6, <1>7, <1>8, <1>9, <1>10 DEF Consider

(* A version that is added is about nothing yet.                            *)
LEMMA StatesAppend ==
  ASSUME StatesHeld, TypedInv, NEW w, Appends(w), crs' = crs
  PROVE  StatesHeld'
<1> DEFINE new == Len(versions) + 1
<1>1. /\ DOMAIN versions' = DOMAIN versions \cup {new} /\ new \notin DOMAIN versions
      /\ \A i \in DOMAIN versions : versions'[i] = versions[i]
      /\ versions'[new] = NewVersion(w)
  BY RowsAppended
<1>2. versions'[new].state = "wip"
  BY <1>1 DEF NewVersion
<1> HIDE DEF new
<1>3. \A d \in CRs : Pending(crs[d]) \/ Merged(crs[d]) => crs[d].version \in DOMAIN versions
  <2>1. \A d \in CRs : crs[d] # NoCR => About(crs[d], versions)
    BY DEF TypedInv, CRsTyped
  <2> QED
    BY <2>1 DEF Pending, Merged, NoCR, About
<1>4. PendingShared'
  BY <1>1, <1>3 DEF StatesHeld, PendingShared, Pending
<1>5. PendingAlone'
  BY DEF StatesHeld, PendingAlone, Pending
<1>6. SharedPending'
  BY <1>1, <1>2 DEF StatesHeld, SharedPending, Pending
<1>7. PublicMerged'
  BY <1>1, <1>2 DEF StatesHeld, PublicMerged, Merged, Public
<1>8. \A m : \A i \in Of(versions, m) : i \in Of(versions', m) /\ i \in DOMAIN versions
  BY <1>1 DEF Of
<1>9. MergedPublic'
  <2>1. ASSUME NEW d \in CRs, Merged(crs[d])
        PROVE  versions'[crs[d].version].state \in Public /\ Overcome(versions', crs[d])
    <3>1. versions[crs[d].version].state \in Public /\ Overcome(versions, crs[d]) /\ crs[d].version \in DOMAIN versions
      BY <1>3, <2>1 DEF StatesHeld, MergedPublic
    <3> QED
      BY <1>1, <1>8, <3>1 DEF Overcome
  <2> QED
    BY <2>1 DEF MergedPublic, Merged
<1>10. NothingNewer'
  <2>1. ASSUME NEW d \in CRs, NEW i \in Of(versions', crs[d].model), Merged(crs[d]), versions'[i].state = "published"
        PROVE  versions'[crs[d].version].number <= versions'[i].number
    <3>1. i \in DOMAIN versions /\ i \in Of(versions, crs[d].model)
      BY <1>1, <1>2, <2>1 DEF Of
    <3> QED
      BY <1>1, <1>3, <2>1, <3>1 DEF StatesHeld, NothingNewer
  <2> QED
    BY <2>1 DEF NothingNewer, Merged
<1> QED
  BY <1>4, <1>5, <1>6, <1>7, <1>9, <1>10 DEF StatesHeld

(* The change requests of a model go with its versions.                     *)
LEMMA StatesPurge ==
  ASSUME StatesHeld, TypedInv, NEW m \in Models, PurgeAll(m)
  PROVE  StatesHeld'
<1>1. /\ Purge(m) /\ \A c \in CRs : crs'[c] = IF crs[c].model = m THEN NoCR ELSE crs[c]
  BY DEF PurgeAll
<1>2. /\ Restated
      /\ \A i \in DOMAIN versions :
           versions'[i].state = IF versions[i].model = m THEN "purged" ELSE versions[i].state
      /\ \A x : Of(versions', x) = IF x = m THEN {} ELSE Of(versions, x)
  BY <1>1, PurgeRestates, PurgeVersions
<1>3. \A d \in CRs : Pending(crs[d]) \/ Merged(crs[d]) =>
        crs[d].version \in DOMAIN versions /\ versions[crs[d].version].model = crs[d].model
  <2>1. \A d \in CRs : crs[d] # NoCR => About(crs[d], versions)
    BY DEF TypedInv, CRsTyped
  <2> QED
    BY <2>1 DEF Pending, Merged, NoCR, About
<1>4. \A d \in CRs : /\ Pending(crs'[d]) <=> Pending(crs[d]) /\ crs[d].model # m
                     /\ Merged(crs'[d]) <=> Merged(crs[d]) /\ crs[d].model # m
                     /\ crs[d].model # m => crs'[d] = crs[d]
  BY <1>1 DEF Pending, Merged, NoCR
<1>5. PendingShared'
  <2> SUFFICES ASSUME NEW d \in CRs, Pending(crs'[d]) PROVE versions'[crs'[d].version].state = "shared"
    BY DEF PendingShared, Pending
  <2> QED
    BY <1>2, <1>3, <1>4 DEF StatesHeld, PendingShared
<1>6. PendingAlone'
  <2> SUFFICES ASSUME NEW d \in CRs, NEW e \in CRs, Pending(crs'[d]), Pending(crs'[e]), crs'[d].version = crs'[e].version
               PROVE  d = e
    BY DEF PendingAlone, Pending
  <2> QED
    BY <1>4 DEF StatesHeld, PendingAlone
<1>7. SharedPending'
  <2> SUFFICES ASSUME NEW i \in DOMAIN versions, versions'[i].state = "shared"
               PROVE  \E d \in CRs : Pending(crs'[d]) /\ crs'[d].version = i
    BY <1>2 DEF SharedPending, Pending, Restated
  <2>1. versions[i].model # m /\ versions[i].state = "shared"
    BY <1>2
  <2>2. PICK d \in CRs : Pending(crs[d]) /\ crs[d].version = i
    BY <2>1 DEF StatesHeld, SharedPending
  <2> QED
    BY <1>3, <1>4, <2>1, <2>2
<1>8. PublicMerged'
  <2> SUFFICES ASSUME NEW i \in DOMAIN versions, versions'[i].state \in Public
               PROVE  \E d \in CRs : Merged(crs'[d]) /\ crs'[d].version = i
    BY <1>2 DEF PublicMerged, Merged, Restated
  <2>1. versions[i].model # m /\ versions[i].state \in Public
    BY <1>2 DEF Public
  <2>2. PICK d \in CRs : Merged(crs[d]) /\ crs[d].version = i
    BY <2>1 DEF StatesHeld, PublicMerged
  <2> QED
    BY <1>3, <1>4, <2>1, <2>2
<1>9. \A x : \A i \in Of(versions, x) : i \in DOMAIN versions /\ versions[i].model = x
  BY DEF Of
<1>10. MergedPublic'
  <2>1. ASSUME NEW d \in CRs, Merged(crs'[d])
        PROVE  versions'[crs'[d].version].state \in Public /\ Overcome(versions', crs'[d])
    <3>1. /\ crs'[d] = crs[d] /\ crs[d].model # m /\ Merged(crs[d])
          /\ crs[d].version \in DOMAIN versions /\ versions[crs[d].version].model = crs[d].model
      BY <1>3, <1>4, <2>1
    <3>2. versions[crs[d].version].state \in Public /\ Overcome(versions, crs[d])
      BY <3>1 DEF StatesHeld, MergedPublic
    <3>3. versions'[crs'[d].version].state \in Public
      BY <1>2, <3>1, <3>2
    <3>4. PICK i \in Of(versions, crs[d].model) :
            versions[i].state = "published" /\ versions[crs[d].version].number <= versions[i].number
      BY <3>2 DEF Overcome
    <3>5. i \in DOMAIN versions /\ versions[i].model = crs[d].model
      BY <1>9
    <3>6. i \in Of(versions', crs[d].model) /\ versions'[i].state = "published"
          /\ versions'[crs[d].version].number <= versions'[i].number
      BY <1>2, <3>1, <3>4, <3>5 DEF Restated
    <3> QED
      BY <3>1, <3>3, <3>6 DEF Overcome
  <2> QED
    BY <2>1 DEF MergedPublic, Merged
<1>11. NothingNewer'
  <2>1. ASSUME NEW d \in CRs, NEW i \in Of(versions', crs'[d].model),
               Merged(crs'[d]), versions'[i].state = "published"
        PROVE  versions'[crs'[d].version].number <= versions'[i].number
    <3>1. /\ crs'[d] = crs[d] /\ crs[d].model # m /\ Merged(crs[d]) /\ crs[d].version \in DOMAIN versions
      BY <1>3, <1>4, <2>1
    <3>2. i \in Of(versions, crs[d].model) /\ i \in DOMAIN versions /\ versions[i].model = crs[d].model
      BY <1>2, <1>9, <3>1
    <3>3. versions[i].state = "published"
      BY <1>2, <2>1, <3>1, <3>2
    <3>4. versions[crs[d].version].number <= versions[i].number
      BY <3>1, <3>2, <3>3 DEF StatesHeld, NothingNewer
    <3> QED
      BY <1>2, <3>1, <3>2, <3>4 DEF Restated
  <2> QED
    BY <2>1 DEF NothingNewer, Merged
<1> QED
  BY <1>5, <1>6, <1>7, <1>8, <1>10, <1>11 DEF StatesHeld

LEMMA StatesNext == StatesHeld /\ TypedInv /\ ~setting.overlap /\ [NextAll]_all => StatesHeld'
<1> SUFFICES ASSUME StatesHeld, TypedInv, ~setting.overlap, [NextAll]_all PROVE StatesHeld'
  OBVIOUS
<1>1. ASSUME UNCHANGED <<versions, crs>> PROVE StatesHeld'
  <2>1. PendingShared' /\ PendingAlone' /\ SharedPending'
    BY <1>1 DEF StatesHeld, PendingShared, PendingAlone, SharedPending, Pending
  <2>2. PublicMerged' /\ NothingNewer'
    BY <1>1 DEF StatesHeld, PublicMerged, NothingNewer, Merged
  <2>3. MergedPublic'
    BY <1>1 DEF StatesHeld, MergedPublic, Merged
  <2> QED
    BY <2>1, <2>2, <2>3 DEF StatesHeld
<1>2. CASE Consider
  BY <1>2, StatesConsider
<1>3. CASE Elsewhere /\ Make
  <2>1. (\E w : Appends(w)) \/ OnlyWork
    BY <1>3, MakeCases
  <2> QED
    BY <1>1, <1>3, <2>1, StatesAppend DEF OnlyWork, Elsewhere
<1>4. CASE Elsewhere /\ ~Make
  BY <1>1, <1>4, MakesNothing DEF Elsewhere
<1>5. ASSUME NEW m \in Models, PurgeAll(m) PROVE StatesHeld'
  BY <1>5, StatesPurge
<1>6. CASE BeginAll \/ UNCHANGED all
  BY <1>1, <1>6 DEF BeginAll, Begin, all, vars, review
<1> QED
  BY <1>2, <1>3, <1>4, <1>5, <1>6 DEF NextAll

(* The states of the versions tell the history of their change requests,    *)
(* for any models, versions and change requests: no merge takes a newer     *)
(* published version back, as long as transactions do not overlap           *)
(* (merge_cr, reject_cr, update_cr_version).                                *)
THEOREM StatesCorrect == SpecAll => []StatesTell
<1> DEFINE Inv == ~setting.overlap => StatesHeld
<1>1. InitAll => Inv
  <2> SUFFICES ASSUME InitAll PROVE StatesHeld
    OBVIOUS
  <2>1. DOMAIN versions = {} /\ \A c \in CRs : ~Pending(crs[c]) /\ ~Merged(crs[c])
    BY DEF InitAll, Init, Pending, Merged, NoCR
  <2> QED
    BY <2>1 DEF StatesHeld, PendingShared, PendingAlone, SharedPending, PublicMerged, MergedPublic, NothingNewer
<1>2. Inv /\ TypedInv /\ [NextAll]_all => Inv'
  <2>1. TypedInv /\ [NextAll]_all => setting' = setting
    BY VersionsStep
  <2> QED
    BY <2>1, StatesNext
<1>3. Inv /\ TypedInv => StatesTell
  <2> SUFFICES ASSUME StatesHeld, TypedInv, NEW m \in Models, NEW v \in Of(versions, m)
               PROVE  LET pending == AboutIn(v, {"open", "changes_requested", "approved"})
                          merged  == {w \in Of(versions, m) : AboutIn(w, {"merged"}) # {}}
                      IN  /\ Cardinality(pending) = (IF versions[v].state = "shared" THEN 1 ELSE 0)
                          /\ (versions[v].state \in {"published", "archived"}) = (v \in merged)
                          /\ (versions[v].state = "published") =
                               (v \in merged /\ \A w \in merged : versions[w].number <= versions[v].number)
    BY DEF StatesTell
  <2> DEFINE pending == AboutIn(v, {"open", "changes_requested", "approved"})
             merged  == {w \in Of(versions, m) : AboutIn(w, {"merged"}) # {}}
  <2>1. \A w \in Of(versions, m) : w \in DOMAIN versions /\ versions[w].model = m
    BY DEF Of
  <2>2. pending = {c \in CRs : Pending(crs[c]) /\ crs[c].version = v}
    BY DEF AboutIn, Pending
  <2>3. merged = {w \in Of(versions, m) : \E c \in CRs : Merged(crs[c]) /\ crs[c].version = w}
    BY DEF AboutIn, Merged
  <2> HIDE DEF pending, merged
  <2>4. Cardinality(pending) = (IF versions[v].state = "shared" THEN 1 ELSE 0)
    <3>1. CASE versions[v].state = "shared"
      <4>1. PICK c \in CRs : Pending(crs[c]) /\ crs[c].version = v
        BY <2>1, <3>1 DEF StatesHeld, SharedPending
      <4>2. pending = {c}
        BY <2>2, <4>1 DEF StatesHeld, PendingAlone
      <4> QED
        BY <3>1, <4>2, FS_Singleton
    <3>2. CASE versions[v].state # "shared"
      <4>1. pending = {}
        BY <2>2, <3>2 DEF StatesHeld, PendingShared
      <4> QED
        BY <3>2, <4>1, FS_EmptySet
    <3> QED
      BY <3>1, <3>2
  <2>5. \A w \in Of(versions, m) : versions[w].state \in Public <=> w \in merged
    BY <2>1, <2>3 DEF StatesHeld, PublicMerged, MergedPublic
  <2>6. ASSUME versions[v].state = "published", NEW w \in merged
        PROVE  versions[w].number <= versions[v].number
    <3>1. PICK c \in CRs : Merged(crs[c]) /\ crs[c].version = w
      BY <2>3
    <3>2. crs[c] # NoCR
      BY <3>1 DEF Merged, NoCR
    <3>3. crs[c].model = m
      BY <2>1, <2>3, <3>1, <3>2 DEF TypedInv, CRsTyped, About
    <3> QED
      BY <2>6, <3>1, <3>3 DEF StatesHeld, NothingNewer
  <2>7. ASSUME v \in merged, \A w \in merged : versions[w].number <= versions[v].number
        PROVE  versions[v].state = "published"
    <3>1. PICK c \in CRs : Merged(crs[c]) /\ crs[c].version = v
      BY <2>3, <2>7
    <3>2. crs[c] # NoCR
      BY <3>1 DEF Merged, NoCR
    <3>3. crs[c].model = m
      BY <2>1, <3>1, <3>2 DEF TypedInv, CRsTyped, About
    <3>4. PICK i \in Of(versions, m) :
            versions[i].state = "published" /\ versions[v].number <= versions[i].number
      BY <3>1, <3>3 DEF StatesHeld, MergedPublic, Overcome
    <3>5. versions[i].number <= versions[v].number
      BY <2>5, <2>7, <3>4 DEF Public
    <3>6. versions \in Seq(Version) /\ Numbered(versions)
      BY DEF TypedInv, VersionsTyped
    <3>7. versions[i].number = versions[v].number
      <4>1. versions[i] \in Version /\ versions[v] \in Version
        BY <2>1, <3>6
      <4> QED
        BY <3>4, <3>5, <4>1 DEF Version
    <3>8. i = v
      BY <3>6, <3>7, Numbers
    <3> QED
      BY <3>4, <3>8
  <2>8. (versions[v].state \in {"published", "archived"}) = (v \in merged)
    BY <2>5 DEF Public
  <2>9. (versions[v].state = "published") =
          (v \in merged /\ \A w \in merged : versions[w].number <= versions[v].number)
    <3>1. versions[v].state = "published" => v \in merged
      BY <2>5 DEF Public
    <3> QED
      BY <2>6, <2>7, <3>1
  <2> QED
    BY <2>4, <2>8, <2>9 DEF pending, merged
<1> QED BY <1>1, <1>2, <1>3, TypedInit, TypedNext, PTL DEF SpecAll
=============================================================================
