------------------------------- MODULE Review -------------------------------
(***************************************************************************)
(* Change requests (CRs) over versions: review/router.py.                  *)
(*                                                                         *)
(* A CR sends a wip version to review; an approver other than its author   *)
(* approves it; merging publishes its version and archives the one         *)
(* published before.  Each handler reads the CR and the versions and       *)
(* commits the columns it changed.  Comments, IDS checks (a reason to      *)
(* refuse), suitability and revision codes and notices are left out.       *)
(***************************************************************************)
EXTENDS Versions

CONSTANT CRs  \* ids of change requests, numbers

VARIABLES
  crs,      \* change_requests
  reviews,  \* the approvals among reviews
  lateCrs   \* what a late transaction has read of change_requests

review == <<crs, reviews, lateCrs>>

all == <<vars, review>>

(* NoCR stands for no row.                                                  *)
CR == [model : Models, version : Nat, author : Users,
       status : {"open", "changes_requested", "approved", "rejected", "merged"}]

NoCR == [model |-> None, version |-> 0, author |-> None, status |-> "none"]

InitAll == Init /\ crs = [c \in CRs |-> NoCR] /\ reviews = {} /\ lateCrs = <<>>

(* What the transaction with this view has read of the CRs.                 *)
CRsOf(view) == IF view.late THEN lateCrs ELSE crs

(* A transaction with this view made vs of the versions and row of c.       *)
CommitReview(view, vs, c, row) ==
  /\ versions' = [i \in DOMAIN versions |->
       IF i \in DOMAIN vs /\ vs[i] # view.versions[i] THEN [versions[i] EXCEPT !.state = vs[i].state] ELSE versions[i]]
  /\ crs' = [crs EXCEPT ![c] =
       [f \in DOMAIN row |-> IF row[f] # CRsOf(view)[c][f] THEN row[f] ELSE crs[c][f]]]
  /\ late' = late \ {view}
  /\ UNCHANGED <<setting, store>>

Moved(vs, i, state) == [vs EXCEPT ![i].state = state]

(* _get_cr: a CR of a model that is not deleted.                            *)
Found(view, c) == CRsOf(view)[c] # NoCR /\ crs[c] # NoCR /\ Alive(crs[c].model)

Undecided(cr) == cr.status \in {"open", "changes_requested"}

-----------------------------------------------------------------------------
CreateCR(u, c, v) ==
  \E view \in Views :
    /\ c \in setting.review /\ crs[c] = NoCR
    /\ v \in DOMAIN view.versions /\ view.versions[v].state = "wip" /\ Alive(view.versions[v].model)
    /\ CommitReview(view, Moved(view.versions, v, "shared"), c,
         [model |-> view.versions[v].model, version |-> v, author |-> u, status |-> "open"])
    /\ UNCHANGED reviews

MutantMayDecide(u, cr) == u \in Approvers

MayDecide(u, cr) == u \in Approvers /\ u # cr.author

(* review_cr                                                                *)
Approve(u, c) ==
  \E view \in Views :
    LET cr == CRsOf(view)[c]
    IN  /\ Found(view, c) /\ Undecided(cr) /\ MayDecide(u, cr)
        /\ CommitReview(view, view.versions, c, [cr EXCEPT !.status = "approved"])
        /\ reviews' = reviews \cup {[cr |-> c, by |-> u, version |-> cr.version]}

RequestChanges(u, c) ==
  \E view \in Views :
    LET cr == CRsOf(view)[c]
    IN  /\ Found(view, c) /\ Undecided(cr) /\ MayDecide(u, cr)
        /\ CommitReview(view, view.versions, c, [cr EXCEPT !.status = "changes_requested"])
        /\ UNCHANGED reviews

(* The old version goes back to wip, the new one to review; the status is   *)
(* written only if it was not open.  Only the author may, who is always one *)
(* of the users: the guard on the caller leaves this step as it is.         *)
SetCRVersion(c, v) ==
  \E view \in Views :
    LET cr == CRsOf(view)[c]
    IN  /\ Found(view, c) /\ Undecided(cr)
        /\ v \in Of(view.versions, cr.model) /\ view.versions[v].state = "wip"
        /\ CommitReview(view, Moved(Moved(view.versions, cr.version, "wip"), v, "shared"), c,
             [model |-> cr.model, version |-> v, author |-> cr.author, status |-> "open"])
        /\ UNCHANGED reviews

MutantOvertaken(vs, cr) == FALSE

(* A newer version is published already.                                    *)
Overtaken(vs, cr) ==
  \E i \in Of(vs, cr.model) \ {cr.version} :
    vs[i].state = "published" /\ vs[i].number >= vs[cr.version].number

Published(vs, cr) ==
  [i \in DOMAIN vs |->
     IF i = cr.version THEN [vs[i] EXCEPT !.state = "published"]
     ELSE IF i \in Of(vs, cr.model) /\ vs[i].state = "published" THEN [vs[i] EXCEPT !.state = "archived"]
     ELSE vs[i]]

MergeCR(c) ==
  \E view \in Views :
    LET cr == CRsOf(view)[c]
    IN  /\ Found(view, c) /\ cr.status = "approved"
        /\ ~Overtaken(view.versions, cr)
        /\ CommitReview(view, Published(view.versions, cr), c, [cr EXCEPT !.status = "merged"])
        /\ UNCHANGED reviews

(* By its author or an approver.                                            *)
RejectCR(c) ==
  \E view \in Views :
    LET cr == CRsOf(view)[c]
    IN  /\ Found(view, c) /\ cr.status \notin {"merged", "rejected"}
        /\ CommitReview(view, Moved(view.versions, cr.version, "wip"), c, [cr EXCEPT !.status = "rejected"])
        /\ UNCHANGED reviews

-----------------------------------------------------------------------------
Consider ==
  /\ \E c \in CRs :
       \/ \E u \in Users :
            Approve(u, c) \/ RequestChanges(u, c) \/ \E v \in DOMAIN versions : CreateCR(u, c, v)
       \/ \E v \in DOMAIN versions : SetCRVersion(c, v)
       \/ MergeCR(c) \/ RejectCR(c)
  /\ lateCrs' = IF late' = {} THEN <<>> ELSE lateCrs

(* A purge takes the CRs and reviews of its model along.                    *)
PurgeAll(m) ==
  /\ Purge(m)
  /\ crs' = [c \in CRs |-> IF crs[c].model = m THEN NoCR ELSE crs[c]]
  /\ reviews' = {r \in reviews : crs[r.cr].model # m}
  /\ UNCHANGED lateCrs

BeginAll == Begin /\ lateCrs' = crs /\ UNCHANGED <<crs, reviews>>

Elsewhere ==
  /\ Make \/ Draw \/ Clean \/ Rollback \/ \E m \in Models : DeleteModel(m) \/ RestoreModel(m)
  /\ lateCrs' = IF late' = {} THEN <<>> ELSE lateCrs
  /\ UNCHANGED <<crs, reviews>>

NextAll == Consider \/ Elsewhere \/ BeginAll \/ \E m \in Models : PurgeAll(m)

SpecAll == InitAll /\ [][NextAll]_all

-----------------------------------------------------------------------------
(* Properties.                                                              *)

(* Types.                                                                   *)
ReviewTypeOK ==
  /\ TypeOK
  /\ crs \in [CRs -> CR \cup {NoCR}]
  /\ reviews \subseteq [cr : CRs, by : Users, version : Nat]

(* review_cr and merge_cr: what is published was approved, by an approver   *)
(* who is not the author of its CR, and as long as transactions do not      *)
(* overlap in the very version that was published.                          *)
ReviewedOnly ==
  \A c \in CRs : crs[c].status = "merged" =>
    \E r \in reviews :
      /\ r.cr = c /\ r.by \in Approvers /\ r.by # crs[c].author
      /\ ~setting.overlap => r.version = crs[c].version

AboutIn(v, statuses) == {c \in CRs : crs[c].version = v /\ crs[c].status \in statuses}

(* The states of versions tell the history of their CRs: shared is what one *)
(* pending CR is about, published or archived what was merged; the          *)
(* published version is the only one, and none merged is newer: no merge    *)
(* takes the published version back (merge_cr).                             *)
StatesTell ==
  ~setting.overlap =>
    \A m \in Models : \A v \in Of(versions, m) :
      LET pending == AboutIn(v, {"open", "changes_requested", "approved"})
          merged  == {w \in Of(versions, m) : AboutIn(w, {"merged"}) # {}}
      IN  /\ Cardinality(pending) = (IF versions[v].state = "shared" THEN 1 ELSE 0)
          /\ (versions[v].state \in {"published", "archived"}) = (v \in merged)
          /\ (versions[v].state = "published") =
               (v \in merged /\ \A w \in merged : versions[w].number <= versions[v].number)
=============================================================================
