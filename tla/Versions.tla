------------------------------ MODULE Versions ------------------------------
(***************************************************************************)
(* Models, their versions and drafts, and the store of their files:        *)
(* models/router.py, drafts_router.py, storage.py and blob_gc.py.          *)
(*                                                                         *)
(* A request that makes a version stores its file first and writes the row *)
(* later; between the two everything else goes on.  What a handler reads   *)
(* and commits in one transaction is one step, except where                *)
(* setting.overlap lets one transaction be late: it decides on rows it     *)
(* read before others committed.  The meaning of files and drafts, tags    *)
(* and codes are left out, as are the other tables that refer to files.    *)
(***************************************************************************)
EXTENDS Integers, Sequences, FiniteSets, FiniteSetsExt

CONSTANTS
  Models,      \* ids of models
  Contents,    \* contents of files, told apart by their sha
  Users,       \* engineers of the project, one request of each at a time
  Approvers,   \* those of them who are approvers
  Drafts,      \* ids of drafts
  Settings,    \* the settings to consider, see Setting
  Any,         \* no head is expected
  None         \* no version, no content, no model

(* models, contents, drafts: what is used; makers: who makes versions;      *)
(* versions: bound on rows ever inserted; trash: models are deleted, files  *)
(* age and are collected; review: ids of change requests, module Review.    *)
Setting == [models : SUBSET Models, contents : SUBSET Contents, drafts : SUBSET Drafts, makers : SUBSET Users,
            versions : Nat, trash : BOOLEAN, review : SUBSET Nat, overlap : BOOLEAN]

ASSUME VersionsAssumption ==
  /\ Settings \subseteq Setting /\ Approvers \subseteq Users
  /\ Any # None /\ Any \notin Nat /\ None \notin Nat
  /\ None \notin Models /\ None \notin Contents /\ None \notin Users

VARIABLES
  setting,   \* of this behaviour, for ever
  models,    \* alive, deleted (deleted_at is set) or purged
  versions,  \* the table, by id; purged rows keep their place
  drafts,    \* draft_objects
  files,     \* the store; a file is old once mtime is past the grace
  work,      \* the version each user's request is about to make
  gc,        \* the running collection
  late       \* what a late transaction has read: a set of at most one view

store == <<models, drafts, files, work, gc>>

vars == <<setting, store, versions, late>>

States == {"wip", "shared", "published", "archived"}

(* onto: the head that was expected, and is the parent; took: the drafts    *)
(* deleted with the insert.                                                 *)
Version == [model : Models, number : Nat, sha : Contents, state : States \cup {"purged"},
            onto : Nat \cup {Any, None}, took : SUBSET Drafts]

Draft == [model : Models \cup {None}, author : Users \cup {None}, gone : BOOLEAN]

NoDraft(g) == [model |-> None, author |-> None, gone |-> g]

Work == [phase : {"none", "building", "stored"}, model : Models \cup {None}, sha : Contents \cup {None},
         onto : Nat \cup {Any, None}, took : SUBSET Drafts]

NoWork == [phase |-> "none", model |-> None, sha |-> None, onto |-> None, took |-> {}]

Collection == [open : BOOLEAN, refs : SUBSET Contents, old : SUBSET Contents, doomed : SUBSET Contents]

NoCollection == [open |-> FALSE, refs |-> {}, old |-> {}, doomed |-> {}]

View(isLate) == [late |-> isLate, versions |-> versions]

(* What a transaction that commits now may have read.                       *)
Views == {View(FALSE)} \cup late

Init ==
  /\ setting \in Settings
  /\ models = [m \in Models |-> "alive"]
  /\ versions = <<>>
  /\ drafts = [d \in Drafts |-> NoDraft(FALSE)]
  /\ files = [c \in Contents |-> "none"]
  /\ work = [u \in Users |-> NoWork]
  /\ gc = NoCollection /\ late = {}

Alive(m) == m \in setting.models /\ models[m] = "alive"

Of(vs, m) == {i \in DOMAIN vs : vs[i].model = m /\ vs[i].state # "purged"}

(* head_version                                                             *)
HeadVersion(vs, m) ==
  IF Of(vs, m) = {} THEN None
  ELSE CHOOSE i \in Of(vs, m) : \A j \in Of(vs, m) : vs[j].number <= vs[i].number

Shas(vs) == {vs[i].sha : i \in {j \in DOMAIN vs : vs[j].state # "purged"}}

-----------------------------------------------------------------------------
(* Files: storage.store, and time                                           *)

(* Definitions named Mutant... are plausible bugs in the definition that    *)
(* follows them; no specification uses them.                                *)

MutantStored(c) == [files EXCEPT ![c] = IF @ = "none" THEN "new" ELSE @]

(* A file that is there already is touched: its grace begins again.         *)
Stored(c) == [files EXCEPT ![c] = "new"]

(* No request is about to refer to a file for as long as the grace, 600 s   *)
(* at least, and no collection takes that long.                             *)
Age(c) ==
  /\ setting.trash /\ files[c] = "new" /\ ~gc.open
  /\ \A u \in Users : work[u].sha # c
  /\ files' = [files EXCEPT ![c] = "old"]
  /\ UNCHANGED <<setting, models, versions, drafts, work, gc, late>>

-----------------------------------------------------------------------------
(* create_version                                                           *)

MutantNextNumber(vs, m) == Len(vs) + 1

NextNumber(vs, m) == Max({0} \cup {vs[i].number : i \in Of(vs, m)}) + 1

MutantHeadFits(vs, w) == w.onto = Any \/ w.onto = None \/ w.onto \in Of(vs, w.model)

HeadFits(vs, w) == w.onto \in {Any, HeadVersion(vs, w.model)}

MutantWithout(took) == drafts

Without(took) == [d \in Drafts |-> IF d \in took THEN NoDraft(TRUE) ELSE drafts[d]]

(* The head is compared, the number is read after it, and the unique        *)
(* constraint refuses it when it is taken: the retry is another try of this *)
(* step.  The model is looked up in the session, which may hold it from     *)
(* before it was deleted; of a purged one the foreign key knows.            *)
CreateVersion(w) ==
  \E view \in Views : \E seen \in {view.versions, versions} :
    /\ Len(versions) < setting.versions
    /\ models[w.model] # "purged"
    /\ HeadFits(view.versions, w)
    /\ NextNumber(seen, w.model) \notin {versions[i].number : i \in Of(versions, w.model)}
    /\ versions' = Append(versions,
         [model |-> w.model, number |-> NextNumber(seen, w.model), sha |-> w.sha, state |-> "wip",
          onto |-> w.onto, took |-> w.took])
    /\ drafts' = Without(w.took)
    /\ late' = late \ {view}
    /\ UNCHANGED <<setting, models, files, gc>>

(* Whatever made a request stores its file and leaves the row for later.    *)
Insert(u) ==
  /\ work[u].phase = "stored"
  /\ CreateVersion(work[u])
  /\ work' = [work EXCEPT ![u] = NoWork]

(* HeadMoved, a model that is gone, too many retries, any other error.      *)
GiveUp(u) ==
  /\ work[u].phase # "none"
  /\ work' = [work EXCEPT ![u] = NoWork]
  /\ UNCHANGED <<setting, models, versions, drafts, files, gc, late>>

-----------------------------------------------------------------------------
(* What makes versions                                                      *)

(* upload_version; a client names the parent it saw, or none.               *)
Upload(u, m, c, onto) ==
  /\ work[u].phase = "none" /\ Alive(m)
  /\ onto \in {Any} \cup Of(versions, m)
  /\ files' = Stored(c)
  /\ work' = [work EXCEPT ![u] = [phase |-> "stored", model |-> m, sha |-> c, onto |-> onto, took |-> {}]]
  /\ UNCHANGED <<setting, models, versions, drafts, gc, late>>

(* What is built on the head takes it as what is expected.                  *)
Build(u, m, took) ==
  /\ work[u].phase = "none" /\ Alive(m)
  /\ LET head == HeadVersion(versions, m)
     IN  /\ head # None => files[versions[head].sha] # "none"
         /\ work' = [work EXCEPT ![u] =
              [phase |-> "building", model |-> m, sha |-> None, onto |-> head, took |-> took]]
  /\ UNCHANGED <<setting, models, versions, drafts, files, gc, late>>

(* commit_drafts: one's own drafts, or those named, of others only by an    *)
(* approver; keep_drafts takes none away.                                   *)
CommitDrafts(u, m, named) ==
  LET there == {d \in Drafts : drafts[d].model = m}
      mine  == {d \in there : drafts[d].author = u}
  IN  /\ named # {} /\ named \subseteq (IF u \in Approvers THEN there ELSE mine)
      /\ Build(u, m, named) \/ Build(u, m, {})

(* import_mesh_version, onto the current version or beside it.              *)
ImportMesh(u, m) == Build(u, m, {}) \/ \E c \in setting.contents : Upload(u, m, c, Any)

Classify(u, m) == Of(versions, m) # {} /\ Build(u, m, {})

Built(u, c) ==
  /\ work[u].phase = "building"
  /\ files' = Stored(c)
  /\ work' = [work EXCEPT ![u].phase = "stored", ![u].sha = c]
  /\ UNCHANGED <<setting, models, versions, drafts, gc, late>>

(* restore_version stores nothing: the file of v has a row.                 *)
RestoreVersion(u, v, onto) ==
  /\ work[u].phase = "none"
  /\ \E m \in Models :
       /\ v \in Of(versions, m) /\ Alive(m) /\ v # HeadVersion(versions, m)
       /\ onto \in {Any} \cup Of(versions, m)
       /\ CreateVersion([model |-> m, sha |-> versions[v].sha, onto |-> onto, took |-> {}])
  /\ UNCHANGED work

-----------------------------------------------------------------------------
(* Drafts: create_draft, delete_draft.  update_draft changes what a draft   *)
(* says, also under a commit that is building with it.                      *)

CreateDraft(u, m, d) ==
  /\ Alive(m) /\ d \in setting.drafts /\ drafts[d] = NoDraft(FALSE)
  /\ drafts' = [drafts EXCEPT ![d] = [model |-> m, author |-> u, gone |-> FALSE]]
  /\ UNCHANGED <<setting, models, versions, files, work, gc, late>>

DeleteDraft(u, d) ==
  /\ drafts[d].model # None /\ Alive(drafts[d].model)
  /\ u = drafts[d].author \/ u \in Approvers
  /\ drafts' = Without({d})
  /\ UNCHANGED <<setting, models, versions, files, work, gc, late>>

-----------------------------------------------------------------------------
(* Models: delete_model, restore_deleted_model, purge_deleted_model         *)

DeleteModel(m) ==
  /\ setting.trash /\ Alive(m)
  /\ models' = [models EXCEPT ![m] = "deleted"]
  /\ UNCHANGED <<setting, versions, drafts, files, work, gc, late>>

RestoreModel(m) ==
  /\ models[m] = "deleted"
  /\ models' = [models EXCEPT ![m] = "alive"]
  /\ UNCHANGED <<setting, versions, drafts, files, work, gc, late>>

Collecting(vs, only) ==
  [open |-> TRUE, refs |-> Shas(vs), old |-> {c \in only : files[c] = "old"}, doomed |-> {}]

(* It collects what it alone referred to, as soon as it has committed.      *)
Purge(m) ==
  /\ models[m] = "deleted" /\ ~gc.open /\ late = {}
  /\ models' = [models EXCEPT ![m] = "purged"]
  /\ versions' = [i \in DOMAIN versions |->
                    IF i \in Of(versions, m) THEN [versions[i] EXCEPT !.state = "purged"] ELSE versions[i]]
  /\ drafts' = Without({d \in Drafts : drafts[d].model = m})
  /\ gc' = Collecting(versions', {versions[i].sha : i \in Of(versions, m)})
  /\ UNCHANGED <<setting, files, work, late>>

-----------------------------------------------------------------------------
(* blob_gc.collect: the references and the cutoff are taken at its start,   *)
(* the age of a file when its turn comes.  The daily collection's grace is  *)
(* longer than purge's; this one has the shorter.  One runs at a time.      *)

Collect ==
  /\ setting.trash /\ ~gc.open
  /\ gc' = Collecting(versions, Contents)
  /\ UNCHANGED <<setting, models, versions, drafts, files, work, late>>

Collectable(c) == c \in gc.old \ gc.refs /\ files[c] = "old"

(* Between the look at mtime and unlink an upload may touch the file.       *)
Doom(c) ==
  /\ setting.overlap /\ Collectable(c)
  /\ gc' = [gc EXCEPT !.doomed = @ \cup {c}]
  /\ UNCHANGED <<setting, models, versions, drafts, files, work, late>>

Unlink(c) ==
  /\ Collectable(c) \/ c \in gc.doomed
  /\ files' = [files EXCEPT ![c] = "none"]
  /\ gc' = [gc EXCEPT !.doomed = @ \ {c}]
  /\ UNCHANGED <<setting, models, versions, drafts, work, late>>

EndCollect ==
  /\ gc.open
  /\ gc' = NoCollection
  /\ UNCHANGED <<setting, models, versions, drafts, files, work, late>>

-----------------------------------------------------------------------------
(* A transaction begins long before it commits.                             *)
Begin ==
  /\ setting.overlap /\ late = {}
  /\ late' = {View(TRUE)}
  /\ UNCHANGED <<setting, store, versions>>

Rollback == late # {} /\ late' = {} /\ UNCHANGED <<setting, store, versions>>

Make ==
  \E u \in setting.makers :
    \/ Insert(u) \/ GiveUp(u)
    \/ \E m \in Models, c \in setting.contents, onto \in {Any} \cup DOMAIN versions : Upload(u, m, c, onto)
    \/ \E m \in Models : ImportMesh(u, m) \/ Classify(u, m) \/ \E named \in SUBSET setting.drafts : CommitDrafts(u, m, named)
    \/ \E c \in setting.contents : Built(u, c)
    \/ \E v \in DOMAIN versions, onto \in {Any} \cup DOMAIN versions : RestoreVersion(u, v, onto)

Draw == \E u \in Users, d \in Drafts : DeleteDraft(u, d) \/ \E m \in Models : CreateDraft(u, m, d)

Clean == Collect \/ EndCollect \/ \E c \in Contents : Age(c) \/ Doom(c) \/ Unlink(c)

Next ==
  \/ Make \/ Draw \/ Clean \/ Begin \/ Rollback
  \/ \E m \in Models : DeleteModel(m) \/ RestoreModel(m) \/ Purge(m)

Spec == Init /\ [][Next]_vars

-----------------------------------------------------------------------------
(* Properties.                                                              *)

(* Types; and test_concurrency.py: the versions of a model are numbered     *)
(* without gaps or repetitions, also when transactions overlap and retry.   *)
TypeOK ==
  /\ setting \in Settings
  /\ models \in [Models -> {"alive", "deleted", "purged"}]
  /\ \A i \in DOMAIN versions : versions[i] \in Version
  /\ \A m \in Models : {versions[i].number : i \in Of(versions, m)} = 1..Cardinality(Of(versions, m))
  /\ drafts \in [Drafts -> Draft]
  /\ files \in [Contents -> {"none", "new", "old"}]
  /\ work \in [Users -> Work]
  /\ gc \in Collection
  /\ Cardinality(late) <= 1

(* create_version: no silent fork.  A version made on the head its client   *)
(* saw follows that very version, whatever was committed while its file was *)
(* uploaded or built.                                                       *)
NoSilentFork ==
  ~setting.overlap =>
    \A v \in DOMAIN versions :
      CASE versions[v].onto = Any -> TRUE
        [] versions[v].onto = None -> versions[v].number = 1
        [] OTHER -> versions[v].number = versions[versions[v].onto].number + 1

(* A draft is committed into one version, however many commits take it up   *)
(* at the same time.                                                        *)
DraftOnce ==
  ~setting.overlap =>
    \A v, w \in DOMAIN versions : versions[v].took \cap versions[w].took # {} => v = w

(* blob_gc.py: parallel uploads and the collection do not race.  The file   *)
(* of a version is there: also one that was refused, lay about and was      *)
(* uploaded again while it was to be collected, or that two models share.   *)
FilesKept == ~setting.overlap => \A c \in Shas(versions) : files[c] # "none"
=============================================================================
