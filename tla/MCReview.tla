------------------------------ MODULE MCReview ------------------------------
(***************************************************************************)
(* Review and Versions for TLC: drafts, the trash and reviews each with    *)
(* room of their own, one transaction after the other and overlapping.     *)
(***************************************************************************)
EXTENDS Review

CONSTANTS a, b

One == {CHOOSE u \in Users : TRUE}

Idle == [models |-> {1}, contents |-> {a}, drafts |-> {}, makers |-> Users, versions |-> 3,
         trash |-> FALSE, review |-> {}, overlap |-> FALSE]

Drafting == [Idle EXCEPT !.drafts = {1, 2}]
Trashing == [Idle EXCEPT !.models = {1, 2}, !.contents = {a, b}, !.makers = One, !.versions = 2, !.trash = TRUE]
Reviewing == [Idle EXCEPT !.review = {1, 2}, !.makers = One]
RacingDrafts == [Idle EXCEPT !.drafts = {1}, !.overlap = TRUE]
RacingTrash == [Idle EXCEPT !.versions = 2, !.overlap = TRUE, !.trash = TRUE]
RacingReviews == [Idle EXCEPT !.review = {1}, !.makers = One, !.versions = 2, !.trash = TRUE, !.overlap = TRUE]

Cases == {Drafting, Trashing, Reviewing, RacingDrafts, RacingTrash, RacingReviews}
=============================================================================
