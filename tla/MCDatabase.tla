----------------------------- MODULE MCDatabase -----------------------------
(* Instances of Database for TLC. *)
EXTENDS Database

CONSTANTS x, y       \* contents of the user columns
TwoVals == {x, y}
OneVal == {x}
MCRows == [id : Keys, val : Vals]

CONSTANT SlotsPerPage
MCRefs == PageIds \X (1 .. SlotsPerPage)

(* Bound of one run: at most MaxGone rows have been deleted. *)
MaxGone == 2
FewDeletions == next_id - 1 <= row_count + MaxGone
=============================================================================
