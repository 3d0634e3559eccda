----------------------------- MODULE MCRecovery -----------------------------
(* Instances of Recovery for TLC. *)
EXTENDS Recovery

CONSTANTS x, y       \* contents of the user columns
TwoVals == {x, y}
MCRows == [id : Keys, val : Vals]

CONSTANT SlotsPerPage
MCRefs == PageIds \X (1 .. SlotsPerPage)

(* Bound: of the live rows at most one holds y, and its id is 1. *)
OneOther ==
  LET other == {ref \in LiveRefs : RowAt(ref).val = y}
  IN  Cardinality(other) <= 1 /\ \A ref \in other : RowAt(ref).id = 1
=============================================================================
