------------------------------- MODULE MCHeap -------------------------------
(* Instances of Heap for TLC. *)
EXTENDS Heap

CONSTANTS x, y     \* two rows
MCRows == {x, y}
=============================================================================
