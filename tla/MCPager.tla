------------------------------ MODULE MCPager ------------------------------
(* Instances of Pager for TLC. *)
EXTENDS Pager

CONSTANTS a, b      \* two page bodies; a is the all-zero one
MCVals == {a, b}
=============================================================================
