---------------------------- MODULE MCPagerCrash ----------------------------
(* Instances of PagerCrash for TLC. *)
EXTENDS PagerCrash

CONSTANTS a, b      \* two page bodies; a is the all-zero one
MCVals == {a, b}
=============================================================================
