------------------------------ MODULE MCBPTree ------------------------------
(* Instances of BPTree for TLC. *)
EXTENDS BPTree

CONSTANTS r1, r2     \* row references
TwoRefs == {r1, r2}

(* Bound: a key comes with the reference of its parity, so that neighbours *)
(* in a leaf have different ones.                                          *)
RefOfKey(k) == IF k % 2 = 0 THEN r2 ELSE r1
RefsByParity ==
  \A p \in LeafPages : \A e \in Range(pages[p].entries) : e.row_ref = RefOfKey(e.key)
=============================================================================
