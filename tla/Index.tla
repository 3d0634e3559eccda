------------------------------- MODULE Index -------------------------------
(***************************************************************************)
(* What the B+ tree promises to the executor: a map from keys to row       *)
(* references, kept as a set of pairs.  bptree_insert adds a pair for a    *)
(* key that has none and bptree_delete takes the pair of its key away,     *)
(* each in its first step and only when no other call is in progress;      *)
(* whatever splits, borrows or merges follow change nothing.               *)
(***************************************************************************)
CONSTANTS Keys, Refs

VARIABLES
  index,
  busy      \* a call has done its work and not yet returned

IndexInit == index = {} /\ busy = FALSE

IndexInsert(k, r) ==
  /\ ~busy /\ \A pair \in index : pair[1] # k
  /\ index' = index \cup {<<k, r>>}
  /\ busy' \in BOOLEAN

IndexDelete(k) ==
  /\ ~busy
  /\ \E pair \in index : pair[1] = k /\ index' = index \ {pair}
  /\ busy' \in BOOLEAN

IndexRepair == busy /\ index' = index /\ busy' \in BOOLEAN

IndexNext ==
  \/ \E k \in Keys, r \in Refs : IndexInsert(k, r)
  \/ \E k \in Keys : IndexDelete(k)
  \/ IndexRepair

IndexSpec == IndexInit /\ [][IndexNext]_<<index, busy>>
=============================================================================
