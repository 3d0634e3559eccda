---------------------------- MODULE LinkedLists ----------------------------
(***************************************************************************)
(* Linked lists as this program keeps them: a head and one link per node,  *)
(* where 0 ends the list.  The heap chain, the leaf chain and the free     *)
(* list link pages (NULL is 0), the deleted slots of a heap page link      *)
(* slots (SLOT_NONE is 0).                                                 *)
(***************************************************************************)
EXTENDS Integers, FiniteSets

(* Where a reader stands after 0, 1, .. limit steps from head: the loop    *)
(* "while (id != 0) id = next[id]", cut off after limit steps.             *)
Walk(next, head, limit) ==
  LET after == [x \in {0} \cup DOMAIN next |-> IF x = 0 THEN 0 ELSE next[x]]
      at[n \in 0 .. limit] == IF n = 0 THEN head ELSE after[at[n - 1]]
  IN  at

(* The nodes passed on the way, in order. *)
NodesFrom(next, head, limit) ==
  LET at == Walk(next, head, limit)
      length == Cardinality({n \in 0 .. limit : at[n] # 0})
  IN  [n \in 1 .. length |-> at[n - 1]]
=============================================================================
