------------------------------- MODULE Table -------------------------------
(***************************************************************************)
(* What the SQL engine promises its user: one table whose rows get their   *)
(* id from a counter, and statements that act on it as a whole.            *)
(***************************************************************************)
EXTENDS Integers

CONSTANT Vals      \* what the columns other than id can hold

VARIABLES
  rows,      \* the rows, as records of an id and a val
  nextId     \* the id of the next row

TableInit == rows = {} /\ nextId = 1

(* INSERT INTO t VALUES (v) *)
TableInsert ==
  /\ \E v \in Vals : rows' = rows \cup {[id |-> nextId, val |-> v]}
  /\ nextId' = nextId + 1

(* DELETE FROM t WHERE id = k, WHERE val = v, or with no WHERE *)
TableDelete ==
  /\ \/ \E gone \in rows : rows' = rows \ {gone}
     \/ \E v \in Vals : rows' = {row \in rows : row.val # v}
     \/ rows' = {}
  /\ UNCHANGED nextId

TableSpec == TableInit /\ [][TableInsert \/ TableDelete]_<<rows, nextId>>
=============================================================================
