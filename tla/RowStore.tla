------------------------------ MODULE RowStore ------------------------------
(***************************************************************************)
(* What the heap promises to the executor: a set of live rows, each under  *)
(* a row reference no other live row has, until it is deleted.             *)
(***************************************************************************)
CONSTANTS Rows

VARIABLE rows     \* a set of pairs <<reference, row>>

RowStoreInit == rows = {}

StoreRow ==
  \E pair \in rows' \ rows :
    /\ pair[2] \in Rows
    /\ \A other \in rows : other[1] # pair[1]
    /\ rows' = rows \cup {pair}

RemoveRow == \E pair \in rows : rows' = rows \ {pair}

RowStoreSpec == RowStoreInit /\ [][StoreRow \/ RemoveRow]_rows
=============================================================================
