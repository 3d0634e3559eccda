------------------------------ MODULE Database ------------------------------
(***************************************************************************)
(* The executor (src/sql/executor.c) over the heap and the B+ tree, which  *)
(* share one file and its page allocator.  A statement is a sequence of    *)
(* calls: INSERT writes the row, then indexes it, then counts it; DELETE   *)
(* collects the ids to delete, by the predicate it was planned for, and    *)
(* takes them one at a time out of the heap and out of the index.          *)
(*                                                                         *)
(* Heap pages are HEAP nodes in "pages"; their slots are in "heap".  The   *)
(* file is never closed here: statements run in one process.  SELECT and   *)
(* EXPLAIN, and statements refused at once (a second CREATE TABLE, INSERT  *)
(* before it, DELETE of an id that is not indexed), change nothing.        *)
(***************************************************************************)
EXTENDS BPTree, HeapCore

CONSTANT Vals      \* what the user columns of a row can hold

(* A row is an id and the user columns; a row reference is a page id and a *)
(* slot number.                                                            *)
ASSUME DatabaseAssumption ==
  /\ Rows = [id : Keys, val : Vals]
  /\ \A p \in PageIds : \A i \in 1 .. PageSize :
       HeapHeaderSize + i * (SlotSize + RowSize) <= PageSize => <<p, i>> \in Refs

VARIABLES
  heap,        \* the slotted pages
  table,       \* column_count > 0
  next_id,     \* header.next_id
  row_count,   \* header.row_count
  stmt         \* the statement in progress

meta == <<table, next_id, row_count>>
dbVars == <<vars, heap, meta, stmt>>

(* kind says which call comes next:  "insert": bptree_insert;  "inserted": *)
(* the counters;  "delete": the next id;  "unindex": bptree_delete;        *)
(* "deleted": the row count.                                               *)
Statement(kind, ids, ref) == [kind |-> kind, ids |-> ids, ref |-> ref]
NoStatement == Statement("none", <<>>, <<NULL, SLOT_NONE>>)
Ready == stmt = NoStatement /\ call = Idle

DbInit ==
  /\ Init
  /\ heap = NewHeap
  /\ table = FALSE /\ next_id = 1 /\ row_count = 0
  /\ stmt = NoStatement

LiveRefs == LiveSlots(heap)
RowAt(ref) == SlotAt(heap, ref).row

-----------------------------------------------------------------------------
(* exec_create_table; a second CREATE TABLE is refused *)

CreateTable ==
  /\ Ready /\ ~table
  /\ table' = TRUE
  /\ UNCHANGED <<vars, heap, next_id, row_count, stmt>>

-----------------------------------------------------------------------------
(* exec_insert *)

InsertRow(v) ==
  /\ Ready /\ table /\ next_id \in Keys
  /\ NeedsPage(heap) => MayAlloc
  /\ heap' = HeapInsert(heap, [id |-> next_id, val |-> v], NewPage)
  /\ IF NeedsPage(heap)
     THEN /\ pages' = [pages EXCEPT ![NewPage] = [ZeroNode EXCEPT !.type = "HEAP"]]
          /\ header' = HeaderAfterAlloc
     ELSE UNCHANGED <<pages, header>>
  /\ stmt' = Statement("insert", <<>>, InsertedRef(heap, NewPage))
  /\ UNCHANGED <<call, meta>>

(* bptree_insert refuses an id that is indexed already: the statement ends *)
(* in an error, its row stays in the heap and the counters as they are.    *)
IndexRow ==
  /\ stmt.kind = "insert"
  /\ IF Matches(pages[FindLeaf(next_id)], next_id) # {}
     THEN stmt' = NoStatement /\ UNCHANGED vars
     ELSE /\ InsertInLeaf(next_id, stmt.ref) \/ SplitLeaf(next_id, stmt.ref)
          /\ stmt' = [stmt EXCEPT !.kind = "inserted"]
  /\ UNCHANGED <<heap, meta>>

(* Mutant: the id counter is left alone. *)
FinishInsertSameId ==
  /\ stmt.kind = "inserted" /\ call = Idle
  /\ row_count' = row_count + 1
  /\ stmt' = NoStatement
  /\ UNCHANGED <<vars, heap, table, next_id>>

FinishInsert ==
  /\ stmt.kind = "inserted" /\ call = Idle
  /\ next_id' = next_id + 1 /\ row_count' = row_count + 1
  /\ stmt' = NoStatement
  /\ UNCHANGED <<vars, heap, table>>

-----------------------------------------------------------------------------
(* exec_index_delete and exec_delete_scan *)

(* WHERE id = k: an id that is not in the index ends the statement. *)
DeleteById(k) ==
  /\ Ready /\ Search(k) # {}
  /\ stmt' = Statement("delete", <<k>>, NoStatement.ref)
  /\ UNCHANGED <<vars, heap, meta>>

(* Mutant: the condition is not tested. *)
DeleteScanned(selected) ==
  LET refs == HeapScan(heap)
  IN  /\ Ready /\ refs # <<>>
      /\ stmt' = Statement("delete", [i \in DOMAIN refs |-> RowAt(refs[i]).id],
                           NoStatement.ref)
      /\ UNCHANGED <<vars, heap, meta>>

(* No WHERE, or WHERE on a user column: delete_scan_cb collects the ids.   *)
DeleteMatching(selected) ==
  LET refs == ScanFor(heap, {ref \in LiveRefs : RowAt(ref).val \in selected})
  IN  /\ Ready /\ refs # <<>>
      /\ stmt' = Statement("delete", [i \in DOMAIN refs |-> RowAt(refs[i]).id],
                           NoStatement.ref)
      /\ UNCHANGED <<vars, heap, meta>>

(* Mutant: the row stays in the heap. *)
KeepRow ==
  LET found == Search(stmt.ids[1])
  IN  /\ stmt.kind = "delete" /\ stmt.ids # <<>> /\ found # {}
      /\ stmt' = [stmt EXCEPT !.kind = "unindex"]
      /\ UNCHANGED <<vars, heap, meta>>

(* bptree_search, then heap_delete; an id the index lacks is skipped.      *)
RemoveRow ==
  LET found == Search(stmt.ids[1])
  IN  /\ stmt.kind = "delete" /\ stmt.ids # <<>>
      /\ IF found = {}
         THEN stmt' = [stmt EXCEPT !.ids = Tail(@)] /\ UNCHANGED heap
         ELSE /\ heap' = HeapDelete(heap, CHOOSE ref \in found : TRUE)
              /\ stmt' = [stmt EXCEPT !.kind = "unindex"]
      /\ UNCHANGED <<vars, meta>>

(* Mutant: the index keeps its entry. *)
LeaveIndexed ==
  /\ stmt.kind = "unindex"
  /\ stmt' = [stmt EXCEPT !.kind = "deleted"]
  /\ UNCHANGED <<vars, heap, meta>>

UnindexRow ==
  /\ stmt.kind = "unindex"
  /\ Delete(stmt.ids[1])
  /\ stmt' = [stmt EXCEPT !.kind = "deleted"]
  /\ UNCHANGED <<heap, meta>>

(* Mutant: one decrement for the whole statement. *)
CountOnce ==
  /\ stmt.kind = "deleted" /\ call = Idle
  /\ row_count' = IF Len(stmt.ids) = 1 THEN row_count - 1 ELSE row_count
  /\ stmt' = [stmt EXCEPT !.kind = "delete", !.ids = Tail(@)]
  /\ UNCHANGED <<vars, heap, table, next_id>>

CountDeleted ==
  /\ stmt.kind = "deleted" /\ call = Idle
  /\ row_count' = row_count - 1
  /\ stmt' = [stmt EXCEPT !.kind = "delete", !.ids = Tail(@)]
  /\ UNCHANGED <<vars, heap, table, next_id>>

FinishDelete ==
  /\ stmt.kind = "delete" /\ stmt.ids = <<>>
  /\ stmt' = NoStatement
  /\ UNCHANGED <<vars, heap, meta>>

-----------------------------------------------------------------------------
(* The calls of bptree.c that a statement waits for. *)
IndexCall == Continue /\ UNCHANGED <<heap, meta, stmt>>

Proceed ==
  \/ IndexCall \/ IndexRow \/ FinishInsert
  \/ RemoveRow \/ UnindexRow \/ CountDeleted \/ FinishDelete

DbNext ==
  \/ CreateTable
  \/ \E v \in Vals : InsertRow(v) \/ DeleteMatching({v})
  \/ DeleteMatching(Vals)
  \/ \E k \in Keys : DeleteById(k)
  \/ Proceed

DbSpec == DbInit /\ [][DbNext]_dbVars
DbFairSpec == DbSpec /\ WF_dbVars(Proceed)

-----------------------------------------------------------------------------
(* Properties *)

(* Between statements the index and the heap agree: looking an id up finds *)
(* exactly the live row with that id, so the index access path and the     *)
(* table scan answer WHERE id = k alike, and no live row is unreachable.   *)
AccessPathsAgree ==
  Ready => \A k \in Keys : Search(k) = {ref \in LiveRefs : RowAt(ref).id = k}

(* row_count is the number of live rows. *)
RowCountIsExact == Ready => row_count = Cardinality(LiveRefs)

(* What INSERT and DELETE write one after the other, heap, index and       *)
(* counter, agrees whenever a statement has ended.                         *)
StructuresAgree == AccessPathsAgree /\ RowCountIsExact

(* The tree, the heap chain and the free list share out the file: a page   *)
(* merged away by the tree may become a heap page, but no page has two     *)
(* owners and none is lost.                                                *)
FileIsShared ==
  call = Idle =>
    LET heapPages == Range(HeapChain(heap))
        nodes == TreeNodes
    IN  /\ nodes \cup heapPages \cup FreePages = 1 .. header.next - 1
        /\ nodes \cap heapPages = {} /\ nodes \cap FreePages = {}
        /\ heapPages \cap FreePages = {}
        /\ \A p \in heapPages : pages[p].type = "HEAP"

(* The engine implements Table.  A DELETE takes effect with the collection *)
(* of its ids, an INSERT with the heap row: from then on the statement     *)
(* finishes what it set out to do, one row at a time.                      *)
Deleting == stmt.kind \in {"delete", "unindex", "deleted"}
VisibleRows ==
  {RowAt(ref) : ref \in {live \in LiveRefs :
                           Deleting => RowAt(live).id \notin Range(stmt.ids)}}
VisibleNextId == IF stmt.kind \in {"insert", "inserted"} THEN next_id + 1 ELSE next_id
User == INSTANCE Table WITH rows <- VisibleRows, nextId <- VisibleNextId
ImplementsTable == User!TableSpec

(* Every statement ends, unless the process dies in it. *)
StatementsEnd == (stmt # NoStatement) ~> (Ready \/ call.fn = "aborted")
=============================================================================
