-------------------------------- MODULE Heap --------------------------------
(***************************************************************************)
(* The heap table (src/storage/table.c) under any sequence of heap_insert  *)
(* and heap_delete.  The page for a longer chain comes from the pager's    *)
(* allocator: any page of the file that is not in the chain.               *)
(***************************************************************************)
EXTENDS HeapCore

VARIABLE heap

Init == heap = NewHeap

Insert(row, new) ==
  /\ new \notin Range(HeapChain(heap)) \cup {FirstRootPage}
  /\ heap' = HeapInsert(heap, row, new)

(* heap_delete of any slot, live or not: a dead one is refused. *)
Delete(ref) == heap' = HeapDelete(heap, ref)

Next ==
  \/ \E row \in Rows, new \in PageIds : Insert(row, new)
  \/ \E ref \in SlotsOf(heap) : Delete(ref)

Spec == Init /\ [][Next]_heap

-----------------------------------------------------------------------------
(* Properties *)

TypeOK == heap \in [pages : [PageIds -> HeapPage], last : PageIds]

(* In every page the free slot chain visits exactly the deleted slots and  *)
(* ends: no slot is handed out twice and none is lost.                     *)
FreeSlotsAreChained ==
  \A p \in Range(HeapChain(heap)) :
    LET hp == heap.pages[p]
        count == Len(hp.slots)
        at == Walk([i \in 1 .. count |-> hp.slots[i].next_free], hp.free_slot_head, count)
    IN  /\ at[count] = SLOT_NONE
        /\ {at[n] : n \in 0 .. count} \ {SLOT_NONE}
             = {i \in 1 .. count : hp.slots[i].status = "FREE"}

(* The rows of a page and its slot directory share its bytes without       *)
(* overlap, also after slots were reused: no insert overwrites another row *)
(* or a slot.                                                              *)
RowsDoNotOverlap ==
  \A p \in Range(HeapChain(heap)) :
    LET slots == heap.pages[p].slots
    IN  \A i \in DOMAIN slots :
          /\ slots[i].offset >= SlotsEnd(Len(slots))
          /\ slots[i].offset + RowSize <= PageSize
          /\ \A j \in DOMAIN slots \ {i} :
               \/ slots[i].offset + RowSize <= slots[j].offset
               \/ slots[j].offset + RowSize <= slots[i].offset

(* The file grows only when every slot of every heap page is live and no   *)
(* page has room for another: deleted rows' space is always reused first.  *)
GrowsOnlyWhenFull ==
  [][HeapChain(heap') # HeapChain(heap) =>
       \A p \in Range(HeapChain(heap)) :
         /\ \A i \in DOMAIN heap.pages[p].slots : heap.pages[p].slots[i].status = "ALIVE"
         /\ ~HasRoom(heap.pages[p])]_heap

(* heap_scan reaches every live row, once. *)
LiveRefs == LiveSlots(heap)
ScanIsComplete ==
  LET scan == HeapScan(heap)
  IN  Range(scan) = LiveRefs /\ IsInjective(scan)

(* The live rows behave as the plain store RowStore: an insert adds the    *)
(* row under a reference of its own and disturbs no other row, a delete    *)
(* removes one row, and a refused delete none.                             *)
LiveRows == {<<ref, SlotAt(heap, ref).row>> : ref \in LiveRefs}
Store == INSTANCE RowStore WITH rows <- LiveRows
ImplementsRowStore == Store!RowStoreSpec
=============================================================================
