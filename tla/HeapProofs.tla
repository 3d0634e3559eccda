----------------------------- MODULE HeapProofs -----------------------------
(***************************************************************************)
(* The heap table for every page size, row size and file size: rows and    *)
(* slots never overlap, deleted slots are chained, the file grows only     *)
(* when every page is full, and the live rows behave as the store          *)
(* RowStore.                                                               *)
(***************************************************************************)
EXTENDS Heap, HeapCoreProofs

-----------------------------------------------------------------------------
(* The heap under Next *)

(* The heap of a new file. *)
LEMMA InitHeapInv == Init => HeapInv(heap) /\ LiveRows = {}
BY NewHeapInv DEF Init, LiveRows, LiveRefs, LiveIn

(* Insert keeps the invariant and stores one row. *)
LEMMA InsertStep ==
  ASSUME HeapInv(heap), NEW row \in Rows, NEW new \in PageIds, Insert(row, new)
  PROVE  /\ RowInserted(heap, heap', InsertedRef(heap, new), row)
         /\ HeapChain(heap') # HeapChain(heap) => NeedsPage(heap)
<1>1. heap' = HeapInsert(heap, row, new) /\ new \notin Range(HeapChain(heap))
  BY DEF Insert
<1>2. CASE NeedsPage(heap)
  BY <1>1, <1>2, InsertInNewPage
<1>3. CASE ~NeedsPage(heap)
  BY <1>1, <1>3, InsertInPage
<1> QED BY <1>2, <1>3

(* Every step keeps the invariant. *)
LEMMA NextHeapInv ==
  ASSUME HeapInv(heap), [Next]_heap
  PROVE  HeapInv(heap)'
<1>1. ASSUME NEW row \in Rows, NEW new \in PageIds, Insert(row, new)
      PROVE  HeapInv(heap')
  BY <1>1, InsertStep DEF RowInserted
<1>2. ASSUME NEW ref \in SlotsOf(heap), Delete(ref)
      PROVE  HeapInv(heap')
  BY <1>2, DeleteStep DEF Delete
<1>3. CASE UNCHANGED heap
  BY <1>3
<1> QED BY <1>1, <1>2, <1>3 DEF Next

(* The inductive invariant holds in every reachable state of the heap.     *)
THEOREM HeapInvariance == Spec => []HeapInv(heap)
<1>1. Init => HeapInv(heap)
  BY InitHeapInv
<1>2. HeapInv(heap) /\ [Next]_heap => HeapInv(heap)'
  BY NextHeapInv
<1> QED BY <1>1, <1>2, PTL DEF Spec

(* Offsets, counts and links stay in the range of their C types for every  *)
(* page size, row size and file size.                                      *)
THEOREM HeapTypes == Spec => []TypeOK
<1>1. HeapInv(heap) => TypeOK
  BY DEF HeapInv, TypeOK
<1> QED BY <1>1, HeapInvariance, PTL

(* In every heap page the free slots are exactly the deleted ones, each    *)
(* once, for any number of slots and any order of inserts and deletes.     *)
THEOREM DeletedSlotsAreChained == Spec => []FreeSlotsAreChained
<1>1. HeapInv(heap) => FreeSlotsAreChained
  <2> SUFFICES ASSUME HeapInv(heap), NEW p \in Range(HeapChain(heap))
               PROVE  PageInv(heap.pages[p])
    BY DeletedAreVisited DEF FreeSlotsAreChained
  <2>1. PICK c, n : ChainOf(heap, c, n)
    BY DEF HeapInv
  <2> QED BY <2>1, ChainPages DEF HeapInv
<1> QED BY <1>1, HeapInvariance, PTL

(* No insert overwrites another row or the slot directory: uint16_t        *)
(* arithmetic never wraps, and a reused slot keeps its bytes.              *)
THEOREM RowsStayApart == Spec => []RowsDoNotOverlap
<1>1. HeapInv(heap) => RowsDoNotOverlap
  <2> SUFFICES ASSUME HeapInv(heap) PROVE RowsDoNotOverlap
    OBVIOUS
  <2>1. PICK c, n : ChainOf(heap, c, n)
    BY DEF HeapInv
  <2>2. ASSUME NEW p \in Range(HeapChain(heap))
        PROVE  /\ PageInv(heap.pages[p])
               /\ DOMAIN heap.pages[p].slots = 1 .. Len(heap.pages[p].slots)
    <3>1. PageInv(heap.pages[p])
      BY <2>1, ChainPages DEF HeapInv
    <3> QED BY <3>1, SlotFacts
  <2> QED BY <2>2, RowsFit DEF RowsDoNotOverlap
<1> QED BY <1>1, HeapInvariance, PTL

(* The heap file grows only when no page of the chain has a deleted slot   *)
(* or room for a new one.                                                  *)
THEOREM GrowthIsNeeded == Spec => GrowsOnlyWhenFull
<1> DEFINE Full ==
             \A p \in Range(HeapChain(heap)) :
               /\ \A i \in DOMAIN heap.pages[p].slots : heap.pages[p].slots[i].status = "ALIVE"
               /\ ~HasRoom(heap.pages[p])
<1>1. ASSUME HeapInv(heap), NeedsPage(heap) PROVE Full
  <2>1. PICK c, n : ChainOf(heap, c, n)
    BY <1>1 DEF HeapInv
  <2>2. ASSUME NEW p \in Range(HeapChain(heap))
        PROVE  /\ \A i \in DOMAIN heap.pages[p].slots :
                    heap.pages[p].slots[i].status = "ALIVE"
               /\ ~HasRoom(heap.pages[p])
    <3>1. /\ ~HasFreeSlot(heap.pages[p]) /\ ~HasRoom(heap.pages[p])
          /\ PageInv(heap.pages[p])
      BY <1>1, <2>1, ChainPages, FoundPage DEF HeapInv
    <3>2. DeletedSlots(heap.pages[p]) = {}
      <4>1. PICK d, k : /\ IsChain(NextFree(heap.pages[p]), 0, d, k)
                        /\ ChainNodes(d, k) = DeletedSlots(heap.pages[p])
        BY <3>1, HeapConstants DEF PageInv, DeletedAreListed, HasFreeSlot
      <4>2. k = 0
        <5>1. k \in Nat /\ (0 \in 0 .. k - 1 => d[0] \in DOMAIN NextFree(heap.pages[p]))
              /\ d[0] = 0 /\ 0 \notin DOMAIN NextFree(heap.pages[p])
          BY <4>1 DEF IsChain
        <5> QED BY <5>1
      <4> QED BY <4>1, <4>2 DEF ChainNodes
    <3>3. /\ DOMAIN heap.pages[p].slots = 1 .. Len(heap.pages[p].slots)
          /\ \A i \in 1 .. Len(heap.pages[p].slots) :
               heap.pages[p].slots[i].status \in {"ALIVE", "FREE"}
      BY <3>1, SlotFacts DEF Slot
    <3> QED BY <3>1, <3>2, <3>3 DEF DeletedSlots
  <2> QED BY <2>2
<1>2. HeapInv(heap) /\ [Next]_heap => [HeapChain(heap') # HeapChain(heap) => Full]_heap
  <2> SUFFICES ASSUME HeapInv(heap), Next, HeapChain(heap') # HeapChain(heap)
               PROVE  NeedsPage(heap)
    BY <1>1
  <2>1. ASSUME NEW row \in Rows, NEW new \in PageIds, Insert(row, new)
        PROVE  NeedsPage(heap)
    BY <2>1, InsertStep
  <2>2. ASSUME NEW ref \in SlotsOf(heap), Delete(ref)
        PROVE  FALSE
    BY <2>2, DeleteStep DEF Delete
  <2> QED BY <2>1, <2>2 DEF Next
<1> QED BY <1>2, HeapInvariance, PTL DEF Spec, GrowsOnlyWhenFull

(* The live rows behave as the set RowStore: an insert hands out a         *)
(* reference no live row has and disturbs no other row, a delete removes   *)
(* the one row it names.                                                   *)
THEOREM HeapImplementsRowStore == Spec => ImplementsRowStore
<1>1. Init => LiveRows = {}
  BY InitHeapInv
<1>2. HeapInv(heap) /\ [Next]_heap => [Store!StoreRow \/ Store!RemoveRow]_LiveRows
  <2> SUFFICES ASSUME HeapInv(heap), [Next]_heap
               PROVE  [Store!StoreRow \/ Store!RemoveRow]_LiveRows
    OBVIOUS
  <2>1. LiveRows = LiveIn(heap) /\ LiveRows' = LiveIn(heap')
    BY DEF LiveRows, LiveIn, LiveRefs
  <2>2. ASSUME NEW row \in Rows, NEW new \in PageIds, Insert(row, new)
        PROVE  Store!StoreRow
    <3> DEFINE pair == <<InsertedRef(heap, new), row>>
    <3>1. /\ LiveRows' = LiveRows \cup {pair}
          /\ \A other \in LiveRows : other[1] # pair[1]
          /\ pair[2] = row
      BY <2>1, <2>2, InsertStep DEF RowInserted
    <3>2. pair \in LiveRows' \ LiveRows
      BY <3>1
    <3> HIDE DEF pair
    <3> QED BY <3>1, <3>2 DEF Store!StoreRow
  <2>3. ASSUME NEW ref \in SlotsOf(heap), Delete(ref)
        PROVE  Store!RemoveRow \/ UNCHANGED LiveRows
    <3>1. CASE IsAlive(heap, ref)
      BY <2>1, <2>3, <3>1, DeleteStep DEF Delete, Store!RemoveRow
    <3>2. CASE ~IsAlive(heap, ref)
      BY <2>1, <2>3, <3>2, DeleteStep DEF Delete
    <3> QED BY <3>1, <3>2
  <2>4. CASE UNCHANGED heap
    BY <2>1, <2>4
  <2> QED BY <2>2, <2>3, <2>4 DEF Next
<1> QED BY <1>1, <1>2, HeapInvariance, PTL
    DEF Spec, ImplementsRowStore, Store!RowStoreSpec, Store!RowStoreInit

(* heap_scan meets every live row once, wherever inserts and deletes have  *)
(* put them.                                                               *)
THEOREM ScansAreComplete == Spec => []ScanIsComplete
<1>1. HeapInv(heap) => ScanIsComplete
  <2>1. LiveSlots(heap) \subseteq SlotsOf(heap)
    BY DEF LiveSlots
  <2> QED BY <2>1, ScanFacts DEF ScanIsComplete, HeapScan, LiveRefs
<1> QED BY <1>1, HeapInvariance, PTL
=============================================================================
