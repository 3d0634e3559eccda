------------------------------ MODULE HeapCore ------------------------------
(***************************************************************************)
(* The heap of src/storage/table.c as operators on one record: the slotted *)
(* pages of the chain and the cached tail last_heap_page_id.               *)
(*                                                                         *)
(* A slot keeps its row: the bytes at slot.offset.  RowsDoNotOverlap       *)
(* (module Heap) is what entitles it to.  Slots count from 1, so that 0    *)
(* can be SLOT_NONE.  All rows of a database have one size, row_size.      *)
(***************************************************************************)
EXTENDS PageNumbers, LinkedLists, SequencesExt

CONSTANTS
  PageSize,   \* page_size
  RowSize,    \* header.row_size
  Rows        \* what a row can hold

SlotSize == 8            \* sizeof(slot_t)
HeapHeaderSize == 16     \* sizeof(heap_page_header_t)
MaxU16 == 65535         \* the largest uint16_t
U16(n) == n % (MaxU16 + 1)

(* At least one row fits a page: the code does not check it (see README).  *)
ASSUME HeapAssumption ==
  /\ PageSize \in 1 .. MaxU16
  /\ RowSize \in 1 .. PageSize - HeapHeaderSize - SlotSize

SLOT_NONE == 0
Slot == [status : {"ALIVE", "FREE"}, next_free : Nat, offset : 0 .. MaxU16, row : Rows]
HeapPage == [slots : Seq(Slot), free_slot_head : Nat,
             free_space_offset : 0 .. MaxU16, next : Links]

NewHeapPage == [slots |-> <<>>, free_slot_head |-> SLOT_NONE,
                free_space_offset |-> 0, next |-> NULL]

(* A new file, as pager_open lays it out. *)
NewHeap == [pages |-> [p \in PageIds |-> NewHeapPage], last |-> FirstHeapPage]

-----------------------------------------------------------------------------
(* Space *)

SlotsEnd(count) == U16(HeapHeaderSize + count * SlotSize)

AvailableSpace(hp) ==
  LET front == SlotsEnd(Len(hp.slots))
      back == U16(PageSize - hp.free_space_offset)
  IN  IF back <= front THEN 0 ELSE back - front

HasFreeSlot(hp) == hp.free_slot_head # SLOT_NONE

HasRoomForSlot(hp) == AvailableSpace(hp) > RowSize            \* mutant: forgets the slot
HasRoom(hp) == AvailableSpace(hp) >= U16(SlotSize + RowSize)

(* The chain of heap pages from the first to the last. *)
HeapChain(h) == NodesFrom([p \in PageIds |-> h.pages[p].next], FirstHeapPage, MaxPage)

(* Mutant: only the tail is looked at. *)
FindHeapPageAtTail(h) ==
  LET tail == h.pages[h.last]
  IN  IF HasFreeSlot(tail) \/ HasRoom(tail) THEN h.last ELSE NULL

(* find_heap_page: the tail if it can take a row, else the first page of   *)
(* the chain with a deleted slot, else NULL.                               *)
FindHeapPage(h) ==
  LET tail == h.pages[h.last]
      chain == HeapChain(h)
      reusable == {n \in DOMAIN chain : HasFreeSlot(h.pages[chain[n]])}
  IN  IF HasFreeSlot(tail) \/ HasRoom(tail) THEN h.last
      ELSE IF reusable = {} THEN NULL ELSE chain[Min(reusable)]

-----------------------------------------------------------------------------
(* heap_insert *)

SlotForInsert(hp) == IF HasFreeSlot(hp) THEN hp.free_slot_head ELSE Len(hp.slots) + 1

(* Mutant: the head of the free slots stays where it is. *)
ReuseSlotKeepingHead(hp, row) ==
  LET i == hp.free_slot_head
  IN  [hp EXCEPT !.slots[i] = [@ EXCEPT !.status = "ALIVE", !.next_free = SLOT_NONE,
                                        !.row = row]]

ReuseSlot(hp, row) ==
  LET i == hp.free_slot_head
      slot == hp.slots[i]
  IN  [hp EXCEPT
         !.free_slot_head = slot.next_free,
         !.slots[i] = [slot EXCEPT !.status = "ALIVE", !.next_free = SLOT_NONE, !.row = row]]

AddSlot(hp, row) ==
  LET slot == [status |-> "ALIVE", next_free |-> SLOT_NONE, row |-> row,
               offset |-> U16(PageSize - hp.free_space_offset - RowSize)]
  IN  [hp EXCEPT !.slots = Append(@, slot),
                 !.free_space_offset = U16(@ + RowSize)]

PutRow(hp, row) == IF HasFreeSlot(hp) THEN ReuseSlot(hp, row) ELSE AddSlot(hp, row)

(* Mutant: the new page is linked after the first one.                     *)
ExtendChainAtHead(h, new) ==
  [pages |-> [h.pages EXCEPT ![new] = NewHeapPage, ![FirstHeapPage].next = new],
   last |-> new]

(* A new page, formatted and linked after the tail. *)
ExtendChain(h, new) ==
  [pages |-> [h.pages EXCEPT ![new] = NewHeapPage, ![h.last].next = new], last |-> new]

NeedsPage(h) == FindHeapPage(h) = NULL
TargetPage(h, new) == IF NeedsPage(h) THEN new ELSE FindHeapPage(h)

HeapInsert(h, row, new) ==
  LET extended == IF NeedsPage(h) THEN ExtendChain(h, new) ELSE h
  IN  [extended EXCEPT !.pages[TargetPage(h, new)] = PutRow(@, row)]

(* The row_ref_t heap_insert returns. *)
InsertedRef(h, new) ==
  <<TargetPage(h, new),
    IF NeedsPage(h) THEN 1 ELSE SlotForInsert(h.pages[TargetPage(h, new)])>>

-----------------------------------------------------------------------------
(* heap_fetch, heap_delete, heap_scan *)

SlotsOf(h) == UNION {{<<p, i>> : i \in DOMAIN h.pages[p].slots} : p \in PageIds}
SlotAt(h, ref) == h.pages[ref[1]].slots[ref[2]]
IsAlive(h, ref) == SlotAt(h, ref).status = "ALIVE"

(* Mutants: the slot is freed but not chained; it is chained to the slot   *)
(* before the head.                                                        *)
HeapDeleteOffByOne(h, ref) ==
  LET hp == h.pages[ref[1]]
      freed == [SlotAt(h, ref) EXCEPT !.status = "FREE", !.next_free = hp.free_slot_head - 1]
  IN  IF IsAlive(h, ref)
      THEN [h EXCEPT !.pages[ref[1]] = [hp EXCEPT !.slots[ref[2]] = freed,
                                                  !.free_slot_head = ref[2]]]
      ELSE h
HeapDeleteUnchained(h, ref) ==
  IF IsAlive(h, ref) THEN [h EXCEPT !.pages[ref[1]].slots[ref[2]].status = "FREE"] ELSE h

HeapDelete(h, ref) ==
  LET hp == h.pages[ref[1]]
      slot == SlotAt(h, ref)
      freed == [slot EXCEPT !.status = "FREE", !.next_free = hp.free_slot_head]
  IN  IF IsAlive(h, ref)
      THEN [h EXCEPT !.pages[ref[1]] = [hp EXCEPT !.slots[ref[2]] = freed,
                                                  !.free_slot_head = ref[2]]]
      ELSE h

LiveSlots(h) == {ref \in SlotsOf(h) : IsAlive(h, ref)}

(* A loop over s that collects the elements in S. *)
Collected(s, S) ==
  LET upto[n \in 0 .. Len(s)] ==
        IF n = 0 THEN <<>>
        ELSE IF s[n] \in S THEN Append(upto[n - 1], s[n]) ELSE upto[n - 1]
  IN  upto[Len(s)]

(* What the callback of a heap_scan collects if it wants these live slots. *)
ScanFor(h, wanted) ==
  LET chain == HeapChain(h)
      SlotsIn(p) == [i \in DOMAIN h.pages[p].slots |-> <<p, i>>]
  IN  FlattenSeq([n \in DOMAIN chain |-> Collected(SlotsIn(chain[n]), wanted)])

(* heap_scan hands all live slots to its callback. *)
HeapScan(h) == ScanFor(h, LiveSlots(h))
=============================================================================
