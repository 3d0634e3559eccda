--------------------------- MODULE HeapCoreProofs ---------------------------
(***************************************************************************)
(* What heap_insert, heap_delete and heap_scan do to any heap of any page  *)
(* size, row size and file size that satisfies the invariant HeapInv.      *)
(***************************************************************************)
EXTENDS HeapCore, LinkedListProofs

(* Slot by slot the rows fill the page from its end. *)
SlotsAreSpaced(hp) ==
  LET count == Len(hp.slots)
  IN  /\ HeapHeaderSize + count * (SlotSize + RowSize) <= PageSize
      /\ hp.free_space_offset = count * RowSize
      /\ \A i \in 1 .. count : hp.slots[i].offset = PageSize - i * RowSize

NextFree(hp) == [i \in 1 .. Len(hp.slots) |-> hp.slots[i].next_free]
DeletedSlots(hp) == {i \in 1 .. Len(hp.slots) : hp.slots[i].status = "FREE"}

(* The free slot list holds the deleted slots, each once. *)
DeletedAreListed(hp) ==
  \E c, n : /\ IsChain(NextFree(hp), hp.free_slot_head, c, n)
            /\ ChainNodes(c, n) = DeletedSlots(hp)

PageInv(hp) == hp \in HeapPage /\ SlotsAreSpaced(hp) /\ DeletedAreListed(hp)

-----------------------------------------------------------------------------
(* Space in a page *)

(* What the assumptions say of the constants. *)
LEMMA HeapConstants ==
  /\ PageSize \in Nat /\ RowSize \in Nat /\ RowSize > 0 /\ PageSize <= MaxU16 /\ MaxU16 \in Nat
  /\ HeapHeaderSize = 16 /\ SlotSize = 8
  /\ HeapHeaderSize + SlotSize + RowSize <= PageSize
  /\ MaxPage \in Nat /\ 1 \in PageIds /\ 0 \notin PageIds
  /\ NULL = 0 /\ SLOT_NONE = 0 /\ FirstHeapPage = 1 /\ Links = PageIds \cup {0}
<1>1. HeapHeaderSize = 16 /\ SlotSize = 8 /\ MaxU16 \in Nat
  BY DEF HeapHeaderSize, SlotSize, MaxU16
<1>2. /\ PageSize \in Nat /\ RowSize \in Nat /\ RowSize > 0 /\ PageSize <= MaxU16
      /\ HeapHeaderSize + SlotSize + RowSize <= PageSize
  BY <1>1, HeapAssumption
<1>3. /\ MaxPage \in Nat /\ 1 \in PageIds /\ 0 \notin PageIds
      /\ NULL = 0 /\ SLOT_NONE = 0 /\ FirstHeapPage = 1 /\ Links = PageIds \cup {0}
  BY FileAssumption DEF PageIds, NULL, SLOT_NONE, FirstHeapPage, Links
<1> QED BY <1>1, <1>2, <1>3

(* 16-bit arithmetic does not wrap below 2^16. *)
LEMMA U16Small ==
  ASSUME NEW n \in 0 .. MaxU16
  PROVE  U16(n) = n
BY HeapConstants DEF U16

(* Multiples of the size of a row, for offsets. *)
LEMMA Multiples ==
  ASSUME NEW r \in Nat
  PROVE  /\ \A i \in Nat : i * r \in Nat /\ (i + 1) * r = i * r + r
         /\ \A i, j \in Nat : i < j => i * r + r <= j * r
<1>1. \A i \in Nat : i * r \in Nat /\ (i + 1) * r = i * r + r
  OBVIOUS
<1>2. ASSUME NEW i \in Nat, NEW j \in Nat, i < j
      PROVE  i * r + r <= j * r
  <2>1. PICK d \in Nat : j = i + 1 + d
    <3>1. j - i - 1 \in Nat /\ j = i + 1 + (j - i - 1)
      BY <1>2
    <3> QED BY <3>1
  <2>2. j * r = (i + 1) * r + d * r /\ d * r \in Nat
    BY <2>1
  <2> QED BY <1>1, <2>2
<1> QED BY <1>1, <1>2

(* The same for sums of products. *)
LEMMA Distributes ==
  ASSUME NEW a \in Nat, NEW b \in Nat, NEW r \in Nat
  PROVE  a * (b + r) = a * b + a * r /\ (a + 1) * (b + r) = a * b + a * r + b + r
OBVIOUS

(* What fits: the directory entry and the bytes of one more row. *)
LEMMA RoomLeft ==
  ASSUME NEW hp, PageInv(hp)
  PROVE  LET count == Len(hp.slots)
         IN  /\ count \in Nat /\ count * RowSize \in Nat
             /\ count * (SlotSize + RowSize) = count * SlotSize + count * RowSize
             /\ SlotsEnd(count) \in Nat
             /\ SlotsEnd(count) + count * RowSize <= PageSize
             /\ U16(PageSize - hp.free_space_offset) = PageSize - count * RowSize
             /\ HasRoom(hp) <=>
                  HeapHeaderSize + (count + 1) * (SlotSize + RowSize) <= PageSize
<1> DEFINE count == Len(hp.slots)
           rows == count * RowSize
<1>1. count \in Nat
  BY DEF PageInv, HeapPage
<1> HIDE DEF count
<1>2. rows \in Nat /\ count * (8 + RowSize) = count * 8 + rows
      /\ (count + 1) * (8 + RowSize) = count * 8 + rows + 8 + RowSize
  BY <1>1, HeapConstants, Distributes
<1>3. 16 + count * 8 + rows <= PageSize /\ hp.free_space_offset = rows
  <2>1. /\ 16 + count * (8 + RowSize) <= PageSize
        /\ hp.free_space_offset = rows
    BY HeapConstants DEF PageInv, SlotsAreSpaced, count
  <2> QED BY <1>1, <1>2, <2>1
<1> HIDE DEF rows
<1>4. SlotsEnd(count) = 16 + count * 8
  <2>1. 16 + count * 8 \in 0 .. MaxU16
    BY <1>1, <1>2, <1>3, HeapConstants
  <2> QED BY <2>1, U16Small, HeapConstants DEF SlotsEnd
<1>5. U16(PageSize - rows) = PageSize - rows /\ U16(8 + RowSize) = 8 + RowSize
  <2>1. PageSize - rows \in 0 .. MaxU16 /\ 8 + RowSize \in 0 .. MaxU16
    BY <1>1, <1>2, <1>3, HeapConstants
  <2> QED BY <2>1, U16Small
<1>6. AvailableSpace(hp) = PageSize - rows - (16 + count * 8)
  <2>1. AvailableSpace(hp) = IF PageSize - rows <= 16 + count * 8 THEN 0
                             ELSE (PageSize - rows) - (16 + count * 8)
    BY <1>3, <1>4, <1>5 DEF AvailableSpace, count
  <2> QED BY <1>1, <1>2, <1>3, <2>1, HeapConstants
<1>7. HasRoom(hp) <=> PageSize - rows - (16 + count * 8) >= 8 + RowSize
  BY <1>5, <1>6, HeapConstants DEF HasRoom
<1>8. HasRoom(hp) <=> 16 + (count + 1) * (8 + RowSize) <= PageSize
  BY <1>1, <1>2, <1>7, HeapConstants
<1>9. SlotsEnd(count) \in Nat /\ SlotsEnd(count) + rows <= PageSize
  BY <1>1, <1>2, <1>3, <1>4, HeapConstants
<1> QED BY <1>1, <1>2, <1>3, <1>5, <1>8, <1>9, HeapConstants DEF count, rows

-----------------------------------------------------------------------------
(* One page *)

(* hp2 is hp with row in slot i, which held no live row. *)
PutAt(hp, hp2, i, row) ==
  /\ hp2.next = hp.next
  /\ 1 .. Len(hp2.slots) = 1 .. Len(hp.slots) \cup {i}
  /\ hp2.slots[i].status = "ALIVE" /\ hp2.slots[i].row = row
  /\ i \in 1 .. Len(hp.slots) => hp.slots[i].status # "ALIVE"
  /\ \A j \in 1 .. Len(hp.slots) : j # i => hp2.slots[j] = hp.slots[j]
  /\ HasRoom(hp2) => HasRoom(hp)

(* What the invariant of a page says of its slots. *)
LEMMA SlotFacts ==
  ASSUME NEW hp, PageInv(hp)
  PROVE  /\ hp \in HeapPage /\ hp.slots \in Seq(Slot) /\ Len(hp.slots) \in Nat
         /\ DOMAIN hp.slots = 1 .. Len(hp.slots)
         /\ \A i \in 1 .. Len(hp.slots) : hp.slots[i] \in Slot
         /\ DOMAIN NextFree(hp) = 1 .. Len(hp.slots) /\ 0 \notin 1 .. Len(hp.slots)
         /\ \A i \in 1 .. Len(hp.slots) : NextFree(hp)[i] = hp.slots[i].next_free
BY DEF PageInv, HeapPage, NextFree

(* Rows stay where they are when only the status of a slot changes.        *)
LEMMA SameSpacing ==
  ASSUME NEW hp, PageInv(hp), NEW hp2, hp2 \in HeapPage,
         Len(hp2.slots) = Len(hp.slots), hp2.free_space_offset = hp.free_space_offset,
         \A i \in 1 .. Len(hp.slots) : hp2.slots[i].offset = hp.slots[i].offset
  PROVE  SlotsAreSpaced(hp2) /\ (HasRoom(hp2) <=> HasRoom(hp))
<1>1. SlotsAreSpaced(hp2)
  BY DEF PageInv, SlotsAreSpaced
<1>2. AvailableSpace(hp2) = AvailableSpace(hp)
  BY DEF AvailableSpace
<1> QED BY <1>1, <1>2 DEF HasRoom

(* The head of the free slots names a deleted slot; the rest of the list   *)
(* is the list without it.                                                 *)
LEMMA ReuseSlotPage ==
  ASSUME NEW hp, PageInv(hp), HasFreeSlot(hp), NEW row \in Rows
  PROVE  LET hp2 == ReuseSlot(hp, row)
         IN  PageInv(hp2) /\ PutAt(hp, hp2, hp.free_slot_head, row)
<1> DEFINE i == hp.free_slot_head
           hp2 == ReuseSlot(hp, row)
           used == [hp.slots[i] EXCEPT !.status = "ALIVE", !.next_free = SLOT_NONE,
                                       !.row = row]
<1>1. PICK c, n : /\ IsChain(NextFree(hp), i, c, n)
                  /\ ChainNodes(c, n) = DeletedSlots(hp)
  BY DEF PageInv, DeletedAreListed
<1>2. i # 0
  BY HeapConstants DEF HasFreeSlot
<1>3. PICK d : /\ n > 0 /\ i \in ChainNodes(c, n)
               /\ IsChain(NextFree(hp), NextFree(hp)[i], d, n - 1)
               /\ ChainNodes(d, n - 1) = ChainNodes(c, n) \ {i}
  BY <1>1, <1>2, ChainPop
<1>4. i \in 1 .. Len(hp.slots) /\ hp.slots[i].status = "FREE" /\ hp.slots[i] \in Slot
  BY <1>1, <1>3, SlotFacts DEF DeletedSlots
<1>5. /\ used \in Slot /\ used.status = "ALIVE" /\ used.row = row
      /\ used.offset = hp.slots[i].offset
  BY <1>4, HeapConstants DEF Slot
<1>6. hp2 = [hp EXCEPT !.free_slot_head = hp.slots[i].next_free, !.slots[i] = used]
  BY DEF ReuseSlot
<1> HIDE DEF used, hp2
<1>7. /\ hp2.free_slot_head = NextFree(hp)[i] /\ hp2.slots = [hp.slots EXCEPT ![i] = used]
      /\ hp2.next = hp.next /\ hp2.free_space_offset = hp.free_space_offset
      /\ hp2 = [slots |-> hp2.slots, free_slot_head |-> hp2.free_slot_head,
                free_space_offset |-> hp2.free_space_offset, next |-> hp2.next]
  BY <1>4, <1>6, SlotFacts DEF HeapPage
<1>8. /\ hp2.slots \in Seq(Slot) /\ Len(hp2.slots) = Len(hp.slots) /\ hp2.slots[i] = used
      /\ \A j \in 1 .. Len(hp.slots) : j # i => hp2.slots[j] = hp.slots[j]
  BY <1>4, <1>5, <1>7, SlotFacts
<1>9. hp2 \in HeapPage
  <2>1. hp.slots[i].next_free \in Nat /\ hp.free_space_offset \in 0 .. MaxU16 /\ hp.next \in Links
    BY <1>4, SlotFacts DEF Slot, HeapPage
  <2> QED BY <2>1, <1>4, <1>7, <1>8, SlotFacts DEF HeapPage
<1>10. SlotsAreSpaced(hp2) /\ (HasRoom(hp2) <=> HasRoom(hp))
  BY <1>5, <1>7, <1>8, <1>9, SameSpacing
<1>11. DeletedAreListed(hp2)
  <2>1. /\ DOMAIN NextFree(hp2) = DOMAIN NextFree(hp) /\ 0 \notin DOMAIN NextFree(hp2)
        /\ \A j \in 1 .. Len(hp.slots) : j # i => NextFree(hp2)[j] = NextFree(hp)[j]
    BY <1>8, SlotFacts DEF NextFree
  <2>2. \A j \in ChainNodes(d, n - 1) : j # i /\ j \in 1 .. Len(hp.slots)
    BY <1>1, <1>3 DEF DeletedSlots
  <2>3. IsChain(NextFree(hp2), NextFree(hp)[i], d, n - 1)
    BY <2>1, <2>2, <1>3, ChainUndisturbed
  <2>4. DeletedSlots(hp2) = DeletedSlots(hp) \ {i}
    BY <1>4, <1>5, <1>8 DEF DeletedSlots
  <2> QED BY <2>3, <2>4, <1>1, <1>3, <1>7 DEF DeletedAreListed
<1>12. PutAt(hp, hp2, i, row)
  BY <1>4, <1>5, <1>7, <1>8, <1>10 DEF PutAt
<1> QED BY <1>9, <1>10, <1>11, <1>12 DEF PageInv, hp2

(* heap_delete pushes the slot in front of the free slots. *)
LEMMA FreedSlotPage ==
  ASSUME NEW hp, PageInv(hp), NEW i \in 1 .. Len(hp.slots), hp.slots[i].status = "ALIVE"
  PROVE  LET freed == [hp.slots[i] EXCEPT !.status = "FREE", !.next_free = hp.free_slot_head]
             hp2 == [hp EXCEPT !.slots[i] = freed, !.free_slot_head = i]
         IN  /\ PageInv(hp2) /\ hp2.next = hp.next /\ Len(hp2.slots) = Len(hp.slots)
             /\ hp2.slots[i].status = "FREE"
             /\ \A j \in 1 .. Len(hp.slots) : j # i => hp2.slots[j] = hp.slots[j]
             /\ HasRoom(hp2) <=> HasRoom(hp)
<1> DEFINE freed == [hp.slots[i] EXCEPT !.status = "FREE", !.next_free = hp.free_slot_head]
           hp2 == [hp EXCEPT !.slots[i] = freed, !.free_slot_head = i]
<1>1. PICK c, n : /\ IsChain(NextFree(hp), hp.free_slot_head, c, n)
                  /\ ChainNodes(c, n) = DeletedSlots(hp)
  BY DEF PageInv, DeletedAreListed
<1>2. /\ freed \in Slot /\ freed.status = "FREE" /\ freed.next_free = hp.free_slot_head
      /\ freed.offset = hp.slots[i].offset
  <2>1. hp.slots[i] \in Slot /\ hp.free_slot_head \in Nat
    BY SlotFacts DEF HeapPage
  <2> QED BY <2>1 DEF Slot
<1> HIDE DEF freed
<1>3. /\ hp2.free_slot_head = i /\ hp2.slots = [hp.slots EXCEPT ![i] = freed]
      /\ hp2.next = hp.next /\ hp2.free_space_offset = hp.free_space_offset
      /\ hp2 = [slots |-> hp2.slots, free_slot_head |-> hp2.free_slot_head,
                free_space_offset |-> hp2.free_space_offset, next |-> hp2.next]
  <2>1. hp2 = [hp EXCEPT !.slots[i] = freed, !.free_slot_head = i]
    OBVIOUS
  <2> HIDE DEF hp2
  <2> QED BY <2>1, SlotFacts DEF HeapPage
<1> HIDE DEF hp2
<1>4. /\ hp2.slots \in Seq(Slot) /\ Len(hp2.slots) = Len(hp.slots) /\ hp2.slots[i] = freed
      /\ \A j \in 1 .. Len(hp.slots) : j # i => hp2.slots[j] = hp.slots[j]
  BY <1>2, <1>3, SlotFacts
<1>5. hp2 \in HeapPage
  <2>1. i \in Nat /\ hp.free_space_offset \in 0 .. MaxU16 /\ hp.next \in Links
    BY SlotFacts DEF HeapPage
  <2> QED BY <2>1, <1>3, <1>4 DEF HeapPage
<1>6. SlotsAreSpaced(hp2) /\ (HasRoom(hp2) <=> HasRoom(hp))
  BY <1>2, <1>3, <1>4, <1>5, SameSpacing
<1>7. DeletedAreListed(hp2)
  <2>1. /\ DOMAIN NextFree(hp2) = DOMAIN NextFree(hp) /\ i \in DOMAIN NextFree(hp)
        /\ NextFree(hp2)[i] = hp.free_slot_head
        /\ \A j \in 1 .. Len(hp.slots) : j # i => NextFree(hp2)[j] = NextFree(hp)[j]
    BY <1>2, <1>4, SlotFacts DEF NextFree
  <2>2. \A j \in ChainNodes(c, n) : j # i /\ j \in 1 .. Len(hp.slots)
    BY <1>1 DEF DeletedSlots
  <2>3. PICK d : /\ IsChain(NextFree(hp2), i, d, n + 1)
                 /\ ChainNodes(d, n + 1) = ChainNodes(c, n) \cup {i}
    BY <2>1, <2>2, <1>1, ChainPush
  <2>4. DeletedSlots(hp2) = DeletedSlots(hp) \cup {i}
    BY <1>2, <1>4 DEF DeletedSlots
  <2> QED BY <2>3, <2>4, <1>1, <1>3 DEF DeletedAreListed
<1> QED BY <1>2, <1>3, <1>4, <1>5, <1>6, <1>7 DEF PageInv, hp2, freed

(* A new slot takes the next bytes from the end of the page. *)
LEMMA AddSlotPage ==
  ASSUME NEW hp, PageInv(hp), HasRoom(hp), NEW row \in Rows
  PROVE  LET hp2 == AddSlot(hp, row)
         IN  PageInv(hp2) /\ PutAt(hp, hp2, Len(hp.slots) + 1, row)
<1> DEFINE count == Len(hp.slots)
           bytes == count * RowSize
           slot == [status |-> "ALIVE", next_free |-> SLOT_NONE, row |-> row,
                    offset |-> U16(PageSize - hp.free_space_offset - RowSize)]
           hp2 == AddSlot(hp, row)
<1>1. /\ count \in Nat /\ bytes \in Nat /\ (count + 1) * RowSize = bytes + RowSize
      /\ hp.free_space_offset = bytes
      /\ HeapHeaderSize + (count + 1) * (SlotSize + RowSize) <= PageSize
      /\ count * 8 + bytes + RowSize + 24 <= PageSize
  <2>1. count \in Nat
    BY SlotFacts
  <2>2. hp.free_space_offset = bytes
    BY DEF PageInv, SlotsAreSpaced
  <2>3. HeapHeaderSize + (count + 1) * (SlotSize + RowSize) <= PageSize
    BY RoomLeft
  <2>4. bytes \in Nat /\ (count + 1) * RowSize = bytes + RowSize
    BY <2>1, HeapConstants, Multiples
  <2> HIDE DEF bytes, count
  <2>5. (count + 1) * (8 + RowSize) = count * 8 + bytes + 8 + RowSize
    BY <2>1, HeapConstants, Distributes DEF bytes
  <2>6. count * 8 + bytes + RowSize + 24 <= PageSize
    <3>1. 16 + (count + 1) * (8 + RowSize) <= PageSize
      BY <2>3, HeapConstants
    <3>2. 16 + (count * 8 + bytes + 8 + RowSize) <= PageSize
      BY <2>5, <3>1
    <3> QED BY <2>1, <2>4, <3>2, HeapConstants
  <2> QED BY <2>1, <2>2, <2>3, <2>4, <2>6
<1> HIDE DEF bytes
<1>2. /\ U16(PageSize - bytes - RowSize) = PageSize - bytes - RowSize
      /\ U16(bytes + RowSize) = bytes + RowSize
      /\ PageSize - bytes - RowSize \in 0 .. MaxU16 /\ bytes + RowSize \in 0 .. MaxU16
  <2>1. PageSize - bytes - RowSize \in 0 .. MaxU16 /\ bytes + RowSize \in 0 .. MaxU16
    BY <1>1, HeapConstants
  <2> QED BY <2>1, U16Small
<1>3. slot \in Slot /\ slot.offset = PageSize - (bytes + RowSize)
      /\ slot.status = "ALIVE" /\ slot.row = row
  <2>1. slot.offset = PageSize - bytes - RowSize
    BY <1>1, <1>2
  <2>2. slot \in Slot
    BY <1>2, <2>1, HeapConstants DEF Slot
  <2> QED BY <1>1, <2>1, <2>2, HeapConstants
<1>4. hp2 = [hp EXCEPT !.slots = Append(hp.slots, slot), !.free_space_offset = bytes + RowSize]
  BY <1>1, <1>2 DEF AddSlot
<1> HIDE DEF slot, hp2
<1>5. /\ hp2.slots = Append(hp.slots, slot) /\ hp2.free_space_offset = bytes + RowSize
      /\ hp2.next = hp.next /\ hp2.free_slot_head = hp.free_slot_head
      /\ hp2 = [slots |-> hp2.slots, free_slot_head |-> hp2.free_slot_head,
                free_space_offset |-> hp2.free_space_offset, next |-> hp2.next]
  <2> DEFINE sq == Append(hp.slots, slot)
             offset == bytes + RowSize
  <2>1. hp2 = [hp EXCEPT !.slots = sq, !.free_space_offset = offset]
    BY <1>4
  <2> HIDE DEF sq, offset
  <2>2. /\ hp2.slots = sq /\ hp2.free_space_offset = offset
        /\ hp2.next = hp.next /\ hp2.free_slot_head = hp.free_slot_head
        /\ hp2 = [slots |-> hp2.slots, free_slot_head |-> hp2.free_slot_head,
                  free_space_offset |-> hp2.free_space_offset, next |-> hp2.next]
    <3>1. hp \in HeapPage
      BY SlotFacts
    <3> QED BY <2>1, <3>1 DEF HeapPage
  <2> QED BY <2>2 DEF sq, offset
<1>6. /\ hp2.slots \in Seq(Slot) /\ Len(hp2.slots) = count + 1 /\ hp2.slots[count + 1] = slot
      /\ \A j \in 1 .. count : hp2.slots[j] = hp.slots[j]
  <2>1. \A sq \in Seq(Slot) : /\ Append(sq, slot) \in Seq(Slot)
                              /\ Len(Append(sq, slot)) = Len(sq) + 1
                              /\ Append(sq, slot)[Len(sq) + 1] = slot
                              /\ \A j \in 1 .. Len(sq) : Append(sq, slot)[j] = sq[j]
    BY <1>3
  <2> QED BY <2>1, <1>5, SlotFacts
<1>7. 1 .. count + 1 = 1 .. count \cup {count + 1} /\ count + 1 \notin 1 .. count
  BY <1>1
<1>8. hp2 \in HeapPage
  <2>1. hp.free_slot_head \in Nat /\ hp.next \in Links
    BY SlotFacts DEF HeapPage
  <2> QED BY <2>1, <1>2, <1>5, <1>6 DEF HeapPage
<1>9. SlotsAreSpaced(hp2)
  <2>1. \A j \in 1 .. count : hp.slots[j].offset = PageSize - j * RowSize
    BY DEF PageInv, SlotsAreSpaced
  <2>2. \A j \in 1 .. count + 1 : hp2.slots[j].offset = PageSize - j * RowSize
    BY <1>1, <1>3, <1>6, <1>7, <2>1
  <2> QED BY <2>2, <1>1, <1>5, <1>6 DEF SlotsAreSpaced
<1>10. DeletedAreListed(hp2)
  <2>1. PICK c, n : /\ IsChain(NextFree(hp), hp.free_slot_head, c, n)
                    /\ ChainNodes(c, n) = DeletedSlots(hp)
    BY DEF PageInv, DeletedAreListed
  <2>2. /\ DOMAIN NextFree(hp) = 1 .. count /\ DOMAIN NextFree(hp2) = 1 .. count + 1
        /\ 0 \notin 1 .. count + 1
        /\ \A j \in 1 .. count : NextFree(hp2)[j] = NextFree(hp)[j]
    BY <1>1, <1>6, <1>7 DEF NextFree
  <2>3. \A j \in ChainNodes(c, n) : j \in 1 .. count
    BY <2>1 DEF DeletedSlots
  <2>4. IsChain(NextFree(hp2), hp.free_slot_head, c, n)
    BY <1>7, <2>1, <2>2, <2>3, ChainUndisturbed
  <2>5. DeletedSlots(hp2) = DeletedSlots(hp)
    BY <1>3, <1>6, <1>7 DEF DeletedSlots
  <2> QED BY <2>1, <2>4, <2>5, <1>5 DEF DeletedAreListed
<1>11. PutAt(hp, hp2, count + 1, row)
  BY <1>3, <1>5, <1>6, <1>7 DEF PutAt
<1> QED BY <1>8, <1>9, <1>10, <1>11 DEF PageInv, hp2

(* Storing a row in a slot that the page has room for keeps its layout. *)
LEMMA PutRowPage ==
  ASSUME NEW hp, PageInv(hp), HasFreeSlot(hp) \/ HasRoom(hp), NEW row \in Rows
  PROVE  PageInv(PutRow(hp, row)) /\ PutAt(hp, PutRow(hp, row), SlotForInsert(hp), row)
BY ReuseSlotPage, AddSlotPage DEF PutRow, SlotForInsert

(* An empty heap page is laid out. *)
LEMMA NewHeapPageInv ==
  /\ PageInv(NewHeapPage) /\ HasRoom(NewHeapPage) /\ ~HasFreeSlot(NewHeapPage)
  /\ Len(NewHeapPage.slots) = 0 /\ NewHeapPage.next = NULL
<1>1. /\ NewHeapPage \in HeapPage /\ Len(NewHeapPage.slots) = 0 /\ NewHeapPage.next = NULL
      /\ NewHeapPage.free_slot_head = 0 /\ NewHeapPage.free_space_offset = 0
  <2>1. <<>> \in Seq(Slot) /\ Len(<<>>) = 0
    OBVIOUS
  <2> QED BY <2>1, HeapConstants DEF NewHeapPage, HeapPage
<1>2. SlotsAreSpaced(NewHeapPage)
  BY <1>1, HeapConstants DEF SlotsAreSpaced
<1>3. DeletedAreListed(NewHeapPage)
  <2> DEFINE c == [k \in 0 .. 0 |-> 0]
  <2>1. DOMAIN NextFree(NewHeapPage) = {} /\ DeletedSlots(NewHeapPage) = {}
    BY <1>1 DEF NextFree, DeletedSlots
  <2>2. IsChain(NextFree(NewHeapPage), 0, c, 0) /\ ChainNodes(c, 0) = {}
    BY <2>1 DEF IsChain, ChainNodes
  <2> QED BY <1>1, <2>1, <2>2 DEF DeletedAreListed
<1>4. PageInv(NewHeapPage)
  BY <1>1, <1>2, <1>3 DEF PageInv
<1>5. HasRoom(NewHeapPage)
  <2>1. HasRoom(NewHeapPage) <=> HeapHeaderSize + (0 + 1) * (SlotSize + RowSize) <= PageSize
    BY <1>1, <1>4, RoomLeft
  <2>2. (0 + 1) * (8 + RowSize) = 8 + RowSize
    BY HeapConstants
  <2> QED BY <2>1, <2>2, HeapConstants
<1> QED BY <1>1, <1>4, <1>5, HeapConstants DEF HasFreeSlot

(* Linking a page touches neither its slots nor its space. *)
LEMMA LinkedPage ==
  ASSUME NEW hp, PageInv(hp), NEW next \in Links
  PROVE  LET hp2 == [hp EXCEPT !.next = next]
         IN  /\ PageInv(hp2) /\ hp2.next = next /\ hp2.slots = hp.slots
             /\ HasRoom(hp2) <=> HasRoom(hp)
<1> DEFINE hp2 == [hp EXCEPT !.next = next]
<1>1. hp \in HeapPage
  BY SlotFacts
<1>2. hp2 = [hp EXCEPT !.next = next]
  OBVIOUS
<1> HIDE DEF hp2
<1>3. /\ hp2.next = next /\ hp2.slots = hp.slots /\ hp2 \in HeapPage
      /\ hp2.free_slot_head = hp.free_slot_head
      /\ hp2.free_space_offset = hp.free_space_offset
  BY <1>1, <1>2 DEF HeapPage
<1>4. SlotsAreSpaced(hp2) /\ (HasRoom(hp2) <=> HasRoom(hp))
  BY <1>3, SameSpacing
<1>5. NextFree(hp2) = NextFree(hp) /\ DeletedSlots(hp2) = DeletedSlots(hp)
  BY <1>3 DEF NextFree, DeletedSlots
<1>6. DeletedAreListed(hp2)
  BY <1>3, <1>5 DEF PageInv, DeletedAreListed
<1> QED BY <1>3, <1>4, <1>6 DEF PageInv, hp2

-----------------------------------------------------------------------------
(* What a page promises *)

(* Rows lie behind the slots, inside the page, and apart from each other.  *)
LEMMA RowsFit ==
  ASSUME NEW hp, PageInv(hp), NEW i \in 1 .. Len(hp.slots)
  PROVE  /\ hp.slots[i].offset >= SlotsEnd(Len(hp.slots))
         /\ hp.slots[i].offset + RowSize <= PageSize
         /\ \A j \in 1 .. Len(hp.slots) \ {i} :
              \/ hp.slots[i].offset + RowSize <= hp.slots[j].offset
              \/ hp.slots[j].offset + RowSize <= hp.slots[i].offset
<1> DEFINE count == Len(hp.slots)
           at(k) == k * RowSize
<1>1. count \in Nat /\ RowSize \in Nat /\ PageSize \in Nat
  BY SlotFacts, HeapConstants
<1>2. \A k \in 1 .. count : hp.slots[k].offset = PageSize - at(k)
  BY DEF PageInv, SlotsAreSpaced
<1>3. \A k \in 1 .. count : at(k) \in Nat /\ k \in Nat
  BY <1>1, Multiples
<1>4. at(count) \in Nat /\ SlotsEnd(count) \in Nat /\ SlotsEnd(count) + at(count) <= PageSize
  BY RoomLeft
<1>5. \A j, k \in 1 .. count : j < k => at(j) + RowSize <= at(k)
  BY <1>1, <1>3, Multiples
<1>6. at(1) = RowSize /\ 1 \in 1 .. count
  BY <1>1
<1>7. count \in 1 .. count /\ \A k \in 1 .. count : k < count \/ k = count
  BY <1>1
<1>8. \A k \in 1 .. count : 1 < k \/ k = 1
  BY <1>1
<1> HIDE DEF at, count
<1>9. i \in 1 .. count
  BY DEF count
<1>10. at(i) <= at(count) /\ RowSize <= at(i)
  BY <1>1, <1>3, <1>4, <1>5, <1>6, <1>7, <1>8, <1>9
<1>11. /\ hp.slots[i].offset >= SlotsEnd(count)
       /\ hp.slots[i].offset + RowSize <= PageSize
  <2>1. hp.slots[i].offset = PageSize - at(i) /\ at(i) \in Nat
    BY <1>2, <1>3, <1>9
  <2>2. at(i) <= at(count) /\ RowSize <= at(i) /\ SlotsEnd(count) + at(count) <= PageSize
    BY <1>4, <1>10
  <2> QED BY <2>1, <2>2, <1>1, <1>4
<1>12. ASSUME NEW j \in 1 .. count, j # i
       PROVE  \/ hp.slots[i].offset + RowSize <= hp.slots[j].offset
              \/ hp.slots[j].offset + RowSize <= hp.slots[i].offset
  <2>1. i < j \/ j < i
    BY <1>9, <1>12, <1>1
  <2>2. at(i) + RowSize <= at(j) \/ at(j) + RowSize <= at(i)
    BY <1>5, <1>9, <2>1
  <2>3. /\ hp.slots[i].offset = PageSize - at(i) /\ hp.slots[j].offset = PageSize - at(j)
        /\ at(i) \in Nat /\ at(j) \in Nat
    BY <1>2, <1>3, <1>9
  <2> QED BY <1>1, <2>2, <2>3
<1> QED BY <1>11, <1>12 DEF count

(* Walking along the free slots visits the deleted slots and ends. *)
LEMMA DeletedAreVisited ==
  ASSUME NEW hp, PageInv(hp)
  PROVE  LET count == Len(hp.slots)
             at == Walk([i \in 1 .. count |-> hp.slots[i].next_free], hp.free_slot_head, count)
         IN  /\ at[count] = SLOT_NONE
             /\ {at[n] : n \in 0 .. count} \ {SLOT_NONE}
                  = {i \in 1 .. count : hp.slots[i].status = "FREE"}
<1> DEFINE count == Len(hp.slots)
           at == Walk(NextFree(hp), hp.free_slot_head, count)
<1>1. PICK c, n : /\ IsChain(NextFree(hp), hp.free_slot_head, c, n)
                  /\ ChainNodes(c, n) = DeletedSlots(hp)
  BY DEF PageInv, DeletedAreListed
<1>2. count \in Nat /\ n \in Nat /\ DOMAIN NextFree(hp) = 1 .. count
  BY <1>1, SlotFacts DEF IsChain
<1>3. n <= count
  <2>1. IsFiniteSet(1 .. count) /\ Cardinality(1 .. count) = count
    BY <1>2, FS_Interval
  <2> QED BY <1>1, <1>2, <2>1, ChainIsShort
<1> HIDE DEF count
<1>4. at = [k \in 0 .. count |-> IF k < n THEN c[k] ELSE 0]
  BY <1>1, <1>2, <1>3, WalkFollowsTheChain
<1> HIDE DEF at
<1>5. at[count] = 0
  BY <1>2, <1>3, <1>4
<1>6. {at[k] : k \in 0 .. count} \ {0} = {c[k] : k \in 0 .. n - 1}
  <2>1. \A k \in 0 .. n - 1 : c[k] # 0 /\ k \in 0 .. count /\ at[k] = c[k]
    BY <1>1, <1>2, <1>3, <1>4 DEF IsChain
  <2>2. \A k \in 0 .. count : at[k] # 0 => k \in 0 .. n - 1 /\ at[k] = c[k]
    BY <1>2, <1>3, <1>4
  <2> QED BY <2>1, <2>2
<1> QED BY <1>1, <1>5, <1>6, HeapConstants DEF ChainNodes, DeletedSlots, NextFree, at, count

-----------------------------------------------------------------------------
(* The chain of heap pages *)

NextPageOf(h) == [p \in PageIds |-> h.pages[p].next]

(* c[0 .. n] is the heap chain; the tail is cached; pages before the tail  *)
(* have no room for a new slot; pages outside the chain are untouched.     *)
ChainOf(h, c, n) ==
  /\ IsChain(NextPageOf(h), FirstHeapPage, c, n) /\ n > 0 /\ h.last = c[n - 1]
  /\ \A p \in ChainNodes(c, n) : p # h.last => ~HasRoom(h.pages[p])
  /\ \A p \in PageIds : p \notin ChainNodes(c, n) => h.pages[p] = NewHeapPage

(* The inductive invariant. *)
HeapInv(h) ==
  /\ h \in [pages : [PageIds -> HeapPage], last : PageIds]
  /\ \A p \in PageIds : PageInv(h.pages[p])
  /\ \E c, n : ChainOf(h, c, n)

(* HeapChain lists the chain of pages, and the tail is on it. *)
LEMMA ChainPages ==
  ASSUME NEW h, NEW c, NEW n, ChainOf(h, c, n)
  PROVE  /\ HeapChain(h) = [k \in 1 .. n |-> c[k - 1]] /\ n \in Nat
         /\ Range(HeapChain(h)) = ChainNodes(c, n)
         /\ ChainNodes(c, n) \subseteq PageIds
         /\ h.last \in ChainNodes(c, n)
<1>1. /\ IsChain(NextPageOf(h), FirstHeapPage, c, n) /\ n \in Nat /\ n > 0 /\ h.last = c[n - 1]
      /\ DOMAIN NextPageOf(h) = PageIds
  BY DEF ChainOf, IsChain, NextPageOf
<1>2. n <= MaxPage /\ MaxPage \in Nat
  <2>1. IsFiniteSet(PageIds) /\ Cardinality(PageIds) = MaxPage
    BY HeapConstants, FS_Interval DEF PageIds
  <2> QED BY <1>1, <2>1, ChainIsShort, HeapConstants
<1>3. HeapChain(h) = [k \in 1 .. n |-> c[k - 1]]
  BY <1>1, <1>2, NodesOfTheChain DEF HeapChain, NextPageOf
<1>4. Range(HeapChain(h)) = ChainNodes(c, n)
  <2>1. \A k \in 1 .. n : k - 1 \in 0 .. n - 1
    BY <1>1
  <2>2. \A k \in 0 .. n - 1 : k + 1 \in 1 .. n /\ (k + 1) - 1 = k
    BY <1>1
  <2>3. Range(HeapChain(h)) = {c[k - 1] : k \in 1 .. n}
    BY <1>3 DEF Range
  <2> QED BY <2>1, <2>2, <2>3 DEF ChainNodes
<1>5. n - 1 \in 0 .. n - 1
  BY <1>1
<1> QED BY <1>1, <1>3, <1>4, <1>5 DEF ChainNodes, IsChain

(* The heap chain as a sequence of pages.                                  *)
LEMMA ChainRow ==
  ASSUME NEW h, HeapInv(h)
  PROVE  LET s == HeapChain(h)
         IN  /\ s \in Seq(PageIds) /\ Len(s) \in 1 .. MaxPage
             /\ s[1] = FirstHeapPage /\ h.last = s[Len(s)]
             /\ \A k \in 1 .. Len(s) - 1 : h.pages[s[k]].next = s[k + 1]
             /\ h.pages[s[Len(s)]].next = NULL
             /\ \A j, k \in 1 .. Len(s) : s[j] = s[k] => j = k
             /\ \A p \in PageIds \ Range(s) : h.pages[p] = NewHeapPage
<1>1. PICK c, n : ChainOf(h, c, n)
  BY DEF HeapInv
<1> DEFINE s == HeapChain(h)
<1>2. /\ s = [k \in 1 .. n |-> c[k - 1]] /\ Range(s) = ChainNodes(c, n)
      /\ ChainNodes(c, n) \subseteq PageIds
  BY <1>1, ChainPages
<1> HIDE DEF s
<1>3. /\ IsChain(NextPageOf(h), FirstHeapPage, c, n) /\ n \in Nat /\ n > 0 /\ h.last = c[n - 1]
      /\ c[0] = FirstHeapPage /\ c[n] = 0
      /\ \A p \in PageIds : p \notin ChainNodes(c, n) => h.pages[p] = NewHeapPage
  BY <1>1 DEF ChainOf, IsChain
<1>4. \A k \in 1 .. n : k - 1 \in 0 .. n - 1 /\ (k - 1) + 1 = k
  BY <1>3
<1>5. \A k \in 1 .. n : s[k] = c[k - 1] /\ s[k] \in PageIds
  BY <1>2, <1>4 DEF ChainNodes
<1>6. Len(s) = n /\ s \in Seq(PageIds)
  BY <1>2, <1>3, <1>5
<1>7. n <= MaxPage /\ MaxPage \in Nat
  <2>1. IsFiniteSet(PageIds) /\ Cardinality(PageIds) = MaxPage
    BY HeapConstants, FS_Interval DEF PageIds
  <2>2. DOMAIN NextPageOf(h) = PageIds
    BY DEF NextPageOf
  <2> QED BY <1>3, <2>1, <2>2, ChainIsShort, HeapConstants
<1>8. \A k \in 1 .. n : h.pages[s[k]].next = c[k]
  <2> TAKE k \in 1 .. n
  <2>1. c[k] = NextPageOf(h)[c[k - 1]]
    BY <1>3, <1>4 DEF IsChain
  <2> QED BY <2>1, <1>5 DEF NextPageOf
<1>9. \A k \in 1 .. n - 1 : k \in 1 .. n /\ k + 1 \in 1 .. n /\ c[k] = s[k + 1]
  BY <1>3, <1>5
<1>10. \A j, k \in 1 .. n : s[j] = s[k] => j = k
  <2> SUFFICES ASSUME NEW j \in 1 .. n, NEW k \in 1 .. n, s[j] = s[k] PROVE j = k
    OBVIOUS
  <2>1. c[j - 1] = c[k - 1] /\ j - 1 \in 0 .. n - 1 /\ k - 1 \in 0 .. n - 1
    BY <1>4, <1>5
  <2>2. j - 1 = k - 1
    BY <2>1, <1>3 DEF IsChain
  <2> QED BY <2>2, <1>3
<1>11. 1 \in 1 .. n /\ n \in 1 .. n
  BY <1>3
<1>12. s[1] = FirstHeapPage /\ h.last = s[n] /\ h.pages[s[n]].next = NULL
  BY <1>3, <1>5, <1>8, <1>11, HeapConstants
<1>13. /\ \A k \in 1 .. n - 1 : h.pages[s[k]].next = s[k + 1]
       /\ \A p \in PageIds \ Range(s) : h.pages[p] = NewHeapPage
  BY <1>2, <1>3, <1>8, <1>9
<1> QED BY <1>3, <1>6, <1>7, <1>10, <1>12, <1>13 DEF s

(* A chain read from the front, as far as it is linked.                    *)
LEMMA ChainCut ==
  ASSUME NEW h, NEW s \in Seq(PageIds), NEW e \in 1 .. Len(s), Len(s) <= MaxPage,
         s[1] = FirstHeapPage, \A j, k \in 1 .. Len(s) : s[j] = s[k] => j = k,
         \A k \in 1 .. e - 1 : h.pages[s[k]].next = s[k + 1],
         h.pages[s[e]].next = NULL
  PROVE  HeapChain(h) = [k \in 1 .. e |-> s[k]]
<1> DEFINE c == [k \in 0 .. e |-> IF k < e THEN s[k + 1] ELSE 0]
<1>1. /\ Len(s) \in Nat /\ e \in Nat /\ e >= 1 /\ e <= Len(s) /\ e <= MaxPage
      /\ \A k \in 1 .. Len(s) : s[k] \in PageIds
  BY HeapConstants
<1>2. \A k \in 0 .. e - 1 : k + 1 \in 1 .. Len(s) /\ c[k] = s[k + 1] /\ c[k] \in PageIds
  BY <1>1
<1>3. c[e] = 0 /\ c[0] = s[1]
  BY <1>1
<1>4. c \in [0 .. e -> PageIds \cup {0}]
  BY <1>1
<1> HIDE DEF c
<1>5. \A k \in 0 .. e - 1 : c[k + 1] = NextPageOf(h)[c[k]]
  <2> TAKE k \in 0 .. e - 1
  <2>1. NextPageOf(h)[c[k]] = h.pages[s[k + 1]].next
    BY <1>2 DEF NextPageOf
  <2>2. CASE k = e - 1
    <3>1. k + 1 = e
      BY <2>2, <1>1
    <3> QED BY <3>1, <2>1, <1>3, HeapConstants
  <2>3. CASE k # e - 1
    <3>1. k + 1 \in 1 .. e - 1 /\ k + 1 \in 0 .. e - 1
      BY <2>3, <1>1
    <3> QED BY <3>1, <2>1, <1>2
  <2> QED BY <2>2, <2>3
<1>6. \A j, k \in 0 .. e - 1 : c[j] = c[k] => j = k
  <2> SUFFICES ASSUME NEW j \in 0 .. e - 1, NEW k \in 0 .. e - 1, c[j] = c[k] PROVE j = k
    OBVIOUS
  <2>1. s[j + 1] = s[k + 1] /\ j + 1 \in 1 .. Len(s) /\ k + 1 \in 1 .. Len(s)
    BY <1>2
  <2>2. j + 1 = k + 1
    BY <2>1
  <2> QED BY <2>2, <1>1
<1>7. DOMAIN NextPageOf(h) = PageIds
  BY DEF NextPageOf
<1>8. IsChain(NextPageOf(h), FirstHeapPage, c, e)
  BY <1>1, <1>2, <1>3, <1>4, <1>5, <1>6, <1>7, HeapConstants DEF IsChain
<1>9. HeapChain(h) = [k \in 1 .. e |-> c[k - 1]]
  BY <1>1, <1>8, NodesOfTheChain, HeapConstants DEF HeapChain, NextPageOf
<1>10. \A k \in 1 .. e : c[k - 1] = s[k]
  <2> TAKE k \in 1 .. e
  <2>1. k - 1 \in 0 .. e - 1 /\ (k - 1) + 1 = k
    BY <1>1
  <2> QED BY <2>1, <1>2
<1> QED BY <1>9, <1>10

(* find_heap_page returns a page of the chain that can take a row, or else *)
(* every page of the chain is full.                                        *)
LEMMA FoundPage ==
  ASSUME NEW h, NEW c, NEW n, ChainOf(h, c, n)
  PROVE  \/ /\ FindHeapPage(h) \in ChainNodes(c, n) /\ ~NeedsPage(h)
            /\ \/ HasFreeSlot(h.pages[FindHeapPage(h)])
               \/ HasRoom(h.pages[FindHeapPage(h)])
         \/ /\ NeedsPage(h)
            /\ \A p \in ChainNodes(c, n) : ~HasFreeSlot(h.pages[p]) /\ ~HasRoom(h.pages[p])
<1> DEFINE tail == h.pages[h.last]
           chain == HeapChain(h)
           reusable == {k \in DOMAIN chain : HasFreeSlot(h.pages[chain[k]])}
<1>1. /\ n \in Nat /\ chain = [k \in 1 .. n |-> c[k - 1]]
      /\ Range(chain) = ChainNodes(c, n) /\ ChainNodes(c, n) \subseteq PageIds
      /\ h.last \in ChainNodes(c, n)
  BY ChainPages
<1>2. FindHeapPage(h) = IF HasFreeSlot(tail) \/ HasRoom(tail) THEN h.last
                        ELSE IF reusable = {} THEN NULL ELSE chain[Min(reusable)]
  BY DEF FindHeapPage
<1>3. NULL \notin ChainNodes(c, n)
  BY <1>1, HeapConstants
<1>4. \A p \in ChainNodes(c, n) : \E k \in DOMAIN chain : p = chain[k]
  BY <1>1 DEF Range
<1>5. \A k \in DOMAIN chain : chain[k] \in ChainNodes(c, n)
  BY <1>1 DEF Range
<1>6. DOMAIN chain \subseteq Nat
  BY <1>1
<1> HIDE DEF chain, tail
<1>7. CASE HasFreeSlot(tail) \/ HasRoom(tail)
  BY <1>1, <1>2, <1>3, <1>7 DEF NeedsPage, tail
<1>8. CASE ~(HasFreeSlot(tail) \/ HasRoom(tail)) /\ reusable = {}
  <2>1. \A p \in ChainNodes(c, n) : ~HasFreeSlot(h.pages[p])
    BY <1>4, <1>8
  <2>2. \A p \in ChainNodes(c, n) : ~HasRoom(h.pages[p])
    BY <1>8 DEF ChainOf, tail
  <2> QED BY <1>2, <1>8, <2>1, <2>2 DEF NeedsPage
<1>9. CASE ~(HasFreeSlot(tail) \/ HasRoom(tail)) /\ reusable # {}
  <2>1. Min(reusable) \in reusable
    <3>1. \E k \in reusable : \A j \in reusable : k <= j
      <4>1. reusable \in SUBSET Nat
        BY <1>6
      <4> HIDE DEF reusable
      <4> QED BY <4>1, <1>9, LeastElement
    <3> HIDE DEF reusable
    <3> QED BY <3>1 DEF Min
  <2>2. FindHeapPage(h) = chain[Min(reusable)]
    BY <1>2, <1>9
  <2> QED BY <1>3, <1>5, <2>1, <2>2 DEF NeedsPage
<1> QED BY <1>7, <1>8, <1>9

-----------------------------------------------------------------------------
(* Live rows *)

LiveIn(h) == {<<ref, SlotAt(h, ref).row>> : ref \in LiveSlots(h)}

AliveAt(h, p, i) ==
  /\ p \in PageIds /\ i \in 1 .. Len(h.pages[p].slots)
  /\ h.pages[p].slots[i].status = "ALIVE"
PairAt(h, p, i) == <<<<p, i>>, h.pages[p].slots[i].row>>

(* Live rows, by page and slot. *)
LEMMA LiveRow ==
  ASSUME NEW h, \A p \in PageIds : PageInv(h.pages[p]), NEW x
  PROVE  x \in LiveIn(h) <=> \E p, i : AliveAt(h, p, i) /\ x = PairAt(h, p, i)
<1>1. \A p \in PageIds : DOMAIN h.pages[p].slots = 1 .. Len(h.pages[p].slots)
  BY SlotFacts
<1>2. \A r : r \in SlotsOf(h)
               <=> \E p \in PageIds : \E i \in 1 .. Len(h.pages[p].slots) : r = <<p, i>>
  BY <1>1 DEF SlotsOf
<1>3. \A p, i : SlotAt(h, <<p, i>>) = h.pages[p].slots[i]
  BY DEF SlotAt
<1>4. ASSUME x \in LiveIn(h)
      PROVE  \E p, i : AliveAt(h, p, i) /\ x = PairAt(h, p, i)
  <2>1. PICK r \in SlotsOf(h) : IsAlive(h, r) /\ x = <<r, SlotAt(h, r).row>>
    BY <1>4 DEF LiveIn, LiveSlots
  <2>2. PICK p \in PageIds : \E i \in 1 .. Len(h.pages[p].slots) : r = <<p, i>>
    BY <1>2
  <2>3. PICK i \in 1 .. Len(h.pages[p].slots) : r = <<p, i>>
    BY <2>2
  <2>4. AliveAt(h, p, i) /\ x = PairAt(h, p, i)
    BY <1>3, <2>1, <2>3 DEF AliveAt, PairAt, IsAlive
  <2> QED BY <2>4
<1>5. ASSUME NEW p, NEW i, AliveAt(h, p, i), x = PairAt(h, p, i)
      PROVE  x \in LiveIn(h)
  <2>1. <<p, i>> \in SlotsOf(h)
    BY <1>2, <1>5 DEF AliveAt
  <2>2. IsAlive(h, <<p, i>>) /\ x = <<<<p, i>>, SlotAt(h, <<p, i>>).row>>
    BY <1>3, <1>5 DEF AliveAt, PairAt, IsAlive
  <2> QED BY <2>1, <2>2 DEF LiveIn, LiveSlots
<1> QED BY <1>4, <1>5

(* h2 is h with a row in slot i of page t; with slot i of page t deleted.  *)
PutIn(h, h2, t, i, row) ==
  /\ \A p \in PageIds : PageInv(h.pages[p]) /\ PageInv(h2.pages[p])
  /\ t \in PageIds /\ PutAt(h.pages[t], h2.pages[t], i, row)
  /\ \A p \in PageIds : p # t => h2.pages[p].slots = h.pages[p].slots

DeletedIn(h, h2, t, i) ==
  /\ \A p \in PageIds : PageInv(h.pages[p]) /\ PageInv(h2.pages[p])
  /\ AliveAt(h, t, i)
  /\ \A p \in PageIds : p # t => h2.pages[p] = h.pages[p]
  /\ Len(h2.pages[t].slots) = Len(h.pages[t].slots)
  /\ h2.pages[t].slots[i].status = "FREE"
  /\ \A j \in 1 .. Len(h.pages[t].slots) :
       j # i => h2.pages[t].slots[j] = h.pages[t].slots[j]

(* A row put into one page joins the live rows under a reference no live   *)
(* row has.                                                                *)
LEMMA LiveAfterPut ==
  ASSUME NEW h, NEW h2, NEW t, NEW i, NEW row, PutIn(h, h2, t, i, row)
  PROVE  /\ LiveIn(h2) = LiveIn(h) \cup {<<<<t, i>>, row>>}
         /\ \A pair \in LiveIn(h) : pair[1] # <<t, i>>
<1> USE DEF PutIn
<1>1. ~AliveAt(h, t, i) /\ AliveAt(h2, t, i) /\ PairAt(h2, t, i) = <<<<t, i>>, row>>
  BY DEF PutAt, AliveAt, PairAt
<1>2. ASSUME NEW p, NEW j, ~(p = t /\ j = i)
      PROVE  /\ AliveAt(h2, p, j) <=> AliveAt(h, p, j)
             /\ AliveAt(h, p, j) => PairAt(h2, p, j) = PairAt(h, p, j)
  <2>1. CASE p # t
    BY <2>1 DEF AliveAt, PairAt
  <2>2. CASE p = t /\ j # i
    BY <2>2 DEF AliveAt, PairAt, PutAt
  <2> QED BY <1>2, <2>1, <2>2
<1>3. \A x : x \in LiveIn(h2) <=> \E p, j : AliveAt(h2, p, j) /\ x = PairAt(h2, p, j)
  BY LiveRow
<1>4. \A x : x \in LiveIn(h) <=> \E p, j : AliveAt(h, p, j) /\ x = PairAt(h, p, j)
  BY LiveRow
<1>5. LiveIn(h2) \subseteq LiveIn(h) \cup {<<<<t, i>>, row>>}
  BY <1>1, <1>2, <1>3, <1>4
<1>6. LiveIn(h) \subseteq LiveIn(h2)
  BY <1>1, <1>2, <1>3, <1>4
<1>7. <<<<t, i>>, row>> \in LiveIn(h2)
  BY <1>1, <1>3
<1>8. \A pair \in LiveIn(h) : pair[1] # <<t, i>>
  BY <1>1, <1>4 DEF PairAt
<1> QED BY <1>5, <1>6, <1>7, <1>8

(* A deleted row leaves the live rows; no other row does. *)
LEMMA LiveAfterDelete ==
  ASSUME NEW h, NEW h2, NEW t, NEW i, DeletedIn(h, h2, t, i)
  PROVE  /\ PairAt(h, t, i) \in LiveIn(h)
         /\ LiveIn(h2) = LiveIn(h) \ {PairAt(h, t, i)}
<1> USE DEF DeletedIn
<1>1. ~AliveAt(h2, t, i)
  BY DEF AliveAt
<1>2. ASSUME NEW p, NEW j, ~(p = t /\ j = i)
      PROVE  /\ AliveAt(h2, p, j) <=> AliveAt(h, p, j)
             /\ AliveAt(h, p, j) => PairAt(h2, p, j) = PairAt(h, p, j)
  <2>1. CASE p # t
    BY <2>1 DEF AliveAt, PairAt
  <2>2. CASE p = t /\ j # i
    BY <2>2 DEF AliveAt, PairAt
  <2> QED BY <1>2, <2>1, <2>2
<1>3. \A x : x \in LiveIn(h2) <=> \E p, j : AliveAt(h2, p, j) /\ x = PairAt(h2, p, j)
  BY LiveRow
<1>4. \A x : x \in LiveIn(h) <=> \E p, j : AliveAt(h, p, j) /\ x = PairAt(h, p, j)
  BY LiveRow
<1>5. \A p, j : PairAt(h, p, j) = PairAt(h, t, i) => p = t /\ j = i
  BY DEF PairAt
<1>6. LiveIn(h2) \subseteq LiveIn(h) \ {PairAt(h, t, i)}
  BY <1>1, <1>2, <1>3, <1>4, <1>5
<1>7. LiveIn(h) \ {PairAt(h, t, i)} \subseteq LiveIn(h2)
  BY <1>1, <1>2, <1>3, <1>4
<1> QED BY <1>4, <1>6, <1>7

-----------------------------------------------------------------------------
(* heap_insert *)

(* What an insert promises. *)
RowInserted(h, h2, ref, row) ==
  /\ HeapInv(h2)
  /\ LiveIn(h2) = LiveIn(h) \cup {<<ref, row>>}
  /\ \A pair \in LiveIn(h) : pair[1] # ref

(* heap_insert in a page of the chain. *)
LEMMA InsertInPage ==
  ASSUME NEW h, HeapInv(h), NEW row \in Rows, NEW new, ~NeedsPage(h)
  PROVE  /\ RowInserted(h, HeapInsert(h, row, new), InsertedRef(h, new), row)
         /\ HeapChain(HeapInsert(h, row, new)) = HeapChain(h)
<1> DEFINE t == FindHeapPage(h)
           i == SlotForInsert(h.pages[t])
           hp2 == PutRow(h.pages[t], row)
           h2 == HeapInsert(h, row, new)
<1>1. PICK c, n : ChainOf(h, c, n)
  BY DEF HeapInv
<1>2. /\ t \in ChainNodes(c, n) /\ t \in PageIds
      /\ HasFreeSlot(h.pages[t]) \/ HasRoom(h.pages[t])
  BY <1>1, FoundPage, ChainPages
<1>3. PageInv(hp2) /\ PutAt(h.pages[t], hp2, i, row)
  BY <1>2, PutRowPage DEF HeapInv
<1>4. hp2 \in HeapPage
  BY <1>3, SlotFacts
<1>5. h2 = [h EXCEPT !.pages[t] = hp2] /\ InsertedRef(h, new) = <<t, i>>
  BY DEF HeapInsert, InsertedRef, TargetPage
<1> HIDE DEF hp2, h2, t, i
<1>6. /\ h2 \in [pages : [PageIds -> HeapPage], last : PageIds] /\ h2.last = h.last
      /\ h2.pages[t] = hp2 /\ \A p \in PageIds : p # t => h2.pages[p] = h.pages[p]
  BY <1>2, <1>4, <1>5 DEF HeapInv
<1>7. \A p \in PageIds : PageInv(h2.pages[p])
  BY <1>3, <1>6 DEF HeapInv
<1>8. NextPageOf(h2) = NextPageOf(h)
  BY <1>3, <1>6 DEF NextPageOf, PutAt
<1>9. ChainOf(h2, c, n)
  <2>1. \A p \in ChainNodes(c, n) : p \in PageIds
    BY <1>1, ChainPages
  <2>2. \A p \in ChainNodes(c, n) : p # h.last => ~HasRoom(h2.pages[p])
    BY <2>1, <1>1, <1>3, <1>6 DEF PutAt, ChainOf
  <2> QED BY <2>2, <1>1, <1>2, <1>6, <1>8 DEF ChainOf
<1>10. HeapInv(h2)
  BY <1>6, <1>7, <1>9 DEF HeapInv
<1>11. /\ LiveIn(h2) = LiveIn(h) \cup {<<<<t, i>>, row>>}
       /\ \A pair \in LiveIn(h) : pair[1] # <<t, i>>
  <2>1. \A p \in PageIds : PageInv(h.pages[p]) /\ PageInv(h2.pages[p])
    BY <1>7 DEF HeapInv
  <2>2. \A p \in PageIds : p # t => h2.pages[p].slots = h.pages[p].slots
    BY <1>6
  <2>3. PutAt(h.pages[t], h2.pages[t], i, row) /\ t \in PageIds
    BY <1>2, <1>3, <1>6
  <2>4. PutIn(h, h2, t, i, row)
    BY <2>1, <2>2, <2>3 DEF PutIn
  <2> QED BY <2>4, LiveAfterPut
<1>12. HeapChain(h2) = HeapChain(h)
  BY <1>8 DEF HeapChain, NextPageOf
<1> QED BY <1>5, <1>10, <1>11, <1>12 DEF RowInserted, h2

(* A new page goes behind a full tail and takes the row in its first slot. *)
LEMMA InsertInNewPage ==
  ASSUME NEW h, HeapInv(h), NEW row \in Rows, NeedsPage(h),
         NEW new \in PageIds, new \notin Range(HeapChain(h))
  PROVE  /\ RowInserted(h, HeapInsert(h, row, new), InsertedRef(h, new), row)
         /\ HeapChain(HeapInsert(h, row, new)) = Append(HeapChain(h), new)
         /\ Range(HeapChain(HeapInsert(h, row, new))) = Range(HeapChain(h)) \cup {new}
<1> DEFINE tail == h.last
           hp2 == PutRow(NewHeapPage, row)
           old == [h.pages[tail] EXCEPT !.next = new]
           h2 == HeapInsert(h, row, new)
<1>1. PICK c, n : ChainOf(h, c, n)
  BY DEF HeapInv
<1>2. /\ IsChain(NextPageOf(h), FirstHeapPage, c, n) /\ n > 0 /\ tail = c[n - 1] /\ n \in Nat
      /\ tail \in ChainNodes(c, n) /\ ChainNodes(c, n) \subseteq PageIds
      /\ new \notin ChainNodes(c, n) /\ new \in Links
      /\ \A p \in ChainNodes(c, n) : ~HasRoom(h.pages[p])
      /\ h.pages[new] = NewHeapPage
  BY <1>1, ChainPages, FoundPage, HeapConstants DEF ChainOf
<1>3. PageInv(hp2) /\ PutAt(NewHeapPage, hp2, 1, row)
  BY NewHeapPageInv, PutRowPage DEF SlotForInsert
<1>4. /\ PageInv(old) /\ old.next = new /\ old.slots = h.pages[tail].slots
      /\ ~HasRoom(old)
  BY <1>2, LinkedPage DEF HeapInv
<1>5. hp2 \in HeapPage /\ old \in HeapPage /\ hp2.next = 0
  BY <1>3, <1>4, SlotFacts, NewHeapPageInv, HeapConstants DEF PutAt
<1>6. /\ InsertedRef(h, new) = <<new, 1>>
      /\ h2 = [ExtendChain(h, new) EXCEPT !.pages[new] = PutRow(@, row)]
  BY DEF HeapInsert, InsertedRef, TargetPage
<1> HIDE DEF hp2, h2
<1>7. /\ h2 \in [pages : [PageIds -> HeapPage], last : PageIds] /\ h2.last = new
      /\ h2.pages[new] = hp2 /\ h2.pages[tail] = old
      /\ \A p \in PageIds : p # new /\ p # tail => h2.pages[p] = h.pages[p]
  <2> DEFINE ext == [h.pages EXCEPT ![new] = NewHeapPage, ![tail].next = new]
  <2>1. /\ DOMAIN ext = PageIds /\ ext[new] = NewHeapPage /\ ext[tail] = old
        /\ \A p \in PageIds : p # new /\ p # tail => ext[p] = h.pages[p]
    BY <1>2 DEF HeapInv
  <2>2. ExtendChain(h, new) = [pages |-> ext, last |-> new]
    BY DEF ExtendChain
  <2> HIDE DEF ext, old
  <2>3. h2 = [pages |-> [ext EXCEPT ![new] = hp2], last |-> new]
    BY <1>6, <2>1, <2>2 DEF hp2
  <2>4. tail # new /\ tail \in PageIds
    BY <1>2
  <2>5. \A p \in PageIds : h2.pages[p] \in HeapPage
    BY <1>5, <2>1, <2>3, <2>4 DEF HeapInv
  <2> QED BY <2>1, <2>3, <2>4, <2>5
<1> HIDE DEF old
<1>8. \A p \in PageIds : PageInv(h2.pages[p])
  BY <1>3, <1>4, <1>7 DEF HeapInv
<1>9. PICK d : /\ IsChain(NextPageOf(h2), FirstHeapPage, d, n + 1) /\ d[n] = new
               /\ \A k \in 0 .. n - 1 : d[k] = c[k]
               /\ ChainNodes(d, n + 1) = ChainNodes(c, n) \cup {new}
  <2>1. /\ DOMAIN NextPageOf(h) = PageIds /\ DOMAIN NextPageOf(h2) = PageIds
        /\ NextPageOf(h2)[tail] = new /\ NextPageOf(h2)[new] = 0
        /\ \A p \in ChainNodes(c, n) : p # tail => NextPageOf(h2)[p] = NextPageOf(h)[p]
    BY <1>2, <1>4, <1>5, <1>7 DEF NextPageOf
  <2> QED BY <2>1, <1>2, ChainAppend
<1>10. ChainOf(h2, d, n + 1)
  <2>1. n + 1 > 0 /\ (n + 1) - 1 = n
    BY <1>2
  <2>2. \A p \in ChainNodes(d, n + 1) : p # new => ~HasRoom(h2.pages[p])
    BY <1>2, <1>4, <1>7, <1>9
  <2>3. \A p \in PageIds : p \notin ChainNodes(d, n + 1) => h2.pages[p] = NewHeapPage
    BY <1>1, <1>2, <1>7, <1>9 DEF ChainOf
  <2> QED BY <2>1, <2>2, <2>3, <1>7, <1>9 DEF ChainOf
<1>11. HeapInv(h2)
  BY <1>7, <1>8, <1>10 DEF HeapInv
<1>12. /\ LiveIn(h2) = LiveIn(h) \cup {<<<<new, 1>>, row>>}
       /\ \A pair \in LiveIn(h) : pair[1] # <<new, 1>>
  <2>1. \A p \in PageIds : PageInv(h.pages[p]) /\ PageInv(h2.pages[p])
    BY <1>8 DEF HeapInv
  <2>2. \A p \in PageIds : p # new => h2.pages[p].slots = h.pages[p].slots
    BY <1>4, <1>7
  <2>3. PutAt(h.pages[new], h2.pages[new], 1, row)
    BY <1>2, <1>3, <1>7
  <2>4. PutIn(h, h2, new, 1, row)
    BY <2>1, <2>2, <2>3 DEF PutIn
  <2> QED BY <2>4, LiveAfterPut
<1>13. Range(HeapChain(h2)) = Range(HeapChain(h)) \cup {new}
  BY <1>1, <1>9, <1>10, ChainPages
<1>14. HeapChain(h2) = Append(HeapChain(h), new)
  <2>1. /\ HeapChain(h) = [k \in 1 .. n |-> c[k - 1]]
        /\ HeapChain(h2) = [k \in 1 .. n + 1 |-> d[k - 1]]
    BY <1>1, <1>10, ChainPages
  <2>2. Len(HeapChain(h)) = n
    BY <1>2, <2>1
  <2>3. HeapChain(h) \in Seq(PageIds) /\ HeapChain(h2) \in Seq(PageIds)
    <3>1. \A k \in 1 .. n : k - 1 \in 0 .. n - 1
      BY <1>2
    <3>2. \A k \in 1 .. n + 1 : k - 1 \in 0 .. (n + 1) - 1
      BY <1>2
    <3>3. \A k \in 1 .. n : c[k - 1] \in PageIds
      BY <3>1, <1>2 DEF ChainNodes
    <3>4. \A k \in 1 .. n + 1 : d[k - 1] \in PageIds
      BY <3>2, <1>2, <1>9 DEF ChainNodes
    <3> QED BY <3>3, <3>4, <2>1, <1>2
  <2>4. ASSUME NEW k \in 1 .. n
        PROVE  HeapChain(h2)[k] = HeapChain(h)[k]
    <3>1. k \in 1 .. n + 1 /\ k - 1 \in 0 .. n - 1
      BY <1>2
    <3> QED BY <3>1, <2>1, <1>9
  <2>5. HeapChain(h2)[n + 1] = new /\ Len(HeapChain(h2)) = n + 1
    <3>1. n + 1 \in 1 .. n + 1 /\ (n + 1) - 1 = n
      BY <1>2
    <3> QED BY <3>1, <2>1, <1>2, <1>9
  <2>6. /\ Append(HeapChain(h), new) \in Seq(PageIds) /\ Len(Append(HeapChain(h), new)) = n + 1
        /\ Append(HeapChain(h), new)[n + 1] = new
        /\ \A k \in 1 .. n : Append(HeapChain(h), new)[k] = HeapChain(h)[k]
    BY <2>2, <2>3, AppendProperties
  <2>7. ASSUME NEW k \in 1 .. n + 1 PROVE HeapChain(h2)[k] = Append(HeapChain(h), new)[k]
    <3>1. k = n + 1 \/ k \in 1 .. n
      BY <1>2
    <3> QED BY <3>1, <2>4, <2>5, <2>6
  <2> QED BY <2>3, <2>5, <2>6, <2>7, SeqEqual
<1> QED BY <1>6, <1>11, <1>12, <1>13, <1>14 DEF RowInserted, h2

-----------------------------------------------------------------------------
(* heap_delete *)

(* heap_delete. *)
LEMMA DeleteStep ==
  ASSUME NEW h, HeapInv(h), NEW ref \in SlotsOf(h)
  PROVE  LET h2 == HeapDelete(h, ref)
         IN  /\ HeapInv(h2) /\ HeapChain(h2) = HeapChain(h)
             /\ ~IsAlive(h, ref) => h2 = h
             /\ IsAlive(h, ref) =>
                  /\ <<ref, SlotAt(h, ref).row>> \in LiveIn(h)
                  /\ LiveIn(h2) = LiveIn(h) \ {<<ref, SlotAt(h, ref).row>>}
<1>1. \A p \in PageIds : DOMAIN h.pages[p].slots = 1 .. Len(h.pages[p].slots)
  BY SlotFacts DEF HeapInv
<1>2. PICK p \in PageIds : \E i \in 1 .. Len(h.pages[p].slots) : ref = <<p, i>>
  BY <1>1 DEF SlotsOf
<1>3. PICK i \in 1 .. Len(h.pages[p].slots) : ref = <<p, i>>
  BY <1>2
<1> SUFFICES ASSUME IsAlive(h, ref)
             PROVE  LET h2 == HeapDelete(h, ref)
                    IN  /\ HeapInv(h2) /\ HeapChain(h2) = HeapChain(h)
                        /\ <<ref, SlotAt(h, ref).row>> \in LiveIn(h)
                        /\ LiveIn(h2) = LiveIn(h) \ {<<ref, SlotAt(h, ref).row>>}
  BY DEF HeapDelete
<1> DEFINE hp == h.pages[p]
           freed == [hp.slots[i] EXCEPT !.status = "FREE", !.next_free = hp.free_slot_head]
           hp2 == [hp EXCEPT !.slots[i] = freed, !.free_slot_head = i]
           h2 == HeapDelete(h, ref)
<1>4. AliveAt(h, p, i) /\ PairAt(h, p, i) = <<ref, SlotAt(h, ref).row>>
  BY <1>3 DEF AliveAt, PairAt, SlotAt, IsAlive
<1>5. /\ PageInv(hp2) /\ hp2.next = hp.next /\ Len(hp2.slots) = Len(hp.slots)
      /\ hp2.slots[i].status = "FREE"
      /\ \A j \in 1 .. Len(hp.slots) : j # i => hp2.slots[j] = hp.slots[j]
      /\ HasRoom(hp2) <=> HasRoom(hp)
  BY <1>4, FreedSlotPage DEF AliveAt, HeapInv
<1>6. h2 = [h EXCEPT !.pages[p] = hp2]
  BY <1>3 DEF HeapDelete, SlotAt
<1> HIDE DEF hp2, h2
<1>7. /\ h2 \in [pages : [PageIds -> HeapPage], last : PageIds] /\ h2.last = h.last
      /\ h2.pages[p] = hp2 /\ \A q \in PageIds : q # p => h2.pages[q] = h.pages[q]
  <2>1. hp2 \in HeapPage
    BY <1>5, SlotFacts
  <2> QED BY <2>1, <1>6 DEF HeapInv
<1>8. \A q \in PageIds : PageInv(h.pages[q]) /\ PageInv(h2.pages[q])
  BY <1>5, <1>7 DEF HeapInv
<1>9. NextPageOf(h2) = NextPageOf(h)
  BY <1>5, <1>7 DEF NextPageOf
<1>10. PICK c, n : ChainOf(h, c, n)
  BY DEF HeapInv
<1>11. ChainOf(h2, c, n)
  <2>1. \A q \in ChainNodes(c, n) : q \in PageIds
    BY <1>10, ChainPages
  <2>2. \A q \in ChainNodes(c, n) : q # h.last => ~HasRoom(h2.pages[q])
    BY <2>1, <1>5, <1>7, <1>10 DEF ChainOf
  <2>3. \A q \in PageIds : q \notin ChainNodes(c, n) => q # p
    <3>1. Len(NewHeapPage.slots) = 0
      BY NewHeapPageInv
    <3> QED BY <3>1, <1>3, <1>10 DEF ChainOf
  <2> QED BY <2>2, <2>3, <1>7, <1>9, <1>10 DEF ChainOf
<1>12. HeapInv(h2)
  BY <1>7, <1>8, <1>11 DEF HeapInv
<1>13. HeapChain(h2) = HeapChain(h)
  BY <1>9 DEF HeapChain, NextPageOf
<1>14. PairAt(h, p, i) \in LiveIn(h) /\ LiveIn(h2) = LiveIn(h) \ {PairAt(h, p, i)}
  <2>1. /\ Len(h2.pages[p].slots) = Len(h.pages[p].slots)
        /\ h2.pages[p].slots[i].status = "FREE"
        /\ \A j \in 1 .. Len(h.pages[p].slots) :
             j # i => h2.pages[p].slots[j] = h.pages[p].slots[j]
    BY <1>5, <1>7
  <2>2. DeletedIn(h, h2, p, i)
    BY <2>1, <1>4, <1>7, <1>8 DEF DeletedIn
  <2> QED BY <2>2, LiveAfterDelete
<1> QED BY <1>4, <1>12, <1>13, <1>14 DEF h2

-----------------------------------------------------------------------------
(* Loops that collect *)

(* t is s with the elements outside of W left out, up to position n of s;  *)
(* at says where its elements were.                                        *)
CollectedAt(s, n, W, t, at) ==
  /\ DOMAIN t = 1 .. Len(t) /\ Len(t) \in Nat
  /\ \A k \in 1 .. Len(t) : at[k] \in 1 .. n /\ t[k] = s[at[k]] /\ t[k] \in W
  /\ \A j, k \in 1 .. Len(t) : j < k => at[j] < at[k]
  /\ \A i \in 1 .. n : s[i] \in W => \E k \in 1 .. Len(t) : at[k] = i

(* One round of the loop. *)
LEMMA CollectStep ==
  ASSUME NEW T, NEW s \in Seq(T), NEW W, NEW n \in Nat, n + 1 \in 1 .. Len(s),
         NEW t \in Seq(T), NEW at, CollectedAt(s, n, W, t, at)
  PROVE  LET t2 == IF s[n + 1] \in W THEN Append(t, s[n + 1]) ELSE t
         IN  t2 \in Seq(T) /\ \E at2 : CollectedAt(s, n + 1, W, t2, at2)
<1>1. s[n + 1] \in T /\ Len(t) \in Nat /\ DOMAIN t = 1 .. Len(t)
  BY DEF CollectedAt
<1>2. CASE s[n + 1] \notin W
  <2>1. 1 .. n \subseteq 1 .. n + 1 /\ \A i \in 1 .. n + 1 : i # n + 1 => i \in 1 .. n
    OBVIOUS
  <2>2. CollectedAt(s, n + 1, W, t, at)
    BY <1>2, <2>1 DEF CollectedAt
  <2> QED BY <1>2, <2>2
<1>3. CASE s[n + 1] \in W
  <2> DEFINE x == s[n + 1]
             m == Len(t)
             t2 == Append(t, x)
             at2 == [k \in 1 .. m + 1 |-> IF k = m + 1 THEN n + 1 ELSE at[k]]
  <2>1. /\ t2 \in Seq(T) /\ Len(t2) = m + 1 /\ m \in Nat /\ DOMAIN t2 = 1 .. m + 1
        /\ t2[m + 1] = x /\ \A k \in 1 .. m : t2[k] = t[k]
    BY <1>1
  <2>2. \A k \in 1 .. m + 1 : k # m + 1 => k \in 1 .. m
    BY <2>1
  <2>3. \A k \in 1 .. m : k \in 1 .. m + 1 /\ k # m + 1 /\ k < m + 1
    BY <2>1
  <2>4. /\ m + 1 \in 1 .. m + 1 /\ at2[m + 1] = n + 1 /\ \A k \in 1 .. m : at2[k] = at[k]
    BY <2>1, <2>3
  <2>5. \A k \in 1 .. m : at[k] \in 1 .. n /\ t[k] = s[at[k]] /\ t[k] \in W
    BY DEF CollectedAt
  <2>6. \A j, k \in 1 .. m : j < k => at[j] < at[k]
    BY DEF CollectedAt
  <2>7. \A i \in 1 .. n : s[i] \in W => \E k \in 1 .. m : at[k] = i
    BY DEF CollectedAt
  <2> HIDE DEF m, t2, at2
  <2>8. \A k \in 1 .. m + 1 : at2[k] \in 1 .. n + 1 /\ t2[k] = s[at2[k]] /\ t2[k] \in W
    <3>1. 1 .. n \subseteq 1 .. n + 1 /\ n + 1 \in 1 .. n + 1
      OBVIOUS
    <3> QED BY <1>3, <2>1, <2>2, <2>4, <2>5, <3>1
  <2>9. \A j, k \in 1 .. m + 1 : j < k => at2[j] < at2[k]
    <3> SUFFICES ASSUME NEW j \in 1 .. m + 1, NEW k \in 1 .. m + 1, j < k
                 PROVE  at2[j] < at2[k]
      OBVIOUS
    <3>1. j \in 1 .. m
      BY <2>1
    <3>2. CASE k = m + 1
      <4>1. at2[j] \in 1 .. n /\ at2[k] = n + 1
        BY <3>1, <3>2, <2>4, <2>5
      <4> QED BY <4>1
    <3>3. CASE k # m + 1
      BY <3>1, <3>3, <2>2, <2>4, <2>6
    <3> QED BY <3>2, <3>3
  <2>10. \A i \in 1 .. n + 1 : s[i] \in W => \E k \in 1 .. m + 1 : at2[k] = i
    <3> SUFFICES ASSUME NEW i \in 1 .. n + 1, s[i] \in W
                 PROVE  \E k \in 1 .. m + 1 : at2[k] = i
      OBVIOUS
    <3>1. CASE i = n + 1
      BY <3>1, <2>4
    <3>2. CASE i # n + 1
      <4>1. i \in 1 .. n
        BY <3>2
      <4> QED BY <4>1, <2>3, <2>4, <2>7
    <3> QED BY <3>1, <3>2
  <2>11. CollectedAt(s, n + 1, W, t2, at2)
    BY <2>1, <2>8, <2>9, <2>10 DEF CollectedAt
  <2> QED BY <1>3, <2>1, <2>11 DEF t2
<1> QED BY <1>2, <1>3

(* Collected leaves nothing wanted out, takes nothing twice and keeps the  *)
(* order.                                                                  *)
LEMMA CollectedFacts ==
  ASSUME NEW T, NEW s \in Seq(T), NEW W
  PROVE  Collected(s, W) \in Seq(T) /\ \E at : CollectedAt(s, Len(s), W, Collected(s, W), at)
<1> DEFINE n == Len(s)
           X == Seq(T)
           Round(t, i) == IF s[i] \in W THEN Append(t, s[i]) ELSE t
           step == [q \in X \X (1 .. n) |-> Round(q[1], q[2])]
           Loop(h) == h = [i \in 0 .. n |-> IF i = 0 THEN <<>>
                                            ELSE IF s[i] \in W THEN Append(h[i - 1], s[i])
                                                               ELSE h[i - 1]]
           h == CHOOSE g : Loop(g)
<1>1. n \in Nat /\ <<>> \in X /\ \A i \in 1 .. n : s[i] \in T
  OBVIOUS
<1>2. IsLoop(X, <<>>, n, step)
  <2>1. \A t \in X, i \in 1 .. n : Round(t, i) \in X
    BY <1>1
  <2> HIDE DEF Round, X, n
  <2> QED BY <1>1, <2>1 DEF IsLoop
<1>3. PICK f : LoopRun(X, <<>>, n, step, f)
  <2> HIDE DEF X, n, step
  <2> QED BY <1>2, LoopRuns
<1>4. Loop(f)
  <2>1. f \in [0 .. n -> X] /\ f[0] = <<>>
    BY <1>3 DEF LoopRun
  <2>2. \A i \in 1 .. n : f[i - 1] \in X /\ f[i] = Round(f[i - 1], i)
    <3> SUFFICES ASSUME NEW i \in 1 .. n PROVE f[i - 1] \in X /\ f[i] = Round(f[i - 1], i)
      OBVIOUS
    <3>1. i - 1 \in 0 .. n
      BY <1>1
    <3>2. f[i - 1] \in X
      BY <2>1, <3>1
    <3>3. f[i] = step[<<f[i - 1], i>>]
      BY <1>3 DEF LoopRun
    <3> HIDE DEF Round, X, n
    <3> QED BY <3>2, <3>3
  <2>3. \A i \in 0 .. n : i # 0 => i \in 1 .. n
    BY <1>1
  <2>4. f = [i \in 0 .. n |-> f[i]]
    BY <2>1
  <2> HIDE DEF n, X
  <2> QED BY <2>1, <2>2, <2>3, <2>4
<1>5. Loop(h)
  <2> HIDE DEF Loop
  <2> QED BY <1>4
<1>6. h[0] = <<>> /\ \A i \in 1 .. n : h[i] = Round(h[i - 1], i)
  <2>1. \A i \in 1 .. n : i \in 0 .. n /\ i # 0
    BY <1>1
  <2>2. 0 \in 0 .. n
    BY <1>1
  <2> HIDE DEF h, n
  <2> QED BY <1>5, <2>1, <2>2
<1>7. Collected(s, W) = h[n]
  BY DEF Collected, h
<1> HIDE DEF h, Loop
<1> DEFINE Fine(k) == h[k] \in X /\ \E at : CollectedAt(s, k, W, h[k], at)
           Bad == {k \in 0 .. n : ~Fine(k)}
<1>8. SUFFICES ASSUME Bad # {} PROVE FALSE
  <2>1. n \in 0 .. n
    BY <1>1
  <2>2. Bad = {} => Fine(n)
    BY <2>1
  <2> QED BY <2>2, <1>7
<1>9. PICK k \in Bad : \A j \in Bad : k <= j
  <2>1. Bad \in SUBSET Nat
    OBVIOUS
  <2> HIDE DEF Bad
  <2> QED BY <1>8, <2>1, LeastElement
<1>10. k \in 0 .. n /\ ~Fine(k)
  BY <1>9
<1>11. k # 0
  <2>1. CollectedAt(s, 0, W, <<>>, <<>>)
    BY DEF CollectedAt
  <2> QED BY <2>1, <1>1, <1>6, <1>10
<1> DEFINE j == k - 1
<1>12. j \in Nat /\ j \in 0 .. n /\ j + 1 = k /\ j + 1 \in 1 .. Len(s) /\ ~(k <= j)
  BY <1>10, <1>11
<1> HIDE DEF j
<1>13. Fine(j)
  <2>1. j \notin Bad
    <3> HIDE DEF Bad
    <3> QED BY <1>9, <1>12
  <2> HIDE DEF Fine
  <2> QED BY <2>1, <1>12
<1>14. PICK at : CollectedAt(s, j, W, h[j], at)
  BY <1>13
<1>15. h[k] = Round(h[j], j + 1)
  <2>1. k \in 1 .. n /\ k - 1 = j
    BY <1>12
  <2> HIDE DEF Round
  <2> QED BY <2>1, <1>6, <1>12
<1>16. Fine(k)
  <2> DEFINE t == h[j]
  <2>1. t \in Seq(T) /\ CollectedAt(s, j, W, t, at)
    BY <1>13, <1>14
  <2> HIDE DEF t
  <2>2. /\ Round(t, j + 1) \in Seq(T)
        /\ \E at2 : CollectedAt(s, j + 1, W, Round(t, j + 1), at2)
    BY <2>1, <1>12, CollectStep
  <2> HIDE DEF Round
  <2> QED BY <2>2, <1>12, <1>15 DEF t
<1> QED BY <1>10, <1>16

-----------------------------------------------------------------------------
(* heap_scan *)

(* A scan meets every slot of the heap that the callback wants, once.      *)
LEMMA ScanFacts ==
  ASSUME NEW h, HeapInv(h), NEW W, W \subseteq SlotsOf(h)
  PROVE  /\ ScanFor(h, W) \in Seq(W) /\ Range(ScanFor(h, W)) = W
         /\ IsInjective(ScanFor(h, W))
<1> DEFINE chain == HeapChain(h)
           T == PageIds \X Nat
           SlotsIn(p) == [i \in DOMAIN h.pages[p].slots |-> <<p, i>>]
           seqs == [b \in DOMAIN chain |-> Collected(SlotsIn(chain[b]), W)]
           scan == ScanFor(h, W)
<1>1. PICK c, n : ChainOf(h, c, n)
  BY DEF HeapInv
<1>2. /\ n \in Nat /\ DOMAIN chain = 1 .. n /\ \A b \in 1 .. n : chain[b] = c[b - 1]
      /\ Range(chain) = ChainNodes(c, n) /\ ChainNodes(c, n) \subseteq PageIds
  BY <1>1, ChainPages
<1>3. \A b \in 1 .. n : chain[b] \in PageIds
  <2>1. \A b \in 1 .. n : chain[b] \in Range(chain)
    BY <1>2 DEF Range
  <2> QED BY <2>1, <1>2
<1>4. \A a, b \in 1 .. n : chain[a] = chain[b] => a = b
  <2> TAKE a \in 1 .. n, b \in 1 .. n
  <2>1. a - 1 \in 0 .. n - 1 /\ b - 1 \in 0 .. n - 1
    BY <1>2
  <2>2. c[a - 1] = c[b - 1] => a - 1 = b - 1
    BY <1>1, <2>1 DEF ChainOf, IsChain
  <2> QED BY <1>2, <2>2
<1>5. \A p \in PageIds : /\ SlotsIn(p) \in Seq(T) /\ Len(SlotsIn(p)) = Len(h.pages[p].slots)
                         /\ \A i \in 1 .. Len(h.pages[p].slots) : SlotsIn(p)[i] = <<p, i>>
                         /\ DOMAIN h.pages[p].slots = 1 .. Len(h.pages[p].slots)
  <2> TAKE p \in PageIds
  <2>1. DOMAIN h.pages[p].slots = 1 .. Len(h.pages[p].slots) /\ Len(h.pages[p].slots) \in Nat
    BY SlotFacts DEF HeapInv
  <2> QED BY <2>1
<1> HIDE DEF SlotsIn
<1>6. \A b \in 1 .. n : seqs[b] \in Seq(T)
  <2> TAKE b \in 1 .. n
  <2>1. SlotsIn(chain[b]) \in Seq(T)
    BY <1>3, <1>5
  <2> QED BY <2>1, <1>2, CollectedFacts
<1>7. \A b \in 1 .. n : \E at : CollectedAt(SlotsIn(chain[b]), Len(h.pages[chain[b]].slots), W, seqs[b], at)
  <2> TAKE b \in 1 .. n
  <2>1. SlotsIn(chain[b]) \in Seq(T) /\ Len(SlotsIn(chain[b])) = Len(h.pages[chain[b]].slots)
    BY <1>3, <1>5
  <2>2. seqs[b] = Collected(SlotsIn(chain[b]), W)
    BY <1>2
  <2> QED BY <2>1, <2>2, CollectedFacts
<1>8. seqs \in Seq(Seq(T)) /\ Len(seqs) = n
  <2>1. DOMAIN seqs = 1 .. n
    BY <1>2
  <2>2. seqs = [b \in 1 .. n |-> seqs[b]]
    BY <2>1
  <2> HIDE DEF seqs
  <2> QED BY <2>1, <2>2, <1>2, <1>6
<1>9. scan = FlattenSeq(seqs)
  BY DEF ScanFor, SlotsIn
<1> HIDE DEF chain, T, seqs, scan
<1>10. scan \in Seq(T)
  BY <1>8, <1>9, Flattening
<1>11. PICK blk, off : FlatOf(seqs, n, scan, blk, off)
  BY <1>8, <1>9, Flattening
<1> DEFINE L == Len(scan)
           Place(b) == CHOOSE at : CollectedAt(SlotsIn(chain[b]), Len(h.pages[chain[b]].slots), W, seqs[b], at)
<1>12. \A b \in 1 .. n : CollectedAt(SlotsIn(chain[b]), Len(h.pages[chain[b]].slots), W, seqs[b], Place(b))
  BY <1>7
<1> HIDE DEF Place
<1>13a. L \in Nat /\ DOMAIN scan = 1 .. L
  BY <1>11 DEF FlatOf
<1>13. /\ \A m \in 1 .. L : blk[m] \in 1 .. n /\ off[m] \in 1 .. Len(seqs[blk[m]])
                            /\ scan[m] = seqs[blk[m]][off[m]]
       /\ \A l, m \in 1 .. L : l < m => blk[l] < blk[m] \/ (blk[l] = blk[m] /\ off[l] < off[m])
  BY <1>11 DEF FlatOf
<1>13b. \A b \in 1 .. n : \A j \in 1 .. Len(seqs[b]) :
         \E m \in 1 .. L : blk[m] = b /\ off[m] = j
  BY <1>11 DEF FlatOf
<1> HIDE DEF L
<1>14. \A b \in 1 .. n : \A j \in 1 .. Len(seqs[b]) :
         /\ seqs[b][j] = <<chain[b], Place(b)[j]>> /\ seqs[b][j] \in W
         /\ Place(b)[j] \in 1 .. Len(h.pages[chain[b]].slots)
  <2> TAKE b \in 1 .. n
  <2> TAKE j \in 1 .. Len(seqs[b])
  <2>1. /\ Place(b)[j] \in 1 .. Len(h.pages[chain[b]].slots) /\ seqs[b][j] \in W
        /\ seqs[b][j] = SlotsIn(chain[b])[Place(b)[j]]
    BY <1>12 DEF CollectedAt
  <2> QED BY <2>1, <1>3, <1>5
<1>15. \A m \in 1 .. L : scan[m] \in W /\ scan[m] = <<chain[blk[m]], Place(blk[m])[off[m]]>>
  <2> TAKE m \in 1 .. L
  <2>1. /\ blk[m] \in 1 .. n /\ off[m] \in 1 .. Len(seqs[blk[m]])
        /\ scan[m] = seqs[blk[m]][off[m]]
    BY <1>13
  <2> QED BY <2>1, <1>14
<1>16. \A w \in W : \E m \in 1 .. L : scan[m] = w
  <2> TAKE w \in W
  <2>1. PICK p \in PageIds : \E i \in 1 .. Len(h.pages[p].slots) : w = <<p, i>>
    BY <1>5 DEF SlotsOf
  <2>2. PICK i \in 1 .. Len(h.pages[p].slots) : w = <<p, i>>
    BY <2>1
  <2>3. p \in ChainNodes(c, n)
    <3>1. SUFFICES ASSUME p \notin ChainNodes(c, n) PROVE FALSE
      OBVIOUS
    <3>2. h.pages[p] = NewHeapPage
      BY <1>1, <3>1 DEF ChainOf
    <3>3. Len(NewHeapPage.slots) = 0
      BY NewHeapPageInv
    <3> QED BY <2>2, <3>2, <3>3
  <2>4. PICK b \in 1 .. n : chain[b] = p
    BY <2>3, <1>2 DEF Range
  <2>5. SlotsIn(chain[b])[i] \in W /\ i \in 1 .. Len(h.pages[chain[b]].slots)
    BY <2>2, <2>4, <1>5
  <2>6. PICK j \in 1 .. Len(seqs[b]) : Place(b)[j] = i
    BY <2>5, <1>12 DEF CollectedAt
  <2>7. PICK m \in 1 .. L : blk[m] = b /\ off[m] = j
    BY <1>13b, Zenon
  <2>8. scan[m] = <<p, i>>
    BY <2>4, <2>6, <2>7, <1>15
  <2> QED BY <2>2, <2>8
<1>17. \A l, m \in 1 .. L : l < m => scan[l] # scan[m]
  <2> SUFFICES ASSUME NEW l \in 1 .. L, NEW m \in 1 .. L, l < m, scan[l] = scan[m]
               PROVE  FALSE
    OBVIOUS
  <2>0. scan[l] = scan[m]
    OBVIOUS
  <2>1. chain[blk[l]] = chain[blk[m]] /\ Place(blk[l])[off[l]] = Place(blk[m])[off[m]]
    <3>1. scan[l] = <<chain[blk[l]], Place(blk[l])[off[l]]>>
      BY <1>15
    <3>2. scan[m] = <<chain[blk[m]], Place(blk[m])[off[m]]>>
      BY <1>15
    <3>3. <<chain[blk[l]], Place(blk[l])[off[l]]>> = <<chain[blk[m]], Place(blk[m])[off[m]]>>
      BY <2>0, <3>1, <3>2
    <3> QED BY <3>3
  <2>2. blk[l] = blk[m]
    BY <2>1, <1>4, <1>13
  <2>3. blk[l] \in 1 .. n /\ off[l] \in 1 .. Len(seqs[blk[l]]) /\ off[m] \in 1 .. Len(seqs[blk[l]])
    BY <2>2, <1>13
  <2>4. off[l] < off[m]
    <3>1. blk[l] \in Int
      BY <2>3
    <3> QED BY <2>2, <3>1, <1>13
  <2>5. Place(blk[l])[off[l]] < Place(blk[l])[off[m]] /\ Place(blk[l])[off[l]] \in Int
    BY <2>3, <2>4, <1>12, <1>14 DEF CollectedAt
  <2> QED BY <2>1, <2>2, <2>5
<1>18. scan \in Seq(W)
  <2>1. scan = [m \in 1 .. L |-> scan[m]]
    BY <1>10, <1>13a
  <2>2. \A m \in 1 .. L : scan[m] \in W
    BY <1>15
  <2> QED BY <2>1, <2>2, <1>13a
<1>19. Range(scan) = W
  <2>1. Range(scan) = {scan[m] : m \in 1 .. L}
    BY <1>13a DEF Range
  <2>2. Range(scan) \subseteq W
    BY <2>1, <1>15
  <2>3. W \subseteq Range(scan)
    BY <2>1, <1>16
  <2> QED BY <2>2, <2>3
<1>20. IsInjective(scan)
  <2> SUFFICES ASSUME NEW l \in 1 .. L, NEW m \in 1 .. L, scan[l] = scan[m] PROVE l = m
    BY <1>13a DEF IsInjective
  <2>1. l # m => l < m \/ m < l
    OBVIOUS
  <2> QED BY <2>1, <1>17
<1> QED BY <1>18, <1>19, <1>20 DEF scan

-----------------------------------------------------------------------------
(* A new heap *)

(* The heap of a new file. *)
LEMMA NewHeapInv ==
  HeapInv(NewHeap) /\ LiveIn(NewHeap) = {} /\ Range(HeapChain(NewHeap)) = {FirstHeapPage}
<1> DEFINE c == [k \in 0 .. 1 |-> IF k = 0 THEN 1 ELSE 0]
           heap == NewHeap
<1>1. heap = [pages |-> [p \in PageIds |-> NewHeapPage], last |-> 1]
  BY HeapConstants DEF NewHeap
<1> HIDE DEF heap
<1>2. /\ heap \in [pages : [PageIds -> HeapPage], last : PageIds]
      /\ \A p \in PageIds : heap.pages[p] = NewHeapPage
      /\ \A p \in PageIds : PageInv(heap.pages[p]) /\ heap.last = 1
  BY <1>1, NewHeapPageInv, HeapConstants DEF PageInv
<1>3. ChainOf(heap, c, 1)
  <2>1. 0 .. 1 - 1 = {0} /\ c[0] = 1 /\ c[1] = 0 /\ c \in [0 .. 1 -> {0, 1}]
    OBVIOUS
  <2>2. DOMAIN NextPageOf(heap) = PageIds /\ NextPageOf(heap)[1] = 0
    BY <1>2, NewHeapPageInv, HeapConstants DEF NextPageOf
  <2> HIDE DEF c
  <2>3. c \in [0 .. 1 -> PageIds \cup {0}]
    BY <2>1, HeapConstants
  <2>4. IsChain(NextPageOf(heap), FirstHeapPage, c, 1)
    BY <2>1, <2>2, <2>3, HeapConstants DEF IsChain
  <2>5. ChainNodes(c, 1) = {1}
    BY <2>1 DEF ChainNodes
  <2> QED BY <2>1, <2>4, <2>5, <1>2 DEF ChainOf
<1>4. LiveIn(heap) = {}
  <2>1. \A p, i : ~AliveAt(heap, p, i)
    BY <1>2, NewHeapPageInv DEF AliveAt
  <2>2. \A x : x \notin LiveIn(heap)
    BY <1>2, <2>1, LiveRow
  <2> QED BY <2>2
<1>5. Range(HeapChain(heap)) = {FirstHeapPage}
  <2>1. 0 .. 1 - 1 = {0} /\ c[0] = 1
    OBVIOUS
  <2>2. ChainNodes(c, 1) = {1}
    BY <2>1 DEF ChainNodes
  <2> QED BY <2>2, <1>3, ChainPages, HeapConstants
<1> QED BY <1>2, <1>3, <1>4, <1>5 DEF HeapInv, heap

=============================================================================
