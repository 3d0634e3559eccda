--------------------------- MODULE DatabaseProofs ---------------------------
(***************************************************************************)
(* The whole storage engine for every page size, row size, fan-out and     *)
(* file size: after every statement the B+ tree and the heap hold the same *)
(* rows, tree, heap and free list share out the file, and the statements   *)
(* act on the rows as module Table says.  Then the same engine in a        *)
(* process that may die (module Recovery): what is in the file at any      *)
(* moment, and what a process that starts from it finds.                   *)
(***************************************************************************)
EXTENDS Recovery, BPTreeProofs, HeapCoreProofs

-----------------------------------------------------------------------------
(* The invariant between and within statements *)

Inserting(s) == s.kind \in {"insert", "inserted"}
RowIsGone(s) == s.kind \in {"unindex", "deleted"}

StatementType ==
  [kind : {"none", "insert", "inserted", "delete", "unindex", "deleted"},
   ids : Seq(Keys), ref : Refs \cup {NoStatement.ref}]

(* Only a statement that has just changed the index waits for bptree.c.    *)
StatementIsSound(s, c, next) ==
  /\ s \in StatementType
  /\ s.kind = "none" => s = NoStatement
  /\ s.kind \notin {"inserted", "deleted"} => c = Idle
  /\ RowIsGone(s) => s.ids # <<>>
  /\ next \in 1 .. MaxKey + 1 /\ (Inserting(s) => next \in Keys)

NextId(s, next) == IF Inserting(s) THEN next + 1 ELSE next

(* L: the live rows with their references.  Ids are unique and older than  *)
(* the counter; the row a DELETE is at has gone.                           *)
RowsAreNumbered(L, s, next) ==
  /\ \A a, b \in L : a[2].id = b[2].id => a = b
  /\ \A a \in L : a[2].id < NextId(s, next)
  /\ RowIsGone(s) => \A a \in L : a[2].id # s.ids[1]

(* D: the index.  It has all live rows but the one not yet indexed, and    *)
(* nothing else but the one not yet taken out.                             *)
IdRefs(L) == {<<a[2].id, a[1]>> : a \in L}
RowsAreIndexed(D, L, s, next) ==
  /\ s.kind \in {"none", "inserted", "delete", "deleted"} => D = IdRefs(L)
  /\ s.kind = "insert" => /\ s.ref \in Refs /\ <<next, s.ref>> \in IdRefs(L)
                          /\ D = IdRefs(L) \ {<<next, s.ref>>}
  /\ s.kind = "unindex" => \E ref \in Refs : D = IdRefs(L) \cup {<<s.ids[1], ref>>}

RowsAreCounted(count, refs, s) ==
  /\ IsFiniteSet(refs)
  /\ count = IF Inserting(s) THEN Cardinality(refs) - 1
             ELSE IF RowIsGone(s) THEN Cardinality(refs) + 1 ELSE Cardinality(refs)

DataInv ==
  /\ StatementIsSound(stmt, call, next_id)
  /\ RowsAreNumbered(LiveIn(heap), stmt, next_id)
  /\ RowsAreIndexed(Dictionary, LiveIn(heap), stmt, next_id)
  /\ RowsAreCounted(row_count, LiveSlots(heap), stmt)

(* The pages of type HEAP are those of the heap's chain, and the others    *)
(* are a sound tree and a sound free list.                                 *)
HeapPages(hp) == hp = Range(HeapChain(heap))
FileInv == \E hp : HeapPages(hp) /\ TreeInv(hp)

DbInv == FileInv /\ HeapInv(heap) /\ DataInv

-----------------------------------------------------------------------------
(* Live rows *)

(* A live row is a slot of the heap and a record of the table, and its     *)
(* reference is one the index can hold.                                    *)
LEMMA LiveFacts ==
  ASSUME NEW h, HeapInv(h), NEW a \in LiveIn(h)
  PROVE  /\ a[1] \in LiveSlots(h) /\ a[1] \in SlotsOf(h) /\ IsAlive(h, a[1])
         /\ a = <<a[1], a[2]>> /\ a[2] = SlotAt(h, a[1]).row
         /\ a[1] \in Refs /\ a[2] \in Rows /\ a[2].id \in Keys /\ a[2].val \in Vals
         /\ a[2] = [id |-> a[2].id, val |-> a[2].val]
<1>1. PICK ref \in LiveSlots(h) : a = <<ref, SlotAt(h, ref).row>>
  BY DEF LiveIn
<1>2. /\ a[1] = ref /\ a[2] = SlotAt(h, ref).row /\ a = <<a[1], a[2]>>
      /\ ref \in SlotsOf(h) /\ IsAlive(h, ref)
  BY <1>1 DEF LiveSlots
<1>3. PICK p, i : AliveAt(h, p, i) /\ a = PairAt(h, p, i)
  BY LiveRow DEF HeapInv
<1>4. p \in PageIds /\ i \in 1 .. Len(h.pages[p].slots) /\ a[1] = <<p, i>>
      /\ a[2] = h.pages[p].slots[i].row
  BY <1>3 DEF AliveAt, PairAt
<1>5. h.pages[p].slots[i] \in Slot /\ PageInv(h.pages[p])
  BY <1>4, SlotFacts DEF HeapInv
<1>6. a[2] \in Rows
  BY <1>4, <1>5 DEF Slot
<1>7. a[2].id \in Keys /\ a[2].val \in Vals /\ a[2] = [id |-> a[2].id, val |-> a[2].val]
  BY <1>6, DatabaseAssumption
<1>8. a[1] \in Refs
  <2> DEFINE count == Len(h.pages[p].slots)
             room == SlotSize + RowSize
  <2>1. HeapHeaderSize + count * room <= PageSize /\ count \in Nat /\ i \in 1 .. count
    BY <1>4, <1>5, SlotFacts DEF PageInv, SlotsAreSpaced
  <2>2. room \in Nat /\ room > 1 /\ HeapHeaderSize \in Nat /\ PageSize \in Nat
    BY HeapConstants
  <2> HIDE DEF count, room
  <2>3. /\ i \in Nat /\ i >= 1 /\ i * room \in Nat /\ count * room \in Nat
        /\ i < count => i * room + room <= count * room
    BY <2>1, <2>2, Multiples
  <2>4. i * room <= count * room
    BY <2>1, <2>2, <2>3
  <2>5. i <= i * room
    BY <2>2, <2>3, Z3
  <2>6. HeapHeaderSize + i * room <= PageSize /\ i \in 1 .. PageSize
    BY <2>1, <2>2, <2>3, <2>4, <2>5
  <2> QED BY <1>4, <2>6, DatabaseAssumption DEF room
<1> QED BY <1>1, <1>2, <1>6, <1>7, <1>8

(* A live row is known by its reference. *)
LEMMA LiveReferences ==
  ASSUME NEW h
  PROVE  /\ LiveSlots(h) = {a[1] : a \in LiveIn(h)}
         /\ \A a, b \in LiveIn(h) : a[1] = b[1] => a = b
         /\ \A ref \in LiveSlots(h) : <<ref, SlotAt(h, ref).row>> \in LiveIn(h)
<1>1. \A a \in LiveIn(h) : a[1] \in LiveSlots(h) /\ a = <<a[1], SlotAt(h, a[1]).row>>
  BY DEF LiveIn
<1>2. \A ref \in LiveSlots(h) : <<ref, SlotAt(h, ref).row>> \in LiveIn(h)
  BY DEF LiveIn
<1>3. \A ref : <<ref, SlotAt(h, ref).row>>[1] = ref
  OBVIOUS
<1> QED BY <1>1, <1>2, <1>3
-----------------------------------------------------------------------------
(* What the user sees *)

VisibleOf(L, s) ==
  {a[2] : a \in {b \in L : s.kind \in {"delete", "unindex", "deleted"} => b[2].id \notin Range(s.ids)}}

TableStep == User!TableInsert \/ User!TableDelete \/ UNCHANGED <<VisibleRows, VisibleNextId>>

(* What the user sees is a matter of the live rows and of the place the    *)
(* statement is at.                                                        *)
LEMMA VisibleIs ==
  /\ VisibleRows = VisibleOf(LiveIn(heap), stmt)
  /\ VisibleRows' = VisibleOf(LiveIn(heap'), stmt')
  /\ VisibleNextId = NextId(stmt, next_id)
  /\ VisibleNextId' = NextId(stmt', next_id')
<1>1. ASSUME NEW h, NEW s
      PROVE  VisibleOf(LiveIn(h), s)
               = {SlotAt(h, ref).row : ref \in
                   {live \in LiveSlots(h) : s.kind \in {"delete", "unindex", "deleted"}
                                              => SlotAt(h, live).row.id \notin Range(s.ids)}}
  <2>1. ASSUME NEW ref \in LiveSlots(h)
        PROVE  \E a \in LiveIn(h) : a[1] = ref /\ a[2] = SlotAt(h, ref).row
    <3> DEFINE a == <<ref, SlotAt(h, ref).row>>
    <3>1. a \in LiveIn(h)
      BY LiveReferences
    <3>2. a[1] = ref /\ a[2] = SlotAt(h, ref).row
      OBVIOUS
    <3> QED BY <3>1, <3>2
  <2>2. \A a \in LiveIn(h) : a[1] \in LiveSlots(h) /\ a[2] = SlotAt(h, a[1]).row
    BY DEF LiveIn
  <2> QED BY <2>1, <2>2 DEF VisibleOf
<1>2. VisibleRows = VisibleOf(LiveIn(heap), stmt)
  BY <1>1 DEF VisibleRows, RowAt, LiveRefs, Deleting
<1>3. VisibleRows' = VisibleOf(LiveIn(heap'), stmt')
  BY <1>1 DEF VisibleRows, RowAt, LiveRefs, Deleting
<1> QED BY <1>2, <1>3 DEF VisibleNextId, NextId, Inserting

-----------------------------------------------------------------------------
(* The statements *)

(* A step of the executor alone leaves file and index as they are. *)
LEMMA FileStays ==
  ASSUME FileInv, UNCHANGED <<vars, heap>>
  PROVE  FileInv' /\ Dictionary' = Dictionary
<1>1. PICK hp : HeapPages(hp) /\ TreeInv(hp)
  BY DEF FileInv
<1>2. TreeInv(hp)' /\ Dictionary' = Dictionary
  BY <1>1, StutterKeeps
<1>3. HeapPages(hp)'
  BY <1>1 DEF HeapPages
<1> QED BY <1>2, <1>3 DEF FileInv

(* The parts of a statement that does nothing else. *)
LEMMA StatementFacts ==
  ASSUME NEW kind, NEW ids, NEW ref
  PROVE  LET s == Statement(kind, ids, ref)
         IN  s.kind = kind /\ s.ids = ids /\ s.ref = ref
BY DEF Statement

(* Nothing happens. *)
LEMMA StutterKeepsDb ==
  ASSUME DbInv, UNCHANGED <<vars, heap, next_id, row_count, stmt>>
  PROVE  DbInv' /\ TableStep
<1>1. FileInv' /\ Dictionary' = Dictionary
  BY FileStays DEF DbInv
<1>2. heap' = heap /\ next_id' = next_id /\ row_count' = row_count /\ stmt' = stmt /\ call' = call
  BY DEF vars
<1>3. HeapInv(heap)' /\ DataInv'
  BY <1>1, <1>2 DEF DbInv, DataInv
<1>4. TableStep
  BY <1>2, VisibleIs DEF TableStep
<1> QED BY <1>1, <1>3, <1>4 DEF DbInv

(* heap_insert puts the row under a reference that no live row has, on a   *)
(* page of the heap or on one the allocator gives away.                    *)
LEMMA InsertWrites ==
  ASSUME FileInv, HeapInv(heap), NEW v \in Vals, InsertRow(v)
  PROVE  /\ RowInserted(heap, heap', stmt'.ref, [id |-> next_id, val |-> v])
         /\ \/ HeapChain(heap') = HeapChain(heap)
            \/ \E new \in PageIds \ Range(HeapChain(heap)) :
                  HeapChain(heap') = Append(HeapChain(heap), new)
         /\ FileInv' /\ Dictionary' = Dictionary
<1> DEFINE row == [id |-> next_id, val |-> v]
<1>1. /\ stmt = NoStatement /\ call = Idle /\ next_id \in Keys /\ call' = call
      /\ NeedsPage(heap) => MayAlloc
      /\ heap' = HeapInsert(heap, row, NewPage)
      /\ stmt'.ref = InsertedRef(heap, NewPage)
  BY DEF InsertRow, Ready, Statement
<1>2. row \in Rows
  BY <1>1, DatabaseAssumption
<1> HIDE DEF row
<1>3. PICK hp : HeapPages(hp) /\ TreeInv(hp)
  BY DEF FileInv
<1>4. CASE NeedsPage(heap)
  <2> DEFINE y == NewPage
  <2>1. /\ pages' = [pages EXCEPT ![NewPage] = [ZeroNode EXCEPT !.type = "HEAP"]]
        /\ header' = HeaderAfterAlloc
    BY <1>4 DEF InsertRow
  <2>2. PICK new : new = NewPage
    OBVIOUS
  <2>3. /\ TreeInv(hp \cup {new})' /\ Dictionary' = Dictionary /\ new \in PageIds \ hp
    BY <1>1, <1>3, <1>4, <2>1, <2>2, HeapGrows
  <2>4. /\ RowInserted(heap, HeapInsert(heap, row, new), InsertedRef(heap, new), row)
        /\ Range(HeapChain(HeapInsert(heap, row, new))) = Range(HeapChain(heap)) \cup {new}
        /\ HeapChain(HeapInsert(heap, row, new)) = Append(HeapChain(heap), new)
    BY <1>2, <1>3, <1>4, <2>3, InsertInNewPage DEF HeapPages
  <2>5. HeapPages(hp \cup {new})'
    BY <1>1, <1>3, <2>2, <2>4 DEF HeapPages
  <2>6. HeapChain(heap') = Append(HeapChain(heap), new) /\ new \in PageIds \ Range(HeapChain(heap))
    BY <1>1, <1>3, <2>2, <2>3, <2>4 DEF HeapPages
  <2> QED BY <1>1, <2>2, <2>3, <2>4, <2>5, <2>6 DEF FileInv, row
<1>5. CASE ~NeedsPage(heap)
  <2>1. UNCHANGED vars
    BY <1>1, <1>5 DEF InsertRow, vars
  <2>2. TreeInv(hp)' /\ Dictionary' = Dictionary
    BY <1>3, <2>1, StutterKeeps
  <2>3. /\ RowInserted(heap, heap', InsertedRef(heap, NewPage), row)
        /\ HeapChain(heap') = HeapChain(heap)
    BY <1>1, <1>2, <1>5, InsertInPage
  <2>4. HeapPages(hp)'
    BY <1>3, <2>3 DEF HeapPages
  <2> QED BY <1>1, <2>2, <2>3, <2>4 DEF FileInv, row
<1> QED BY <1>4, <1>5

(* heap_insert: the new row is live, not indexed and not yet counted, and  *)
(* the user sees it from here on.                                          *)
LEMMA InsertRowKeeps ==
  ASSUME DbInv, NEW v \in Vals, InsertRow(v)
  PROVE  DbInv' /\ TableStep
<1> DEFINE row == [id |-> next_id, val |-> v]
           L == LiveIn(heap)
           new == <<stmt'.ref, row>>
<1>1. /\ stmt = NoStatement /\ call = Idle /\ next_id \in Keys /\ call' = call
      /\ stmt'.kind = "insert" /\ stmt'.ids = <<>> /\ next_id' = next_id
      /\ stmt' = Statement("insert", <<>>, stmt'.ref) /\ row_count' = row_count
  BY DEF InsertRow, Ready, Statement, meta
<1>2. stmt.kind = "none" /\ stmt.ids = <<>>
  BY <1>1 DEF NoStatement, Statement
<1>3. /\ LiveIn(heap') = L \cup {new} /\ HeapInv(heap')
      /\ \A a \in L : a[1] # stmt'.ref
      /\ FileInv' /\ Dictionary' = Dictionary
  BY InsertWrites DEF RowInserted, DbInv
<1>4. new[1] = stmt'.ref /\ new[2] = row /\ row.id = next_id /\ row.val = v
  OBVIOUS
<1>5. \A a \in L : a[2].id \in Keys /\ a[2].id < next_id
  BY <1>2, LiveFacts DEF DbInv, DataInv, RowsAreNumbered, NextId, Inserting
<1>6. stmt'.ref \in Refs
  BY <1>3, <1>4, LiveFacts
<1>7. next_id \in Nat /\ next_id < next_id + 1 /\ Keys \subseteq Nat /\ MaxKey \in Nat
  BY <1>1, SizeFacts DEF Keys
<1> HIDE DEF L, new, row
<1>8. StatementIsSound(stmt', call', next_id')
  <2>1. <<>> \in Seq(Keys)
    OBVIOUS
  <2>2. stmt' \in StatementType
    BY <1>1, <1>6, <2>1 DEF StatementType, Statement
  <2> QED BY <1>1, <1>7, <2>2 DEF StatementIsSound, Inserting, RowIsGone, Keys
<1>9. RowsAreNumbered(LiveIn(heap'), stmt', next_id')
  <2>1. NextId(stmt', next_id') = next_id + 1
    BY <1>1 DEF NextId, Inserting
  <2>2. ASSUME NEW a \in L \cup {new} PROVE a[2].id < next_id + 1
    <3>1. CASE a \in L
      <4>1. a[2].id \in Nat /\ a[2].id < next_id
        BY <3>1, <1>5, <1>7
      <4> QED BY <4>1, <1>7
    <3>2. CASE a = new
      <4>1. a[2].id = next_id
        BY <3>2, <1>4
      <4> QED BY <4>1, <1>7
    <3> QED BY <3>1, <3>2
  <2>3. \A a, b \in L : a[2].id = b[2].id => a = b
    BY DEF DbInv, DataInv, RowsAreNumbered, L
  <2>4. \A a, b \in L \cup {new} : a[2].id = b[2].id => a = b
    BY <2>3, <1>4, <1>5, <1>7
  <2> QED BY <1>1, <1>3, <2>1, <2>2, <2>4 DEF RowsAreNumbered, RowIsGone
<1>10. RowsAreIndexed(Dictionary', LiveIn(heap'), stmt', next_id')
  <2>1. Dictionary = IdRefs(L)
    BY <1>2 DEF DbInv, DataInv, RowsAreIndexed, L
  <2>2. IdRefs(L \cup {new}) = IdRefs(L) \cup {<<next_id, stmt'.ref>>}
    BY <1>4 DEF IdRefs
  <2>3. <<next_id, stmt'.ref>> \notin IdRefs(L)
    BY <1>5, <1>7 DEF IdRefs
  <2> QED BY <1>1, <1>3, <1>6, <2>1, <2>2, <2>3 DEF RowsAreIndexed
<1>11. RowsAreCounted(row_count', LiveSlots(heap'), stmt')
  <2>1. LiveSlots(heap') = LiveSlots(heap) \cup {stmt'.ref} /\ stmt'.ref \notin LiveSlots(heap)
    BY <1>3, <1>4, LiveReferences DEF L
  <2>2. IsFiniteSet(LiveSlots(heap)) /\ row_count = Cardinality(LiveSlots(heap))
    BY <1>2 DEF DbInv, DataInv, RowsAreCounted, Inserting, RowIsGone
  <2>3. /\ IsFiniteSet(LiveSlots(heap')) /\ Cardinality(LiveSlots(heap)) \in Nat
        /\ Cardinality(LiveSlots(heap')) = Cardinality(LiveSlots(heap)) + 1
    BY <2>1, <2>2, FS_AddElement, FS_CardinalityType
  <2> QED BY <1>1, <2>2, <2>3 DEF RowsAreCounted, Inserting
<1>12. TableStep
  <2>1. VisibleRows = {a[2] : a \in L} /\ VisibleRows' = {a[2] : a \in L \cup {new}}
    BY <1>1, <1>2, <1>3, VisibleIs DEF VisibleOf, L
  <2>2. VisibleRows' = VisibleRows \cup {[id |-> VisibleNextId, val |-> v]}
    BY <1>2, <1>4, <2>1, VisibleIs DEF NextId, Inserting, row
  <2>3. VisibleNextId' = VisibleNextId + 1
    BY <1>1, <1>2, VisibleIs DEF NextId, Inserting
  <2> QED BY <2>2, <2>3 DEF TableStep, User!TableInsert
<1> QED BY <1>3, <1>8, <1>9, <1>10, <1>11, <1>12 DEF DbInv, DataInv

(* A statement changes its own place and nothing else. *)
LEMMA OnlyTheStatement ==
  ASSUME DbInv, UNCHANGED <<vars, heap, next_id, row_count>>,
         StatementIsSound(stmt', call, next_id),
         RowsAreNumbered(LiveIn(heap), stmt', next_id),
         RowsAreIndexed(Dictionary, LiveIn(heap), stmt', next_id),
         RowsAreCounted(row_count, LiveSlots(heap), stmt')
  PROVE  DbInv'
<1>1. FileInv' /\ Dictionary' = Dictionary
  BY FileStays DEF DbInv
<1>2. heap' = heap /\ next_id' = next_id /\ row_count' = row_count /\ call' = call
  BY DEF vars
<1>3. HeapInv(heap)' /\ DataInv'
  BY <1>1, <1>2 DEF DbInv, DataInv
<1> QED BY <1>1, <1>3 DEF DbInv

(* A DELETE has collected its ids. *)
LEMMA DeleteStarts ==
  ASSUME DbInv, Ready, UNCHANGED <<vars, heap, next_id, row_count>>,
         stmt' = Statement("delete", stmt'.ids, NoStatement.ref), stmt'.ids \in Seq(Keys)
  PROVE  /\ DbInv' /\ VisibleNextId' = VisibleNextId
         /\ VisibleRows = {a[2] : a \in LiveIn(heap)}
         /\ VisibleRows' = {a[2] : a \in {b \in LiveIn(heap) : b[2].id \notin Range(stmt'.ids)}}
<1>1. /\ stmt.kind = "none" /\ stmt.ids = <<>> /\ call = Idle
      /\ stmt'.kind = "delete" /\ stmt'.ref = NoStatement.ref
  BY DEF Ready, NoStatement, Statement
<1>2. stmt' \in StatementType
  BY DEF StatementType, Statement
<1>3. DataInv
  BY DEF DbInv
<1>4. StatementIsSound(stmt', call, next_id)
  BY <1>1, <1>2, <1>3 DEF DataInv, StatementIsSound, Inserting, RowIsGone
<1>5. RowsAreNumbered(LiveIn(heap), stmt', next_id)
  BY <1>1, <1>3 DEF DataInv, RowsAreNumbered, Inserting, RowIsGone, NextId
<1>6. RowsAreIndexed(Dictionary, LiveIn(heap), stmt', next_id)
  BY <1>1, <1>3 DEF DataInv, RowsAreIndexed
<1>7. RowsAreCounted(row_count, LiveSlots(heap), stmt')
  BY <1>1, <1>3 DEF DataInv, RowsAreCounted, Inserting, RowIsGone
<1>8. DbInv'
  BY <1>4, <1>5, <1>6, <1>7, OnlyTheStatement
<1>9. heap' = heap /\ next_id' = next_id
  OBVIOUS
<1>10. VisibleNextId' = VisibleNextId
  BY <1>1, <1>9, VisibleIs DEF NextId, Inserting
<1>11. VisibleRows = {a[2] : a \in LiveIn(heap)}
  BY <1>1, VisibleIs DEF VisibleOf
<1>12. VisibleRows' = {a[2] : a \in {b \in LiveIn(heap) : b[2].id \notin Range(stmt'.ids)}}
  BY <1>1, <1>9, VisibleIs DEF VisibleOf
<1> QED BY <1>8, <1>10, <1>11, <1>12

(* A DELETE by id selects the one row of that id, if there is one. *)
LEMMA DeleteByIdKeeps ==
  ASSUME DbInv, NEW k \in Keys, DeleteById(k)
  PROVE  DbInv' /\ TableStep
<1>1. /\ Ready /\ Search(k) # {} /\ UNCHANGED <<vars, heap, next_id, row_count>>
      /\ stmt' = Statement("delete", <<k>>, NoStatement.ref)
  BY DEF DeleteById, meta
<1>2. stmt'.ids = <<k>>
  BY <1>1, StatementFacts
<1>3. <<k>> \in Seq(Keys) /\ Range(<<k>>) = {k}
  BY DEF Range
<1>4. /\ DbInv' /\ VisibleNextId' = VisibleNextId
      /\ VisibleRows = {a[2] : a \in LiveIn(heap)}
      /\ VisibleRows' = {a[2] : a \in {b \in LiveIn(heap) : b[2].id \notin Range(stmt'.ids)}}
  BY <1>1, <1>2, <1>3, DeleteStarts
<1>5. call = Idle /\ stmt.kind = "none"
  BY <1>1 DEF Ready, NoStatement, Statement
<1>6. PICK hp : TreeInv(hp)
  BY DEF DbInv, FileInv
<1>7. PICK ref : <<k, ref>> \in Dictionary
  BY <1>1, <1>5, <1>6, SearchFacts
<1>8. Dictionary = IdRefs(LiveIn(heap))
  BY <1>5 DEF DbInv, DataInv, RowsAreIndexed
<1>9. PICK a \in LiveIn(heap) : a[2].id = k
  BY <1>7, <1>8 DEF IdRefs
<1>10. \A b \in LiveIn(heap) : b[2].id = k <=> b[2] = a[2]
  BY <1>9 DEF DbInv, DataInv, RowsAreNumbered
<1>11. VisibleRows' = VisibleRows \ {a[2]} /\ a[2] \in VisibleRows
  BY <1>2, <1>3, <1>4, <1>9, <1>10
<1> QED BY <1>4, <1>11 DEF TableStep, User!TableDelete

(* The ids that delete_scan_cb collects are those of the rows it wants.    *)
LEMMA IdsCollected ==
  ASSUME HeapInv(heap), NEW selected, DeleteMatching(selected)
  PROVE  /\ Ready /\ UNCHANGED <<vars, heap, next_id, row_count>>
         /\ stmt' = Statement("delete", stmt'.ids, NoStatement.ref) /\ stmt'.ids \in Seq(Keys)
         /\ \A k : k \in Range(stmt'.ids)
                     <=> \E a \in LiveIn(heap) : a[2].id = k /\ a[2].val \in selected
<1> DEFINE W == {ref \in LiveRefs : RowAt(ref).val \in selected}
           refs == ScanFor(heap, W)
           L == LiveIn(heap)
<1>1. /\ Ready /\ UNCHANGED <<vars, heap, next_id, row_count>>
      /\ stmt' = Statement("delete", [i \in DOMAIN refs |-> RowAt(refs[i]).id], NoStatement.ref)
  BY DEF DeleteMatching, meta
<1>2. stmt'.ids = [i \in DOMAIN refs |-> RowAt(refs[i]).id]
  BY <1>1, StatementFacts
<1>3. W \subseteq SlotsOf(heap) /\ W \subseteq LiveSlots(heap)
  BY DEF LiveRefs, LiveSlots
<1>4. refs \in Seq(W) /\ Range(refs) = W
  BY <1>3, ScanFacts
<1>5. \A ref \in LiveSlots(heap) : \E a \in L : a[1] = ref /\ a[2] = RowAt(ref)
  <2> TAKE ref \in LiveSlots(heap)
  <2> DEFINE a == <<ref, RowAt(ref)>>
  <2>1. a \in L /\ a[1] = ref /\ a[2] = RowAt(ref)
    BY LiveReferences DEF RowAt
  <2> QED BY <2>1
<1>6. \A a \in L : a[1] \in LiveSlots(heap) /\ a[2] = RowAt(a[1]) /\ a[2].id \in Keys
  BY LiveFacts DEF RowAt
<1> HIDE DEF W, refs, L
<1>7. stmt'.ids \in Seq(Keys) /\ Range(stmt'.ids) = {RowAt(ref).id : ref \in W}
  <2>1. DOMAIN refs = 1 .. Len(refs) /\ Len(refs) \in Nat /\ \A i \in DOMAIN refs : refs[i] \in W
    BY <1>4
  <2>2. \A i \in DOMAIN refs : RowAt(refs[i]).id \in Keys
    BY <1>3, <1>5, <1>6, <2>1
  <2>3. stmt'.ids \in Seq(Keys)
    BY <1>2, <2>1, <2>2
  <2>4. \A ref \in W : \E i \in DOMAIN refs : refs[i] = ref
    BY <1>4 DEF Range
  <2>5. Range(stmt'.ids) = {RowAt(ref).id : ref \in W}
    BY <1>2, <2>1, <2>4 DEF Range
  <2> QED BY <2>3, <2>5
<1>8. stmt' = Statement("delete", stmt'.ids, NoStatement.ref)
  BY <1>1, <1>2
<1>9. ASSUME NEW k
      PROVE  k \in Range(stmt'.ids) <=> \E a \in L : a[2].id = k /\ a[2].val \in selected
  <2>1. ASSUME NEW a \in L, a[2].id = k, a[2].val \in selected PROVE k \in Range(stmt'.ids)
    <3>1. a[1] \in W
      BY <1>6, <2>1 DEF W, LiveRefs
    <3> QED BY <3>1, <1>6, <1>7, <2>1
  <2>2. ASSUME k \in Range(stmt'.ids) PROVE \E a \in L : a[2].id = k /\ a[2].val \in selected
    <3>1. PICK ref \in W : k = RowAt(ref).id
      BY <1>7, <2>2
    <3>2. ref \in LiveSlots(heap) /\ RowAt(ref).val \in selected
      BY <3>1 DEF W, LiveRefs
    <3> QED BY <3>1, <3>2, <1>5
  <2> QED BY <2>1, <2>2
<1> QED BY <1>1, <1>7, <1>8, <1>9 DEF L

(* A DELETE without WHERE or on a user column.                             *)
LEMMA DeleteMatchingKeeps ==
  ASSUME DbInv, NEW selected, DeleteMatching(selected)
  PROVE  /\ DbInv' /\ VisibleNextId' = VisibleNextId
         /\ VisibleRows' = {row \in VisibleRows : row.val \notin selected}
         /\ \A row \in VisibleRows : row.val \in Vals
<1> DEFINE L == LiveIn(heap)
<1>1. HeapInv(heap)
  BY DEF DbInv
<1>2. /\ Ready /\ UNCHANGED <<vars, heap, next_id, row_count>>
      /\ stmt' = Statement("delete", stmt'.ids, NoStatement.ref) /\ stmt'.ids \in Seq(Keys)
      /\ \A k : k \in Range(stmt'.ids) <=> \E a \in L : a[2].id = k /\ a[2].val \in selected
  BY <1>1, IdsCollected
<1>3. /\ DbInv' /\ VisibleNextId' = VisibleNextId
      /\ VisibleRows = {a[2] : a \in L}
      /\ VisibleRows' = {a[2] : a \in {b \in L : b[2].id \notin Range(stmt'.ids)}}
  BY <1>2, DeleteStarts
<1>4. \A b \in L : b[2].id \in Range(stmt'.ids) <=> b[2].val \in selected
  BY <1>2 DEF DbInv, DataInv, RowsAreNumbered
<1>5. \A b \in L : b[2].val \in Vals
  BY <1>1, LiveFacts
<1> HIDE DEF L
<1>6. VisibleRows' = {row \in VisibleRows : row.val \notin selected}
  BY <1>3, <1>4
<1> QED BY <1>3, <1>5, <1>6

(* The index call that a statement is at, or that it waits for. *)
LEMMA IndexChanges ==
  ASSUME FileInv, heap' = heap, NEW D,
         \A hp : TreeInv(hp) => TreeInv(hp)' /\ Dictionary' = D
  PROVE  FileInv' /\ Dictionary' = D
<1>1. PICK hp : HeapPages(hp) /\ TreeInv(hp)
  BY DEF FileInv
<1>2. HeapPages(hp)'
  BY <1>1 DEF HeapPages
<1> QED BY <1>1, <1>2 DEF FileInv

(* A call in progress is not Idle. *)
LEMMA ContinueIsNotIdle ==
  ASSUME Continue
  PROVE  call # Idle
<1>1. call.fn \in {"insert_into_parent", "fix_leaf_after_delete", "fix_internal_after_delete"}
  BY DEF Continue, GrowRoot, InsertSeparator, SplitInternal, LeaveLeaf, BorrowRight, BorrowLeft,
         MergeIntoLeft, MergeRight, MergeMissingSibling, ShrinkRoot, LeaveInternal,
         MustMerge, Repair
<1> QED BY <1>1 DEF Idle, Call

(* bptree.c goes on: what is above it stays as it is. *)
LEMMA IndexCallKeeps ==
  ASSUME DbInv, IndexCall
  PROVE  DbInv' /\ TableStep
<1>1. /\ heap' = heap /\ next_id' = next_id /\ row_count' = row_count /\ stmt' = stmt
      /\ Continue
  BY DEF IndexCall, meta
<1>2. FileInv' /\ Dictionary' = Dictionary
  <2>1. \A hp : TreeInv(hp) => TreeInv(hp)' /\ Dictionary' = Dictionary
    BY <1>1, ContinueKeeps
  <2>2. PICK D : D = Dictionary
    OBVIOUS
  <2>3. FileInv
    BY DEF DbInv
  <2> QED BY <1>1, <2>1, <2>2, <2>3, IndexChanges
<1>3. call # Idle
  BY <1>1, ContinueIsNotIdle
<1>4. StatementIsSound(stmt', call', next_id')
  BY <1>1, <1>3 DEF DbInv, DataInv, StatementIsSound
<1>5. HeapInv(heap)' /\ DataInv'
  BY <1>1, <1>2, <1>4 DEF DbInv, DataInv
<1>6. TableStep
  BY <1>1, VisibleIs DEF TableStep
<1> QED BY <1>2, <1>5, <1>6 DEF DbInv

(* The new id is not in the index yet, so that bptree_insert takes it.     *)
LEMMA IndexRowKeeps ==
  ASSUME DbInv, IndexRow
  PROVE  DbInv' /\ TableStep
<1> DEFINE L == LiveIn(heap)
           pair == <<next_id, stmt.ref>>
<1>1. /\ heap' = heap /\ next_id' = next_id /\ row_count' = row_count /\ stmt.kind = "insert"
  BY DEF IndexRow, meta
<1>2. DataInv /\ FileInv /\ HeapInv(heap)
  BY DEF DbInv
<1>3. /\ call = Idle /\ next_id \in Keys /\ stmt \in StatementType /\ stmt.ref \in Refs
      /\ pair \in IdRefs(L) /\ Dictionary = IdRefs(L) \ {pair}
  BY <1>1, <1>2 DEF DataInv, StatementIsSound, RowsAreIndexed, Inserting
<1>4. \A ref : <<next_id, ref>> \in IdRefs(L) => ref = stmt.ref
  <2> TAKE ref
  <2> HAVE <<next_id, ref>> \in IdRefs(L)
  <2>1. PICK a \in L : a[2].id = next_id /\ a[1] = ref
    BY DEF IdRefs
  <2>2. PICK b \in L : b[2].id = next_id /\ b[1] = stmt.ref
    BY <1>3 DEF IdRefs
  <2>3. a = b
    BY <2>1, <2>2, <1>2 DEF DataInv, RowsAreNumbered
  <2> QED BY <2>1, <2>2, <2>3
<1>5. PICK hp0 : HeapPages(hp0) /\ TreeInv(hp0)
  BY <1>2 DEF FileInv
<1> HIDE DEF L
<1>6. Matches(pages[FindLeaf(next_id)], next_id) = {}
  <2> SUFFICES ASSUME Matches(pages[FindLeaf(next_id)], next_id) # {} PROVE FALSE
    OBVIOUS
  <2>1. PICK ref \in Refs : <<next_id, ref>> \in Dictionary
    BY <1>3, <1>5, MatchFacts
  <2> QED BY <2>1, <1>3, <1>4
<1>7. /\ InsertInLeaf(next_id, stmt.ref) \/ SplitLeaf(next_id, stmt.ref)
      /\ stmt' = [stmt EXCEPT !.kind = "inserted"]
  BY <1>6 DEF IndexRow
<1>8. FileInv' /\ Dictionary' = Dictionary \cup {pair}
  <2>1. PICK k \in Keys : k = next_id
    BY <1>3
  <2>2. PICK r \in Refs : r = stmt.ref
    BY <1>3
  <2>3. \A hp : TreeInv(hp) => TreeInv(hp)' /\ Dictionary' = Dictionary \cup {<<k, r>>}
    <3>1. CASE InsertInLeaf(k, r)
      BY <3>1, InsertInLeafKeeps
    <3>2. CASE SplitLeaf(k, r)
      BY <3>2, SplitLeafKeeps
    <3> QED BY <1>7, <2>1, <2>2, <3>1, <3>2
  <2>4. PICK D : D = Dictionary \cup {<<k, r>>}
    OBVIOUS
  <2> QED BY <1>1, <1>2, <2>1, <2>2, <2>3, <2>4, IndexChanges
<1>9. Dictionary' = IdRefs(L)
  BY <1>3, <1>8
<1>10. /\ stmt' \in StatementType /\ stmt'.kind = "inserted" /\ stmt'.ids = stmt.ids
  BY <1>3, <1>7 DEF StatementType
<1>11. DataInv'
  <2>1. StatementIsSound(stmt', call', next_id')
    BY <1>1, <1>2, <1>3, <1>10 DEF DataInv, StatementIsSound, Inserting, RowIsGone
  <2>2. RowsAreNumbered(LiveIn(heap'), stmt', next_id')
    BY <1>1, <1>2, <1>10 DEF DataInv, RowsAreNumbered, Inserting, RowIsGone, NextId
  <2>3. RowsAreIndexed(Dictionary', LiveIn(heap'), stmt', next_id')
    BY <1>1, <1>9, <1>10 DEF RowsAreIndexed, L
  <2>4. RowsAreCounted(row_count', LiveSlots(heap'), stmt')
    BY <1>1, <1>2, <1>10 DEF DataInv, RowsAreCounted, Inserting
  <2> QED BY <2>1, <2>2, <2>3, <2>4 DEF DataInv
<1>12. VisibleRows' = VisibleRows /\ VisibleNextId' = VisibleNextId
  BY <1>1, <1>10, VisibleIs DEF VisibleOf, NextId, Inserting
<1> QED BY <1>1, <1>2, <1>8, <1>11, <1>12 DEF DbInv, TableStep

(* The counters catch up with the row that is stored and indexed. *)
LEMMA FinishInsertKeeps ==
  ASSUME DbInv, FinishInsert
  PROVE  DbInv' /\ TableStep
<1>1. /\ UNCHANGED vars /\ heap' = heap /\ next_id' = next_id + 1 /\ row_count' = row_count + 1
      /\ stmt.kind = "inserted" /\ call = Idle /\ call' = call /\ stmt' = NoStatement
  BY DEF FinishInsert, vars
<1>2. DataInv /\ FileInv /\ HeapInv(heap)
  BY DEF DbInv
<1>3. FileInv' /\ Dictionary' = Dictionary
  BY <1>1, <1>2, FileStays
<1>4. /\ stmt'.kind = "none" /\ stmt'.ids = <<>> /\ <<>> \in Seq(Keys) /\ stmt' \in StatementType
  BY <1>1 DEF NoStatement, Statement, StatementType
<1>5. next_id \in Keys /\ next_id' \in 1 .. MaxKey + 1
  <2>1. next_id \in Keys
    BY <1>1, <1>2 DEF DataInv, StatementIsSound, Inserting
  <2> QED BY <2>1, <1>1, SizeFacts DEF Keys
<1>6. StatementIsSound(stmt', call', next_id')
  BY <1>1, <1>4, <1>5 DEF StatementIsSound, Inserting, RowIsGone
<1>7. RowsAreNumbered(LiveIn(heap'), stmt', next_id')
  BY <1>1, <1>2, <1>4 DEF DataInv, RowsAreNumbered, Inserting, RowIsGone, NextId
<1>8. RowsAreIndexed(Dictionary', LiveIn(heap'), stmt', next_id')
  BY <1>1, <1>2, <1>3, <1>4 DEF DataInv, RowsAreIndexed
<1>9. RowsAreCounted(row_count', LiveSlots(heap'), stmt')
  <2>1. /\ IsFiniteSet(LiveSlots(heap)) /\ Cardinality(LiveSlots(heap)) \in Nat
        /\ row_count = Cardinality(LiveSlots(heap)) - 1
    BY <1>1, <1>2, FS_CardinalityType DEF DataInv, RowsAreCounted, Inserting
  <2> QED BY <2>1, <1>1, <1>4 DEF RowsAreCounted, Inserting, RowIsGone
<1>10. VisibleRows' = VisibleRows /\ VisibleNextId' = VisibleNextId
  BY <1>1, <1>4, VisibleIs DEF VisibleOf, NextId, Inserting
<1> QED BY <1>1, <1>2, <1>3, <1>6, <1>7, <1>8, <1>9, <1>10 DEF DbInv, DataInv, TableStep

(* The ids still to delete: the one the statement is at, and the rest.     *)
LEMMA FirstAndRest ==
  ASSUME NEW s \in Seq(Keys), s # <<>>
  PROVE  /\ s[1] \in Keys /\ Tail(s) \in Seq(Keys)
         /\ Range(s) = {s[1]} \cup Range(Tail(s))
<1>2. /\ Len(s) \in Nat /\ Len(s) >= 1 /\ s[1] \in Keys /\ Tail(s) \in Seq(Keys)
      /\ Len(Tail(s)) = Len(s) - 1
      /\ DOMAIN s = 1 .. Len(s) /\ DOMAIN Tail(s) = 1 .. Len(Tail(s))
      /\ \A i \in 1 .. Len(Tail(s)) : Tail(s)[i] = s[i + 1]
  OBVIOUS
<1>3. \A i \in 1 .. Len(s) : i = 1 \/ (i - 1 \in 1 .. Len(Tail(s)) /\ (i - 1) + 1 = i)
  BY <1>2
<1>4. \A i \in 1 .. Len(Tail(s)) : i + 1 \in 1 .. Len(s)
  BY <1>2
<1>5. 1 \in 1 .. Len(s)
  BY <1>2
<1>6. ASSUME NEW v \in Range(s) PROVE v \in {s[1]} \cup Range(Tail(s))
  <2>1. PICK i \in 1 .. Len(s) : v = s[i]
    BY <1>2, <1>6 DEF Range
  <2>2. i = 1 \/ (i - 1 \in 1 .. Len(Tail(s)) /\ v = Tail(s)[i - 1])
    BY <2>1, <1>2, <1>3
  <2> QED BY <2>1, <2>2, <1>2 DEF Range
<1>7. ASSUME NEW v \in {s[1]} \cup Range(Tail(s)) PROVE v \in Range(s)
  BY <1>2, <1>4, <1>5, <1>7 DEF Range
<1>8. Range(s) = {s[1]} \cup Range(Tail(s))
  BY <1>6, <1>7
<1> QED BY <1>2, <1>8

(* A statement in which a live row has just been deleted from the heap,    *)
(* and one that skips an id without a row.                                 *)
LEMMA RemoveRowKeeps ==
  ASSUME DbInv, RemoveRow
  PROVE  DbInv' /\ TableStep
<1> DEFINE L == LiveIn(heap)
           found == Search(stmt.ids[1])
<1>1. /\ UNCHANGED vars /\ next_id' = next_id /\ row_count' = row_count /\ call' = call
      /\ stmt.kind = "delete" /\ stmt.ids # <<>>
  BY DEF RemoveRow, vars, meta
<1>2. DataInv /\ FileInv /\ HeapInv(heap)
  BY DEF DbInv
<1>3. /\ call = Idle /\ stmt \in StatementType /\ stmt.ids \in Seq(Keys) /\ Dictionary = IdRefs(L)
      /\ next_id \in 1 .. MaxKey + 1
  BY <1>1, <1>2 DEF DataInv, StatementIsSound, StatementType, RowsAreIndexed
<1>4. /\ stmt.ids[1] \in Keys /\ Tail(stmt.ids) \in Seq(Keys)
      /\ Range(stmt.ids) = {stmt.ids[1]} \cup Range(Tail(stmt.ids))
  BY <1>1, <1>3, FirstAndRest
<1>5. PICK hp : TreeInv(hp)
  BY <1>2 DEF FileInv
<1>6. found = {r \in Refs : <<stmt.ids[1], r>> \in IdRefs(L)}
  BY <1>3, <1>4, <1>5, SearchFacts
<1> HIDE DEF found, L
<1>7. CASE found = {}
  <2>1. heap' = heap /\ stmt' = [stmt EXCEPT !.ids = Tail(@)]
    BY <1>7 DEF RemoveRow, found
  <2>2. stmt'.kind = "delete" /\ stmt'.ids = Tail(stmt.ids) /\ stmt' \in StatementType
    BY <1>1, <1>3, <1>4, <2>1 DEF StatementType
  <2>3. \A a \in L : a[2].id # stmt.ids[1]
    <3> SUFFICES ASSUME NEW a \in L, a[2].id = stmt.ids[1] PROVE FALSE
      OBVIOUS
    <3>1. a[1] \in Refs
      BY <1>2, LiveFacts DEF L
    <3>2. <<stmt.ids[1], a[1]>> \in IdRefs(L)
      BY DEF IdRefs
    <3> QED BY <1>6, <1>7, <3>1, <3>2
  <2>4. DbInv'
    <3>1. StatementIsSound(stmt', call, next_id)
      BY <1>3, <2>2 DEF StatementIsSound, Inserting, RowIsGone
    <3>2. RowsAreNumbered(LiveIn(heap), stmt', next_id)
      BY <1>1, <1>2, <2>2 DEF DataInv, RowsAreNumbered, Inserting, RowIsGone, NextId
    <3>3. RowsAreIndexed(Dictionary, LiveIn(heap), stmt', next_id)
      BY <1>1, <1>2, <2>2 DEF DataInv, RowsAreIndexed
    <3>4. RowsAreCounted(row_count, LiveSlots(heap), stmt')
      BY <1>1, <1>2, <2>2 DEF DataInv, RowsAreCounted, Inserting, RowIsGone
    <3> QED BY <1>1, <2>1, <3>1, <3>2, <3>3, <3>4, OnlyTheStatement
  <2>5. VisibleRows' = VisibleRows
    <3>1. \A a \in L : a[2].id \in Range(stmt.ids) <=> a[2].id \in Range(Tail(stmt.ids))
      BY <1>4, <2>3
    <3>2. VisibleRows = {a[2] : a \in {b \in L : b[2].id \notin Range(stmt.ids)}}
      BY <1>1, VisibleIs DEF VisibleOf, L
    <3>3. VisibleRows' = {a[2] : a \in {b \in L : b[2].id \notin Range(Tail(stmt.ids))}}
      BY <2>1, <2>2, VisibleIs DEF VisibleOf, L
    <3> QED BY <3>1, <3>2, <3>3
  <2>6. VisibleNextId' = VisibleNextId
    BY <1>1, <2>2, VisibleIs DEF NextId, Inserting
  <2> QED BY <2>4, <2>5, <2>6 DEF TableStep
<1>8. CASE found # {}
  <2> DEFINE at == CHOOSE ref \in found : TRUE
  <2>1. at \in found
    BY <1>8
  <2>2. heap' = HeapDelete(heap, at) /\ stmt' = [stmt EXCEPT !.kind = "unindex"]
    BY <1>8 DEF RemoveRow, found
  <2>3. PICK ref : ref = at
    OBVIOUS
  <2> HIDE DEF at
  <2>4. ref \in Refs /\ <<stmt.ids[1], ref>> \in IdRefs(L)
    BY <1>6, <2>1, <2>3
  <2>5. PICK a \in L : a[2].id = stmt.ids[1] /\ a[1] = ref
    BY <2>4 DEF IdRefs
  <2>6. /\ ref \in SlotsOf(heap) /\ ref \in LiveSlots(heap) /\ IsAlive(heap, ref)
        /\ a = <<ref, SlotAt(heap, ref).row>>
    <3>1. /\ a[1] \in SlotsOf(heap) /\ a[1] \in LiveSlots(heap) /\ IsAlive(heap, a[1])
          /\ a = <<a[1], a[2]>> /\ a[2] = SlotAt(heap, a[1]).row
      BY <1>2, LiveFacts DEF L
    <3> QED BY <3>1, <2>5
  <2>7. /\ HeapInv(heap') /\ HeapChain(heap') = HeapChain(heap)
        /\ LiveIn(heap') = L \ {a}
    BY <1>2, <2>2, <2>3, <2>6, DeleteStep DEF L
  <2>8. stmt'.kind = "unindex" /\ stmt'.ids = stmt.ids /\ stmt' \in StatementType
    BY <1>3, <2>2 DEF StatementType
  <2>9. \A b \in L : b[2].id = stmt.ids[1] => b = a
    BY <1>2, <2>5 DEF DataInv, RowsAreNumbered, L
  <2>10. FileInv' /\ Dictionary' = Dictionary
    <3>1. PICK hp1 : HeapPages(hp1) /\ TreeInv(hp1)
      BY <1>2 DEF FileInv
    <3>2. TreeInv(hp1)' /\ Dictionary' = Dictionary
      BY <1>1, <3>1, StutterKeeps
    <3>3. HeapPages(hp1)'
      BY <3>1, <2>7 DEF HeapPages
    <3> QED BY <3>2, <3>3 DEF FileInv
  <2>11. StatementIsSound(stmt', call', next_id')
    BY <1>1, <1>3, <2>8 DEF StatementIsSound, Inserting, RowIsGone
  <2>12. RowsAreNumbered(LiveIn(heap'), stmt', next_id')
    BY <1>1, <1>2, <2>7, <2>8, <2>9 DEF DataInv, RowsAreNumbered, Inserting, RowIsGone, NextId, L
  <2>13. RowsAreIndexed(Dictionary', LiveIn(heap'), stmt', next_id')
    <3>1. IdRefs(L) = IdRefs(L \ {a}) \cup {<<stmt.ids[1], ref>>}
      BY <2>5 DEF IdRefs
    <3>2. Dictionary' = IdRefs(LiveIn(heap')) \cup {<<stmt.ids[1], ref>>}
      BY <1>3, <2>7, <2>10, <3>1
    <3> QED BY <2>4, <2>8, <3>2 DEF RowsAreIndexed
  <2>14. RowsAreCounted(row_count', LiveSlots(heap'), stmt')
    <3>1. LiveSlots(heap') = LiveSlots(heap) \ {ref}
      <4>1. LiveSlots(heap) = {b[1] : b \in L} /\ LiveSlots(heap') = {b[1] : b \in L \ {a}}
        BY <2>7, LiveReferences DEF L
      <4>2. \A b \in L : b[1] = a[1] => b = a
        BY LiveReferences DEF L
      <4> QED BY <4>1, <4>2, <2>5
    <3>2. IsFiniteSet(LiveSlots(heap)) /\ row_count = Cardinality(LiveSlots(heap))
      BY <1>1, <1>2 DEF DataInv, RowsAreCounted, Inserting, RowIsGone
    <3>3. /\ IsFiniteSet(LiveSlots(heap')) /\ Cardinality(LiveSlots(heap)) \in Nat
          /\ Cardinality(LiveSlots(heap')) = Cardinality(LiveSlots(heap)) - 1
      BY <2>6, <3>1, <3>2, FS_RemoveElement, FS_CardinalityType
    <3> QED BY <1>1, <2>8, <3>2, <3>3 DEF RowsAreCounted, Inserting, RowIsGone
  <2>15. VisibleRows' = VisibleRows
    <3>1. a[2].id \in Range(stmt.ids)
      BY <1>4, <2>5
    <3>2. VisibleRows = {b[2] : b \in {c \in L : c[2].id \notin Range(stmt.ids)}}
      BY <1>1, VisibleIs DEF VisibleOf, L
    <3>3. VisibleRows' = {b[2] : b \in {c \in L \ {a} : c[2].id \notin Range(stmt.ids)}}
      BY <2>7, <2>8, VisibleIs DEF VisibleOf
    <3> QED BY <3>1, <3>2, <3>3
  <2>16. VisibleNextId' = VisibleNextId
    BY <1>1, <2>8, VisibleIs DEF NextId, Inserting
  <2> QED BY <2>7, <2>10, <2>11, <2>12, <2>13, <2>14, <2>15, <2>16
      DEF DbInv, DataInv, TableStep
<1> QED BY <1>7, <1>8

(* bptree_delete takes out the one entry that has no row any more. *)
LEMMA UnindexRowKeeps ==
  ASSUME DbInv, UnindexRow
  PROVE  DbInv' /\ TableStep
<1> DEFINE L == LiveIn(heap)
<1>1. /\ heap' = heap /\ next_id' = next_id /\ row_count' = row_count
      /\ stmt.kind = "unindex" /\ stmt' = [stmt EXCEPT !.kind = "deleted"]
      /\ Delete(stmt.ids[1])
  BY DEF UnindexRow, meta
<1>2. DataInv /\ FileInv /\ HeapInv(heap)
  BY DEF DbInv
<1>3. /\ stmt \in StatementType /\ stmt.ids # <<>> /\ stmt.ids \in Seq(Keys) /\ stmt.ids[1] \in Keys
      /\ next_id \in 1 .. MaxKey + 1
      /\ \A a \in L : a[2].id # stmt.ids[1]
  <2>1. /\ stmt \in StatementType /\ stmt.ids # <<>> /\ next_id \in 1 .. MaxKey + 1
        /\ \A a \in L : a[2].id # stmt.ids[1]
    BY <1>1, <1>2 DEF DataInv, StatementIsSound, RowsAreNumbered, RowIsGone
  <2>2. stmt.ids \in Seq(Keys)
    BY <2>1 DEF StatementType
  <2> QED BY <2>1, <2>2
<1>4. PICK ref \in Refs : Dictionary = IdRefs(L) \cup {<<stmt.ids[1], ref>>}
  BY <1>1, <1>2 DEF DataInv, RowsAreIndexed
<1> HIDE DEF L
<1>5. PICK hp : HeapPages(hp) /\ TreeInv(hp)
  BY <1>2 DEF FileInv
<1>6. /\ TreeInv(hp)'
      /\ \E pair \in Dictionary : pair[1] = stmt.ids[1] /\ Dictionary' = Dictionary \ {pair}
  BY <1>1, <1>3, <1>5, DeleteKeeps
<1>7. FileInv'
  <2>1. HeapPages(hp)'
    BY <1>1, <1>5 DEF HeapPages
  <2> QED BY <1>6, <2>1 DEF FileInv
<1>8. Dictionary' = IdRefs(L)
  <2>1. PICK pair \in Dictionary : pair[1] = stmt.ids[1] /\ Dictionary' = Dictionary \ {pair}
    BY <1>6
  <2>2. \A p \in IdRefs(L) : p[1] # stmt.ids[1]
    BY <1>3 DEF IdRefs
  <2>3. pair = <<stmt.ids[1], ref>>
    BY <1>4, <2>1, <2>2
  <2>4. <<stmt.ids[1], ref>>[1] = stmt.ids[1]
    OBVIOUS
  <2> QED BY <1>4, <2>1, <2>2, <2>3, <2>4
<1>9. stmt'.kind = "deleted" /\ stmt'.ids = stmt.ids /\ stmt' \in StatementType
  BY <1>1, <1>3 DEF StatementType
<1>10. StatementIsSound(stmt', call', next_id')
  BY <1>1, <1>3, <1>9 DEF StatementIsSound, Inserting, RowIsGone
<1>11. RowsAreNumbered(LiveIn(heap'), stmt', next_id')
  BY <1>1, <1>2, <1>9 DEF DataInv, RowsAreNumbered, Inserting, RowIsGone, NextId
<1>12. RowsAreIndexed(Dictionary', LiveIn(heap'), stmt', next_id')
  BY <1>1, <1>8, <1>9 DEF RowsAreIndexed, L
<1>13. RowsAreCounted(row_count', LiveSlots(heap'), stmt')
  BY <1>1, <1>2, <1>9 DEF DataInv, RowsAreCounted, Inserting, RowIsGone
<1>14. VisibleRows' = VisibleRows /\ VisibleNextId' = VisibleNextId
  BY <1>1, <1>9, VisibleIs DEF VisibleOf, NextId, Inserting
<1> QED BY <1>1, <1>2, <1>7, <1>10, <1>11, <1>12, <1>13, <1>14 DEF DbInv, DataInv, TableStep

(* row_count catches up with the row that is gone. *)
LEMMA CountDeletedKeeps ==
  ASSUME DbInv, CountDeleted
  PROVE  DbInv' /\ TableStep
<1> DEFINE L == LiveIn(heap)
<1>1. /\ UNCHANGED vars /\ heap' = heap /\ next_id' = next_id /\ row_count' = row_count - 1
      /\ stmt.kind = "deleted" /\ call = Idle /\ call' = call
      /\ stmt' = [stmt EXCEPT !.kind = "delete", !.ids = Tail(@)]
  BY DEF CountDeleted, vars
<1>2. DataInv /\ FileInv /\ HeapInv(heap)
  BY DEF DbInv
<1>3. FileInv' /\ Dictionary' = Dictionary
  BY <1>1, <1>2, FileStays
<1>4. /\ stmt \in StatementType /\ stmt.ids # <<>> /\ next_id \in 1 .. MaxKey + 1
      /\ \A a \in L : a[2].id # stmt.ids[1]
  BY <1>1, <1>2 DEF DataInv, StatementIsSound, RowsAreNumbered, RowIsGone
<1>5. stmt.ids \in Seq(Keys)
  BY <1>4 DEF StatementType
<1>6. /\ Tail(stmt.ids) \in Seq(Keys)
      /\ Range(stmt.ids) = {stmt.ids[1]} \cup Range(Tail(stmt.ids))
  BY <1>4, <1>5, FirstAndRest
<1>7. /\ stmt'.kind = "delete" /\ stmt'.ids = Tail(stmt.ids) /\ stmt' \in StatementType
  BY <1>1, <1>4, <1>6 DEF StatementType
<1> HIDE DEF L
<1>8. StatementIsSound(stmt', call', next_id')
  BY <1>1, <1>4, <1>7 DEF StatementIsSound, Inserting, RowIsGone
<1>9. RowsAreNumbered(LiveIn(heap'), stmt', next_id')
  BY <1>1, <1>2, <1>7 DEF DataInv, RowsAreNumbered, Inserting, RowIsGone, NextId
<1>10. RowsAreIndexed(Dictionary', LiveIn(heap'), stmt', next_id')
  BY <1>1, <1>2, <1>3, <1>7 DEF DataInv, RowsAreIndexed
<1>11. RowsAreCounted(row_count', LiveSlots(heap'), stmt')
  <2>1. /\ IsFiniteSet(LiveSlots(heap)) /\ Cardinality(LiveSlots(heap)) \in Nat
        /\ row_count = Cardinality(LiveSlots(heap)) + 1
    BY <1>1, <1>2, FS_CardinalityType DEF DataInv, RowsAreCounted, Inserting, RowIsGone
  <2> QED BY <2>1, <1>1, <1>7 DEF RowsAreCounted, Inserting, RowIsGone
<1>12. VisibleRows' = VisibleRows
  <2>1. \A a \in L : a[2].id \in Range(stmt.ids) <=> a[2].id \in Range(Tail(stmt.ids))
    BY <1>4, <1>6 DEF L
  <2>2. VisibleRows = {a[2] : a \in {b \in L : b[2].id \notin Range(stmt.ids)}}
    BY <1>1, VisibleIs DEF VisibleOf, L
  <2>3. VisibleRows' = {a[2] : a \in {b \in L : b[2].id \notin Range(Tail(stmt.ids))}}
    BY <1>1, <1>7, VisibleIs DEF VisibleOf, L
  <2> QED BY <2>1, <2>2, <2>3
<1>13. VisibleNextId' = VisibleNextId
  BY <1>1, <1>7, VisibleIs DEF NextId, Inserting
<1> QED BY <1>1, <1>2, <1>3, <1>8, <1>9, <1>10, <1>11, <1>12, <1>13
    DEF DbInv, DataInv, TableStep

(* The ids are used up. *)
LEMMA FinishDeleteKeeps ==
  ASSUME DbInv, FinishDelete
  PROVE  DbInv' /\ TableStep
<1>1. /\ UNCHANGED <<vars, heap, next_id, row_count>> /\ next_id' = next_id /\ heap' = heap
      /\ stmt.kind = "delete" /\ stmt.ids = <<>> /\ stmt' = NoStatement
  BY DEF FinishDelete, meta
<1>2. DataInv
  BY DEF DbInv
<1>3. /\ stmt'.kind = "none" /\ stmt'.ids = <<>> /\ <<>> \in Seq(Keys) /\ stmt' \in StatementType
      /\ Range(<<>>) = {}
  BY <1>1 DEF NoStatement, Statement, StatementType, Range
<1>4. StatementIsSound(stmt', call, next_id)
  BY <1>1, <1>2, <1>3 DEF DataInv, StatementIsSound, Inserting, RowIsGone
<1>5. RowsAreNumbered(LiveIn(heap), stmt', next_id)
  BY <1>1, <1>2, <1>3 DEF DataInv, RowsAreNumbered, Inserting, RowIsGone, NextId
<1>6. RowsAreIndexed(Dictionary, LiveIn(heap), stmt', next_id)
  BY <1>1, <1>2, <1>3 DEF DataInv, RowsAreIndexed
<1>7. RowsAreCounted(row_count, LiveSlots(heap), stmt')
  BY <1>1, <1>2, <1>3 DEF DataInv, RowsAreCounted, Inserting, RowIsGone
<1>8. DbInv'
  BY <1>1, <1>4, <1>5, <1>6, <1>7, OnlyTheStatement
<1>9. VisibleRows' = VisibleRows /\ VisibleNextId' = VisibleNextId
  BY <1>1, <1>3, VisibleIs DEF VisibleOf, NextId, Inserting
<1> QED BY <1>8, <1>9 DEF TableStep

-----------------------------------------------------------------------------
(* The engine *)

(* The new file. *)
LEMMA InitDbInv ==
  ASSUME DbInit
  PROVE  DbInv /\ VisibleRows = {} /\ VisibleNextId = 1
<1>1. /\ Init /\ heap = NewHeap /\ next_id = 1 /\ row_count = 0 /\ stmt = NoStatement
      /\ call = Idle
  BY DEF DbInit, Init
<1>2. HeapInv(heap) /\ LiveIn(heap) = {} /\ Range(HeapChain(heap)) = {FirstHeapPage}
  BY <1>1, NewHeapInv
<1>3. FileInv
  BY <1>1, <1>2, InitIInv DEF FileInv, HeapPages, IInv
<1>4. /\ stmt.kind = "none" /\ stmt.ids = <<>> /\ <<>> \in Seq(Keys) /\ stmt \in StatementType
  BY <1>1 DEF NoStatement, Statement, StatementType
<1>5. StatementIsSound(stmt, call, next_id)
  BY <1>1, <1>4, SizeFacts DEF StatementIsSound, Inserting, RowIsGone
<1>6. RowsAreNumbered(LiveIn(heap), stmt, next_id)
  BY <1>2, <1>4 DEF RowsAreNumbered, RowIsGone
<1>7. RowsAreIndexed(Dictionary, LiveIn(heap), stmt, next_id)
  <2>1. Dictionary = {}
    BY <1>1, EmptyAtFirst
  <2>2. IdRefs({}) = {}
    BY DEF IdRefs
  <2> QED BY <1>2, <1>4, <2>1, <2>2 DEF RowsAreIndexed
<1>8. RowsAreCounted(row_count, LiveSlots(heap), stmt)
  <2>1. LiveSlots(heap) = {}
    BY <1>2, LiveReferences
  <2> QED BY <1>1, <1>4, <2>1, FS_EmptySet DEF RowsAreCounted, Inserting, RowIsGone
<1>9. VisibleRows = {} /\ VisibleNextId = 1
  BY <1>1, <1>2, <1>4, VisibleIs DEF VisibleOf, NextId, Inserting
<1> QED BY <1>2, <1>3, <1>5, <1>6, <1>7, <1>8, <1>9 DEF DbInv, DataInv

(* Every step keeps the invariant and is a step of Table or invisible. *)
LEMMA DbNextKeeps ==
  ASSUME DbInv, [DbNext]_dbVars
  PROVE  DbInv' /\ TableStep
<1>1. ASSUME CreateTable PROVE DbInv' /\ TableStep
  BY <1>1, StutterKeepsDb DEF CreateTable
<1>2. ASSUME NEW v \in Vals, InsertRow(v) PROVE DbInv' /\ TableStep
  BY <1>2, InsertRowKeeps
<1>3. ASSUME NEW v \in Vals, DeleteMatching({v}) PROVE DbInv' /\ TableStep
  <2>1. DbInv' /\ VisibleNextId' = VisibleNextId
    BY <1>3, DeleteMatchingKeeps
  <2>2. VisibleRows' = {row \in VisibleRows : row.val # v}
    <3>1. VisibleRows' = {row \in VisibleRows : row.val \notin {v}}
      BY <1>3, DeleteMatchingKeeps
    <3> QED BY <3>1
  <2> QED BY <2>1, <2>2 DEF TableStep, User!TableDelete
<1>4. ASSUME DeleteMatching(Vals) PROVE DbInv' /\ TableStep
  <2>1. DbInv' /\ VisibleNextId' = VisibleNextId
    BY <1>4, DeleteMatchingKeeps
  <2>2. VisibleRows' = {}
    BY <1>4, DeleteMatchingKeeps
  <2> QED BY <2>1, <2>2 DEF TableStep, User!TableDelete
<1>5. ASSUME NEW k \in Keys, DeleteById(k) PROVE DbInv' /\ TableStep
  BY <1>5, DeleteByIdKeeps
<1>6. ASSUME Proceed PROVE DbInv' /\ TableStep
  <2>1. CASE IndexCall BY <2>1, IndexCallKeeps
  <2>2. CASE IndexRow BY <2>2, IndexRowKeeps
  <2>3. CASE FinishInsert BY <2>3, FinishInsertKeeps
  <2>4. CASE RemoveRow BY <2>4, RemoveRowKeeps
  <2>5. CASE UnindexRow BY <2>5, UnindexRowKeeps
  <2>6. CASE CountDeleted BY <2>6, CountDeletedKeeps
  <2>7. CASE FinishDelete BY <2>7, FinishDeleteKeeps
  <2> QED BY <1>6, <2>1, <2>2, <2>3, <2>4, <2>5, <2>6, <2>7 DEF Proceed
<1>7. ASSUME UNCHANGED dbVars PROVE DbInv' /\ TableStep
  BY <1>7, StutterKeepsDb DEF dbVars, meta
<1> QED BY <1>1, <1>2, <1>3, <1>4, <1>5, <1>6, <1>7 DEF DbNext

(* The inductive invariant of the engine: at every step of every statement *)
(* heap, index and counters differ by the row the statement is at, and no  *)
(* more.                                                                   *)
THEOREM EngineIsSound == DbSpec => []DbInv
<1>1. DbInit => DbInv
  BY InitDbInv
<1>2. DbInv /\ [DbNext]_dbVars => DbInv'
  BY DbNextKeeps
<1> QED BY <1>1, <1>2, PTL DEF DbSpec

(* With the invariant, index, heap and counter agree between statements.   *)
LEMMA InvAgrees == DbInv => StructuresAgree
<1>1. ASSUME DbInv, Ready PROVE row_count = Cardinality(LiveRefs)
  <2>1. stmt.kind = "none"
    BY <1>1 DEF Ready, NoStatement, Statement
  <2> QED BY <1>1, <2>1 DEF DbInv, DataInv, RowsAreCounted, Inserting, RowIsGone, LiveRefs
<1>2. ASSUME DbInv, Ready, NEW k \in Keys
      PROVE  Search(k) = {ref \in LiveRefs : RowAt(ref).id = k}
  <2> DEFINE L == LiveIn(heap)
  <2>1. stmt.kind = "none" /\ call = Idle /\ HeapInv(heap)
    BY <1>2 DEF Ready, NoStatement, Statement, DbInv
  <2>2. PICK hp : TreeInv(hp)
    BY <1>2 DEF DbInv, FileInv
  <2>3. Dictionary = IdRefs(L)
    BY <1>2, <2>1 DEF DbInv, DataInv, RowsAreIndexed
  <2>4. Search(k) = {r \in Refs : <<k, r>> \in IdRefs(L)}
    BY <2>1, <2>2, <2>3, SearchFacts
  <2>5. \A a \in L : a[1] \in Refs /\ a[1] \in LiveRefs /\ a[2] = RowAt(a[1])
    BY <2>1, LiveFacts DEF LiveRefs, RowAt
  <2>6. \A r : <<k, r>> \in IdRefs(L) <=> \E a \in L : a[2].id = k /\ a[1] = r
    BY DEF IdRefs
  <2>7. \A ref \in LiveRefs : \E a \in L : a[1] = ref
    BY LiveReferences DEF LiveRefs
  <2> HIDE DEF L
  <2> QED BY <2>4, <2>5, <2>6, <2>7
<1> QED BY <1>1, <1>2 DEF StructuresAgree, AccessPathsAgree, RowCountIsExact

(* Whatever was inserted and deleted, in whichever order, both access      *)
(* paths find the same rows, and row_count is their number.                *)
THEOREM StructuresDoAgree == DbSpec => []StructuresAgree
BY InvAgrees, EngineIsSound, PTL

(* No page of the file is lost or has two owners, for any file size and    *)
(* any sequence of splits, merges and heap growth.                         *)
THEOREM FileStaysShared == DbSpec => []FileIsShared
<1>1. ASSUME DbInv, call = Idle
      PROVE  LET heapPages == Range(HeapChain(heap))
                 nodes == TreeNodes
             IN  /\ nodes \cup heapPages \cup FreePages = 1 .. header.next - 1
                 /\ nodes \cap heapPages = {} /\ nodes \cap FreePages = {}
                 /\ heapPages \cap FreePages = {}
                 /\ \A p \in heapPages : pages[p].type = "HEAP"
  <2>1. PICK hp : HeapPages(hp) /\ TreeInv(hp)
    BY <1>1 DEF DbInv, FileInv
  <2>2. hp = Range(HeapChain(heap))
    BY <2>1 DEF HeapPages
  <2>3. hp \subseteq PageIds
    <3>1. PICK c, n : ChainOf(heap, c, n)
      BY <1>1 DEF DbInv, HeapInv
    <3> QED BY <2>2, <3>1, ChainPages
  <2>4. /\ TreeNodes \cap FreePages = {} /\ TreeNodes \cap hp = {} /\ hp \cap FreePages = {}
        /\ TreeNodes \cup FreePages \cup hp = 1 .. header.next - 1
        /\ \A p \in hp : pages[p].type = "HEAP"
    BY <1>1, <2>1, <2>3, AccountFacts
  <2> QED BY <2>2, <2>4
<1>2. DbInv => FileIsShared
  BY <1>1 DEF FileIsShared
<1> QED BY <1>2, EngineIsSound, PTL

(* The engine implements Table: an INSERT adds one row with the next id, a *)
(* DELETE removes the rows it is about, all at once, and nothing that goes *)
(* on in heap and index meanwhile can be seen.                             *)
THEOREM TableIsImplemented == DbSpec => ImplementsTable
<1>1. DbInit => User!TableInit
  BY InitDbInv DEF User!TableInit
<1>2. DbInv /\ [DbNext]_dbVars
        => [User!TableInsert \/ User!TableDelete]_<<VisibleRows, VisibleNextId>>
  BY DbNextKeeps DEF TableStep
<1> QED BY <1>1, <1>2, EngineIsSound, PTL DEF DbSpec, ImplementsTable, User!TableSpec

-----------------------------------------------------------------------------
(* The engine after a crash in flush_all *)

(* With old counters an id may have two rows and a row may be missing from *)
(* the index, but what the index has is live: D is the index, L the live   *)
(* rows with their references.                                             *)
IndexIsLive(D, L, s, next) ==
  /\ s.kind # "unindex" => D \subseteq IdRefs(L)
  /\ s.kind = "unindex" => \E ref \in Refs : D \subseteq IdRefs(L) \cup {<<s.ids[1], ref>>}
  /\ s.kind = "insert" => s.ref \in Refs /\ <<next, s.ref>> \in IdRefs(L)

(* Tree, free list, heap and the place of the statement, whatever the      *)
(* counters say.                                                           *)
Sound(pg, hd, c, h, s, next) ==
  /\ HeapInv(h) /\ Good(Range(HeapChain(h)), pg, hd, c)
  /\ StatementIsSound(s, c, next)
  /\ IndexIsLive(DictOf(pg), LiveIn(h), s, next)

SoundNow == Sound(pages, header, call, heap, stmt, next_id)

(* The rows F have unique ids, older than the counter, and no statement is *)
(* about to delete them.                                                   *)
Kept(F, L, s, next) ==
  /\ \A a, b \in L : a[2] \in F /\ a[2].id = b[2].id => a = b
  /\ \A r \in F : r.id \in Keys /\ r.id < next
  /\ s.kind \in {"delete", "unindex", "deleted"} => \A r \in F : r.id \notin Range(s.ids)

KeptNow(F) == Kept(F, LiveIn(heap), stmt, next_id)

(* The chain grows at its tail, and the rows F stay where they are. *)
Grows(chain, chain2) ==
  \/ chain2 = chain
  \/ \E new \in PageIds \ Range(chain) : chain2 = Append(chain, new)
RowsStay(h, h2, F) ==
  Grows(HeapChain(h), HeapChain(h2)) /\ \A a \in LiveIn(h) : a[2] \in F => a \in LiveIn(h2)

(* The parts of SoundNow, in terms of the variables. *)
LEMMA SoundParts ==
  /\ SoundNow <=> /\ FileInv /\ HeapInv(heap) /\ StatementIsSound(stmt, call, next_id)
                  /\ IndexIsLive(Dictionary, LiveIn(heap), stmt, next_id)
  /\ SoundNow' <=> /\ FileInv' /\ HeapInv(heap') /\ StatementIsSound(stmt', call', next_id')
                   /\ IndexIsLive(Dictionary', LiveIn(heap'), stmt', next_id')
<1>1. FileInv <=> Good(Range(HeapChain(heap)), pages, header, call)
  BY DEF FileInv, HeapPages, TreeInv
<1>2. FileInv' <=> Good(Range(HeapChain(heap')), pages', header', call')
  BY DEF FileInv, HeapPages, TreeInv
<1> QED BY <1>1, <1>2, DictionaryIsDictOf DEF SoundNow, Sound

(* The invariant of the engine implies it. *)
LEMMA InvIsSound == DbInv => SoundNow
<1> SUFFICES ASSUME DbInv PROVE SoundNow
  OBVIOUS
<1>1. DataInv /\ FileInv /\ HeapInv(heap)
  BY DEF DbInv
<1>2. stmt \in StatementType
  BY <1>1 DEF DataInv, StatementIsSound
<1>3. stmt.kind \in {"none", "insert", "inserted", "delete", "unindex", "deleted"}
  BY <1>2 DEF StatementType
<1>4. RowsAreIndexed(Dictionary, LiveIn(heap), stmt, next_id)
  BY <1>1 DEF DataInv
<1>5. IndexIsLive(Dictionary, LiveIn(heap), stmt, next_id)
  BY <1>3, <1>4 DEF RowsAreIndexed, IndexIsLive
<1> QED BY <1>1, <1>5, SoundParts DEF DataInv

(* A step that leaves file and rows alone. *)
LEMMA OnlyThePlace ==
  ASSUME SoundNow, UNCHANGED <<vars, heap>>, NEW F,
         StatementIsSound(stmt', call, next_id'),
         IndexIsLive(Dictionary, LiveIn(heap), stmt', next_id')
  PROVE  SoundNow' /\ RowsStay(heap, heap', F)
<1>1. FileInv /\ HeapInv(heap)
  BY SoundParts
<1>2. FileInv' /\ Dictionary' = Dictionary
  BY <1>1, FileStays
<1>3. heap' = heap /\ call' = call
  BY DEF vars
<1> QED BY <1>1, <1>2, <1>3, SoundParts DEF RowsStay, Grows

(* heap_insert: the id of the new row may be in use, but no row of F has   *)
(* it.                                                                     *)
LEMMA InsertRowSound ==
  ASSUME SoundNow, NEW F, KeptNow(F), NEW v \in Vals, InsertRow(v)
  PROVE  SoundNow' /\ KeptNow(F)' /\ RowsStay(heap, heap', F)
<1> DEFINE row == [id |-> next_id, val |-> v]
           L == LiveIn(heap)
           new == <<stmt'.ref, row>>
<1>1. /\ stmt = NoStatement /\ call = Idle /\ next_id \in Keys /\ call' = call
      /\ stmt'.kind = "insert" /\ stmt'.ids = <<>> /\ next_id' = next_id
      /\ stmt' = Statement("insert", <<>>, stmt'.ref)
  BY DEF InsertRow, Ready, Statement, meta
<1>2. stmt.kind = "none"
  BY <1>1 DEF NoStatement, Statement
<1>3. FileInv /\ HeapInv(heap) /\ IndexIsLive(Dictionary, L, stmt, next_id)
  BY SoundParts
<1>4. /\ LiveIn(heap') = L \cup {new} /\ HeapInv(heap')
      /\ Grows(HeapChain(heap), HeapChain(heap'))
      /\ FileInv' /\ Dictionary' = Dictionary
  BY <1>3, InsertWrites DEF RowInserted, Grows
<1>5. new[1] = stmt'.ref /\ new[2] = row /\ row.id = next_id
  OBVIOUS
<1>6. stmt'.ref \in Refs
  BY <1>4, <1>5, LiveFacts
<1>7. next_id \in 1 .. MaxKey + 1 /\ next_id \in Nat
  BY <1>1, SizeFacts DEF Keys
<1> HIDE DEF L, new, row
<1>8. StatementIsSound(stmt', call', next_id')
  <2>1. <<>> \in Seq(Keys)
    OBVIOUS
  <2>2. stmt' \in StatementType
    BY <1>1, <1>6, <2>1 DEF StatementType, Statement
  <2> QED BY <1>1, <1>7, <2>2 DEF StatementIsSound, Inserting, RowIsGone
<1>9. IndexIsLive(Dictionary', LiveIn(heap'), stmt', next_id')
  <2>1. Dictionary \subseteq IdRefs(L)
    BY <1>2, <1>3 DEF IndexIsLive
  <2>2. IdRefs(L \cup {new}) = IdRefs(L) \cup {<<next_id, stmt'.ref>>}
    BY <1>5 DEF IdRefs
  <2> QED BY <1>1, <1>4, <1>6, <2>1, <2>2 DEF IndexIsLive
<1>10. KeptNow(F)'
  <2>1. /\ \A a, b \in L : a[2] \in F /\ a[2].id = b[2].id => a = b
        /\ \A r \in F : r.id \in Keys /\ r.id < next_id
    BY DEF KeptNow, Kept, L
  <2>2. \A r \in F : r.id # next_id
    BY <1>7, <2>1
  <2>3. \A a, b \in L \cup {new} : a[2] \in F /\ a[2].id = b[2].id => a = b
    BY <1>5, <2>1, <2>2
  <2> QED BY <1>1, <1>4, <2>1, <2>3 DEF KeptNow, Kept
<1> QED BY <1>4, <1>8, <1>9, <1>10, SoundParts DEF RowsStay, L

(* bptree.c goes on. *)
LEMMA IndexCallSound ==
  ASSUME SoundNow, NEW F, KeptNow(F), IndexCall
  PROVE  SoundNow' /\ KeptNow(F)' /\ RowsStay(heap, heap', F)
<1>1. /\ heap' = heap /\ next_id' = next_id /\ stmt' = stmt /\ Continue
  BY DEF IndexCall, meta
<1>2. FileInv /\ HeapInv(heap) /\ IndexIsLive(Dictionary, LiveIn(heap), stmt, next_id)
      /\ StatementIsSound(stmt, call, next_id)
  BY SoundParts
<1>3. FileInv' /\ Dictionary' = Dictionary
  <2>1. \A hp : TreeInv(hp) => TreeInv(hp)' /\ Dictionary' = Dictionary
    BY <1>1, ContinueKeeps
  <2>2. PICK D : D = Dictionary
    OBVIOUS
  <2> QED BY <1>1, <1>2, <2>1, <2>2, IndexChanges
<1>4. call # Idle
  BY <1>1, ContinueIsNotIdle
<1>5. StatementIsSound(stmt', call', next_id')
  BY <1>1, <1>2, <1>4 DEF StatementIsSound
<1> QED BY <1>1, <1>2, <1>3, <1>5, SoundParts DEF RowsStay, Grows, KeptNow

(* bptree_insert takes the new row, or refuses an id that it has.          *)
LEMMA IndexRowSound ==
  ASSUME SoundNow, NEW F, KeptNow(F), IndexRow
  PROVE  SoundNow' /\ KeptNow(F)' /\ RowsStay(heap, heap', F)
<1> DEFINE L == LiveIn(heap)
           pair == <<next_id, stmt.ref>>
<1>1. /\ heap' = heap /\ next_id' = next_id /\ stmt.kind = "insert"
  BY DEF IndexRow, meta
<1>2. /\ FileInv /\ HeapInv(heap) /\ IndexIsLive(Dictionary, L, stmt, next_id)
      /\ StatementIsSound(stmt, call, next_id)
  BY SoundParts
<1>3. /\ call = Idle /\ next_id \in Keys /\ stmt \in StatementType /\ stmt.ref \in Refs
      /\ pair \in IdRefs(L) /\ Dictionary \subseteq IdRefs(L) /\ next_id \in 1 .. MaxKey + 1
  BY <1>1, <1>2 DEF StatementIsSound, IndexIsLive, Inserting
<1>4. ASSUME stmt'.kind \in {"none", "inserted"} PROVE KeptNow(F)'
  BY <1>1, <1>4 DEF KeptNow, Kept
<1>5. CASE stmt' = NoStatement /\ UNCHANGED vars
  <2>1. /\ stmt'.kind = "none" /\ stmt'.ids = <<>> /\ <<>> \in Seq(Keys) /\ stmt' \in StatementType
    BY <1>5 DEF NoStatement, Statement, StatementType
  <2>2. StatementIsSound(stmt', call, next_id')
    BY <1>1, <1>3, <1>5, <2>1 DEF StatementIsSound, Inserting, RowIsGone
  <2>3. IndexIsLive(Dictionary, L, stmt', next_id')
    BY <1>3, <2>1 DEF IndexIsLive
  <2> QED BY <1>1, <1>4, <1>5, <2>1, <2>2, <2>3, OnlyThePlace
<1>6. CASE /\ InsertInLeaf(next_id, stmt.ref) \/ SplitLeaf(next_id, stmt.ref)
           /\ stmt' = [stmt EXCEPT !.kind = "inserted"]
  <2>1. PICK k \in Keys : k = next_id
    BY <1>3
  <2>2. PICK r \in Refs : r = stmt.ref
    BY <1>3
  <2>3. \A hp : TreeInv(hp) => TreeInv(hp)' /\ Dictionary' = Dictionary \cup {<<k, r>>}
    <3>1. CASE InsertInLeaf(k, r)
      BY <3>1, InsertInLeafKeeps
    <3>2. CASE SplitLeaf(k, r)
      BY <3>2, SplitLeafKeeps
    <3> QED BY <1>6, <2>1, <2>2, <3>1, <3>2
  <2>4. PICK D : D = Dictionary \cup {<<k, r>>}
    OBVIOUS
  <2>5. FileInv' /\ Dictionary' = D
    BY <1>1, <1>2, <2>3, <2>4, IndexChanges
  <2>6. Dictionary' \subseteq IdRefs(L)
    BY <1>3, <2>1, <2>2, <2>4, <2>5
  <2>7. /\ stmt' \in StatementType /\ stmt'.kind = "inserted" /\ stmt'.ids = stmt.ids
    BY <1>3, <1>6 DEF StatementType
  <2>8. StatementIsSound(stmt', call', next_id')
    BY <1>1, <1>3, <2>7 DEF StatementIsSound, Inserting, RowIsGone
  <2>9. IndexIsLive(Dictionary', LiveIn(heap'), stmt', next_id')
    BY <1>1, <2>6, <2>7 DEF IndexIsLive, L
  <2> QED BY <1>1, <1>2, <1>4, <2>5, <2>7, <2>8, <2>9, SoundParts DEF RowsStay, Grows
<1> QED BY <1>5, <1>6 DEF IndexRow


(* The counters catch up. *)
LEMMA FinishInsertSound ==
  ASSUME SoundNow, NEW F, KeptNow(F), FinishInsert
  PROVE  SoundNow' /\ KeptNow(F)' /\ RowsStay(heap, heap', F)
<1>1. /\ UNCHANGED <<vars, heap>> /\ heap' = heap /\ next_id' = next_id + 1
      /\ stmt.kind = "inserted" /\ call = Idle /\ stmt' = NoStatement
  BY DEF FinishInsert, vars
<1>2. /\ StatementIsSound(stmt, call, next_id) /\ IndexIsLive(Dictionary, LiveIn(heap), stmt, next_id)
  BY SoundParts
<1>3. /\ stmt'.kind = "none" /\ stmt'.ids = <<>> /\ <<>> \in Seq(Keys) /\ stmt' \in StatementType
  BY <1>1 DEF NoStatement, Statement, StatementType
<1>4. next_id \in Keys /\ next_id' \in 1 .. MaxKey + 1
  <2>1. next_id \in Keys
    BY <1>1, <1>2 DEF StatementIsSound, Inserting
  <2> QED BY <2>1, <1>1, SizeFacts DEF Keys
<1>5. StatementIsSound(stmt', call, next_id')
  BY <1>1, <1>3, <1>4 DEF StatementIsSound, Inserting, RowIsGone
<1>6. IndexIsLive(Dictionary, LiveIn(heap), stmt', next_id')
  BY <1>1, <1>2, <1>3 DEF IndexIsLive
<1>7. KeptNow(F)'
  <2>1. \A r \in F : r.id \in Keys /\ r.id < next_id
    BY DEF KeptNow, Kept
  <2>2. \A r \in F : r.id < next_id'
    BY <1>1, <1>4, <2>1, SizeFacts DEF Keys
  <2> QED BY <1>1, <1>3, <2>1, <2>2 DEF KeptNow, Kept
<1> QED BY <1>1, <1>5, <1>6, <1>7, OnlyThePlace

(* A DELETE that has collected its ids: none is that of a row in F. *)
LEMMA DeleteSound ==
  ASSUME SoundNow, NEW F, KeptNow(F), Ready, UNCHANGED <<vars, heap, next_id, row_count>>,
         stmt' = Statement("delete", stmt'.ids, NoStatement.ref), stmt'.ids \in Seq(Keys),
         \A r \in F : r.id \notin Range(stmt'.ids)
  PROVE  SoundNow' /\ KeptNow(F)' /\ RowsStay(heap, heap', F)
<1>1. /\ stmt.kind = "none" /\ call = Idle /\ heap' = heap /\ next_id' = next_id
      /\ stmt'.kind = "delete" /\ stmt'.ref = NoStatement.ref
  BY DEF Ready, NoStatement, Statement
<1>2. stmt' \in StatementType
  BY DEF StatementType, Statement
<1>3. /\ StatementIsSound(stmt, call, next_id) /\ IndexIsLive(Dictionary, LiveIn(heap), stmt, next_id)
  BY SoundParts
<1>4. StatementIsSound(stmt', call, next_id')
  BY <1>1, <1>2, <1>3 DEF StatementIsSound, Inserting, RowIsGone
<1>5. IndexIsLive(Dictionary, LiveIn(heap), stmt', next_id')
  BY <1>1, <1>3 DEF IndexIsLive
<1>6. KeptNow(F)'
  BY <1>1 DEF KeptNow, Kept
<1> QED BY <1>4, <1>5, <1>6, OnlyThePlace

(* WHERE id = k *)
LEMMA DeleteByIdSound ==
  ASSUME SoundNow, NEW F, KeptNow(F), NEW k \in Keys, DeleteById(k), \A r \in F : r.id # k
  PROVE  SoundNow' /\ KeptNow(F)' /\ RowsStay(heap, heap', F)
<1>1. /\ Ready /\ UNCHANGED <<vars, heap, next_id, row_count>>
      /\ stmt' = Statement("delete", <<k>>, NoStatement.ref)
  BY DEF DeleteById, meta
<1>2. stmt'.ids = <<k>>
  BY <1>1, StatementFacts
<1>3. <<k>> \in Seq(Keys) /\ Range(<<k>>) = {k}
  BY DEF Range
<1>4. stmt' = Statement("delete", stmt'.ids, NoStatement.ref) /\ stmt'.ids \in Seq(Keys)
  BY <1>1, <1>2, <1>3
<1>5. \A r \in F : r.id \notin Range(stmt'.ids)
  BY <1>2, <1>3
<1> QED BY <1>1, <1>4, <1>5, DeleteSound

(* No WHERE, or WHERE on a user column: an id that is collected may be     *)
(* that of two rows, but then neither is in F.                             *)
LEMMA DeleteMatchingSound ==
  ASSUME SoundNow, NEW F, KeptNow(F), F \subseteq {a[2] : a \in LiveIn(heap)},
         NEW selected, DeleteMatching(selected), \A r \in F : r.val \notin selected
  PROVE  SoundNow' /\ KeptNow(F)' /\ RowsStay(heap, heap', F)
<1> DEFINE L == LiveIn(heap)
<1>1. HeapInv(heap)
  BY SoundParts
<1>2. /\ Ready /\ UNCHANGED <<vars, heap, next_id, row_count>>
      /\ stmt' = Statement("delete", stmt'.ids, NoStatement.ref) /\ stmt'.ids \in Seq(Keys)
      /\ \A k : k \in Range(stmt'.ids) <=> \E a \in L : a[2].id = k /\ a[2].val \in selected
  BY <1>1, IdsCollected
<1>3. \A r \in F : r.id \notin Range(stmt'.ids)
  <2> SUFFICES ASSUME NEW r \in F, r.id \in Range(stmt'.ids) PROVE FALSE
    OBVIOUS
  <2>1. PICK a \in L : a[2].id = r.id /\ a[2].val \in selected
    BY <1>2
  <2>2. PICK b \in L : b[2] = r
    OBVIOUS
  <2>3. b = a
    BY <2>1, <2>2 DEF KeptNow, Kept
  <2> QED BY <2>1, <2>2, <2>3
<1> QED BY <1>2, <1>3, DeleteSound

(* The row that an id leads to has that id. *)
LEMMA RemoveRowSound ==
  ASSUME SoundNow, NEW F, KeptNow(F), RemoveRow
  PROVE  SoundNow' /\ KeptNow(F)' /\ RowsStay(heap, heap', F)
<1> DEFINE L == LiveIn(heap)
           found == Search(stmt.ids[1])
<1>1. /\ UNCHANGED vars /\ next_id' = next_id /\ call' = call
      /\ stmt.kind = "delete" /\ stmt.ids # <<>>
  BY DEF RemoveRow, vars, meta
<1>2. /\ FileInv /\ HeapInv(heap) /\ IndexIsLive(Dictionary, L, stmt, next_id)
      /\ StatementIsSound(stmt, call, next_id)
  BY SoundParts
<1>3. /\ call = Idle /\ stmt \in StatementType /\ stmt.ids \in Seq(Keys)
      /\ Dictionary \subseteq IdRefs(L) /\ next_id \in 1 .. MaxKey + 1
  BY <1>1, <1>2 DEF StatementIsSound, StatementType, IndexIsLive
<1>4. /\ stmt.ids[1] \in Keys /\ Tail(stmt.ids) \in Seq(Keys)
      /\ Range(stmt.ids) = {stmt.ids[1]} \cup Range(Tail(stmt.ids))
  BY <1>1, <1>3, FirstAndRest
<1>5. PICK hp : TreeInv(hp)
  BY <1>2 DEF FileInv
<1>6. found = {r \in Refs : <<stmt.ids[1], r>> \in Dictionary}
  BY <1>3, <1>4, <1>5, SearchFacts
<1>7. \A r \in F : r.id \notin Range(stmt.ids)
  BY <1>1 DEF KeptNow, Kept
<1> HIDE DEF found, L
<1>8. CASE found = {}
  <2>1. heap' = heap /\ stmt' = [stmt EXCEPT !.ids = Tail(@)]
    BY <1>8 DEF RemoveRow, found
  <2>2. stmt'.kind = "delete" /\ stmt'.ids = Tail(stmt.ids) /\ stmt' \in StatementType
    BY <1>1, <1>3, <1>4, <2>1 DEF StatementType
  <2>3. StatementIsSound(stmt', call, next_id')
    BY <1>1, <1>3, <2>2 DEF StatementIsSound, Inserting, RowIsGone
  <2>4. IndexIsLive(Dictionary, LiveIn(heap), stmt', next_id')
    BY <1>3, <2>2 DEF IndexIsLive, L
  <2>5. KeptNow(F)'
    BY <1>1, <1>4, <1>7, <2>1, <2>2 DEF KeptNow, Kept
  <2> QED BY <1>1, <2>1, <2>3, <2>4, <2>5, OnlyThePlace
<1>9. CASE found # {}
  <2> DEFINE at == CHOOSE ref \in found : TRUE
  <2>1. at \in found
    BY <1>9
  <2>2. heap' = HeapDelete(heap, at) /\ stmt' = [stmt EXCEPT !.kind = "unindex"]
    BY <1>9 DEF RemoveRow, found
  <2>3. PICK ref : ref = at
    OBVIOUS
  <2> HIDE DEF at
  <2>4. ref \in Refs /\ <<stmt.ids[1], ref>> \in IdRefs(L)
    BY <1>3, <1>6, <2>1, <2>3
  <2>5. PICK a \in L : a[2].id = stmt.ids[1] /\ a[1] = ref
    BY <2>4 DEF IdRefs
  <2>6. ref \in SlotsOf(heap) /\ IsAlive(heap, ref) /\ a = <<ref, SlotAt(heap, ref).row>>
    <3>1. /\ a[1] \in SlotsOf(heap) /\ IsAlive(heap, a[1])
          /\ a = <<a[1], a[2]>> /\ a[2] = SlotAt(heap, a[1]).row
      BY <1>2, LiveFacts DEF L
    <3> QED BY <3>1, <2>5
  <2>7. HeapInv(heap') /\ HeapChain(heap') = HeapChain(heap) /\ LiveIn(heap') = L \ {a}
    BY <1>2, <2>2, <2>3, <2>6, DeleteStep DEF L
  <2>8. stmt'.kind = "unindex" /\ stmt'.ids = stmt.ids /\ stmt' \in StatementType
    BY <1>3, <2>2 DEF StatementType
  <2>9. a[2] \notin F
    BY <1>4, <1>7, <2>5
  <2>10. FileInv' /\ Dictionary' = Dictionary
    <3>1. PICK hp1 : HeapPages(hp1) /\ TreeInv(hp1)
      BY <1>2 DEF FileInv
    <3>2. TreeInv(hp1)' /\ Dictionary' = Dictionary
      BY <1>1, <3>1, StutterKeeps
    <3>3. HeapPages(hp1)'
      BY <3>1, <2>7 DEF HeapPages
    <3> QED BY <3>2, <3>3 DEF FileInv
  <2>11. StatementIsSound(stmt', call', next_id')
    BY <1>1, <1>3, <2>8 DEF StatementIsSound, Inserting, RowIsGone
  <2>12. IndexIsLive(Dictionary', LiveIn(heap'), stmt', next_id')
    <3>1. IdRefs(L) \subseteq IdRefs(L \ {a}) \cup {<<stmt.ids[1], ref>>}
      BY <2>5 DEF IdRefs
    <3>2. Dictionary' \subseteq IdRefs(LiveIn(heap')) \cup {<<stmt.ids[1], ref>>}
      BY <1>3, <2>7, <2>10, <3>1
    <3> QED BY <2>4, <2>8, <3>2 DEF IndexIsLive
  <2>13. KeptNow(F)'
    BY <1>1, <1>7, <2>7, <2>8 DEF KeptNow, Kept, L
  <2>14. RowsStay(heap, heap', F)
    BY <2>7, <2>9 DEF RowsStay, Grows, L
  <2> QED BY <2>7, <2>10, <2>11, <2>12, <2>13, <2>14, SoundParts
<1> QED BY <1>8, <1>9

(* bptree_delete takes out the entry of the row that is gone, the only one *)
(* with its key.                                                           *)
LEMMA UnindexRowSound ==
  ASSUME SoundNow, NEW F, KeptNow(F), UnindexRow
  PROVE  SoundNow' /\ KeptNow(F)' /\ RowsStay(heap, heap', F)
<1> DEFINE L == LiveIn(heap)
           k == stmt.ids[1]
<1>1. /\ heap' = heap /\ next_id' = next_id
      /\ stmt.kind = "unindex" /\ stmt' = [stmt EXCEPT !.kind = "deleted"]
      /\ Delete(k)
  BY DEF UnindexRow, meta
<1>2. /\ FileInv /\ HeapInv(heap) /\ IndexIsLive(Dictionary, L, stmt, next_id)
      /\ StatementIsSound(stmt, call, next_id)
  BY SoundParts
<1>3. /\ stmt \in StatementType /\ stmt.ids # <<>> /\ next_id \in 1 .. MaxKey + 1 /\ call = Idle
  BY <1>1, <1>2 DEF StatementIsSound, RowIsGone
<1>4. k \in Keys
  <2>1. stmt.ids \in Seq(Keys)
    BY <1>3 DEF StatementType
  <2> QED BY <1>3, <2>1
<1>5. PICK ref \in Refs : Dictionary \subseteq IdRefs(L) \cup {<<k, ref>>}
  BY <1>1, <1>2 DEF IndexIsLive
<1>6. PICK hp : HeapPages(hp) /\ TreeInv(hp)
  BY <1>2 DEF FileInv
<1> HIDE DEF k, L
<1>7. TreeInv(hp)' /\ \E pair \in Dictionary : pair[1] = k /\ Dictionary' = Dictionary \ {pair}
  BY <1>1, <1>4, <1>6, DeleteKeeps
<1>8. FileInv'
  <2>1. HeapPages(hp)'
    BY <1>1, <1>6 DEF HeapPages
  <2> QED BY <1>7, <2>1 DEF FileInv
<1>9. \A r1, r2 \in Refs : <<k, r1>> \in Dictionary /\ <<k, r2>> \in Dictionary => r1 = r2
  <2>1. Search(k) = {r \in Refs : <<k, r>> \in Dictionary}
    BY <1>3, <1>4, <1>6, SearchFacts
  <2>2. \A r1, r2 \in Search(k) : r1 = r2
    BY DEF Search
  <2> QED BY <2>1, <2>2
<1>10. \A q \in IdRefs(L) : q = <<q[1], q[2]>> /\ q[2] \in Refs
  <2> SUFFICES ASSUME NEW a \in L
               PROVE  LET q == <<a[2].id, a[1]>> IN q = <<q[1], q[2]>> /\ q[2] \in Refs
    BY DEF IdRefs
  <2>1. a[1] \in Refs
    BY <1>2, LiveFacts DEF L
  <2> QED BY <2>1
<1>11. Dictionary' \subseteq IdRefs(L)
  <2>1. PICK pair \in Dictionary : pair[1] = k /\ Dictionary' = Dictionary \ {pair}
    BY <1>7
  <2>2. pair = <<k, pair[2]>> /\ pair[2] \in Refs
    <3>1. CASE pair \in IdRefs(L)
      BY <3>1, <1>10, <2>1
    <3>2. CASE pair = <<k, ref>>
      BY <3>2
    <3> QED BY <3>1, <3>2, <1>5
  <2>3. <<k, ref>> \in Dictionary => pair = <<k, ref>>
    BY <1>9, <2>1, <2>2
  <2> QED BY <1>5, <2>1, <2>3
<1>12. stmt'.kind = "deleted" /\ stmt'.ids = stmt.ids /\ stmt' \in StatementType
  BY <1>1, <1>3 DEF StatementType
<1>13. StatementIsSound(stmt', call', next_id')
  BY <1>1, <1>3, <1>12 DEF StatementIsSound, Inserting, RowIsGone
<1>14. IndexIsLive(Dictionary', LiveIn(heap'), stmt', next_id')
  BY <1>1, <1>11, <1>12 DEF IndexIsLive, L
<1>15. KeptNow(F)'
  BY <1>1, <1>12 DEF KeptNow, Kept
<1> QED BY <1>1, <1>2, <1>8, <1>13, <1>14, <1>15, SoundParts DEF RowsStay, Grows

(* row_count, and the next id. *)
LEMMA CountDeletedSound ==
  ASSUME SoundNow, NEW F, KeptNow(F), CountDeleted
  PROVE  SoundNow' /\ KeptNow(F)' /\ RowsStay(heap, heap', F)
<1>1. /\ UNCHANGED <<vars, heap>> /\ heap' = heap /\ next_id' = next_id
      /\ stmt.kind = "deleted" /\ call = Idle
      /\ stmt' = [stmt EXCEPT !.kind = "delete", !.ids = Tail(@)]
  BY DEF CountDeleted, vars
<1>2. /\ StatementIsSound(stmt, call, next_id) /\ IndexIsLive(Dictionary, LiveIn(heap), stmt, next_id)
  BY SoundParts
<1>3. stmt \in StatementType /\ stmt.ids # <<>> /\ next_id \in 1 .. MaxKey + 1
  BY <1>1, <1>2 DEF StatementIsSound, RowIsGone
<1>4. stmt.ids \in Seq(Keys)
  BY <1>3 DEF StatementType
<1>5. Tail(stmt.ids) \in Seq(Keys) /\ Range(stmt.ids) = {stmt.ids[1]} \cup Range(Tail(stmt.ids))
  BY <1>3, <1>4, FirstAndRest
<1>6. /\ stmt'.kind = "delete" /\ stmt'.ids = Tail(stmt.ids) /\ stmt' \in StatementType
  BY <1>1, <1>3, <1>5 DEF StatementType
<1>7. StatementIsSound(stmt', call, next_id')
  BY <1>1, <1>3, <1>6 DEF StatementIsSound, Inserting, RowIsGone
<1>8. IndexIsLive(Dictionary, LiveIn(heap), stmt', next_id')
  BY <1>1, <1>2, <1>6 DEF IndexIsLive
<1>9. KeptNow(F)'
  BY <1>1, <1>5, <1>6 DEF KeptNow, Kept
<1> QED BY <1>1, <1>7, <1>8, <1>9, OnlyThePlace

(* The ids are used up. *)
LEMMA FinishDeleteSound ==
  ASSUME SoundNow, NEW F, KeptNow(F), FinishDelete
  PROVE  SoundNow' /\ KeptNow(F)' /\ RowsStay(heap, heap', F)
<1>1. /\ UNCHANGED <<vars, heap>> /\ next_id' = next_id /\ heap' = heap
      /\ stmt.kind = "delete" /\ stmt' = NoStatement
  BY DEF FinishDelete, meta
<1>2. /\ StatementIsSound(stmt, call, next_id) /\ IndexIsLive(Dictionary, LiveIn(heap), stmt, next_id)
  BY SoundParts
<1>3. /\ stmt'.kind = "none" /\ stmt'.ids = <<>> /\ <<>> \in Seq(Keys) /\ stmt' \in StatementType
  BY <1>1 DEF NoStatement, Statement, StatementType
<1>4. StatementIsSound(stmt', call, next_id')
  BY <1>1, <1>2, <1>3 DEF StatementIsSound, Inserting, RowIsGone
<1>5. IndexIsLive(Dictionary, LiveIn(heap), stmt', next_id')
  BY <1>1, <1>2, <1>3 DEF IndexIsLive
<1>6. KeptNow(F)'
  BY <1>1, <1>3 DEF KeptNow, Kept
<1> QED BY <1>1, <1>4, <1>5, <1>6, OnlyThePlace

(* CREATE TABLE. *)
LEMMA CreateTableSound ==
  ASSUME SoundNow, NEW F, KeptNow(F), CreateTable
  PROVE  SoundNow' /\ KeptNow(F)' /\ RowsStay(heap, heap', F)
<1>1. UNCHANGED <<vars, heap>> /\ next_id' = next_id /\ heap' = heap /\ stmt' = stmt
  BY DEF CreateTable
<1>2. /\ StatementIsSound(stmt, call, next_id) /\ IndexIsLive(Dictionary, LiveIn(heap), stmt, next_id)
  BY SoundParts
<1> QED BY <1>1, <1>2, OnlyThePlace DEF KeptNow

(* Whatever a statement does, the rows that nobody has asked to delete     *)
(* stay where they are.                                                    *)
LEMMA StatementsSound ==
  ASSUME SoundNow, KeptNow(flushed), flushed \subseteq {a[2] : a \in LiveIn(heap)},
         Statements
  PROVE  /\ SoundNow' /\ KeptNow(flushed)' /\ RowsStay(heap, heap', flushed')
         /\ flushed' \subseteq flushed /\ DbNext /\ UNCHANGED <<disk, written, stale>>
<1>1. PICK F : F = flushed'
  OBVIOUS
<1>2. SUFFICES /\ SoundNow' /\ KeptNow(F)' /\ RowsStay(heap, heap', F)
               /\ F \subseteq flushed /\ DbNext /\ UNCHANGED <<disk, written, stale>>
  BY <1>1 DEF KeptNow
<1>3. F \subseteq flushed => KeptNow(F)
  BY DEF KeptNow, Kept
<1>4. CASE (CreateTable \/ Proceed \/ \E v \in Vals : InsertRow(v)) /\ Keeping(Rows)
  <2>1. F \subseteq flushed /\ UNCHANGED <<disk, written, stale>> /\ KeptNow(F)
    BY <1>1, <1>3, <1>4 DEF Keeping
  <2>2. ASSUME NEW v \in Vals, InsertRow(v)
        PROVE  SoundNow' /\ KeptNow(F)' /\ RowsStay(heap, heap', F)
    BY <2>1, <2>2, InsertRowSound
  <2>3. ASSUME Proceed PROVE SoundNow' /\ KeptNow(F)' /\ RowsStay(heap, heap', F)
    <3>1. CASE IndexCall BY <3>1, <2>1, IndexCallSound
    <3>2. CASE IndexRow BY <3>2, <2>1, IndexRowSound
    <3>3. CASE FinishInsert BY <3>3, <2>1, FinishInsertSound
    <3>4. CASE RemoveRow BY <3>4, <2>1, RemoveRowSound
    <3>5. CASE UnindexRow BY <3>5, <2>1, UnindexRowSound
    <3>6. CASE CountDeleted BY <3>6, <2>1, CountDeletedSound
    <3>7. CASE FinishDelete BY <3>7, <2>1, FinishDeleteSound
    <3> QED BY <2>3, <3>1, <3>2, <3>3, <3>4, <3>5, <3>6, <3>7 DEF Proceed
  <2>4. CreateTable => SoundNow' /\ KeptNow(F)' /\ RowsStay(heap, heap', F)
    BY <2>1, CreateTableSound
  <2>5. DbNext
    BY <1>4 DEF DbNext
  <2> QED BY <1>4, <2>1, <2>2, <2>3, <2>4, <2>5
<1>5. ASSUME NEW S \in {Vals} \cup {{v} : v \in Vals}, DeleteMatching(S), Keeping(Other(S))
      PROVE  /\ SoundNow' /\ KeptNow(F)' /\ RowsStay(heap, heap', F)
             /\ F \subseteq flushed /\ DbNext /\ UNCHANGED <<disk, written, stale>>
  <2>1. /\ F \subseteq flushed /\ UNCHANGED <<disk, written, stale>> /\ KeptNow(F)
        /\ \A r \in F : r.val \notin S
    BY <1>1, <1>3, <1>5 DEF Keeping, Other
  <2>2. F \subseteq {a[2] : a \in LiveIn(heap)}
    BY <2>1
  <2>3. DbNext
    BY <1>5 DEF DbNext
  <2> QED BY <1>5, <2>1, <2>2, <2>3, DeleteMatchingSound
<1>6. ASSUME NEW k \in Keys, DeleteById(k), Keeping({row \in Rows : row.id # k})
      PROVE  /\ SoundNow' /\ KeptNow(F)' /\ RowsStay(heap, heap', F)
             /\ F \subseteq flushed /\ DbNext /\ UNCHANGED <<disk, written, stale>>
  <2>1. /\ F \subseteq flushed /\ UNCHANGED <<disk, written, stale>> /\ KeptNow(F)
        /\ \A r \in F : r.id # k
    BY <1>1, <1>3, <1>6 DEF Keeping
  <2>2. DbNext
    BY <1>6 DEF DbNext
  <2> QED BY <1>6, <2>1, <2>2, DeleteByIdSound
<1> QED BY <1>4, <1>5, <1>6 DEF Statements

-----------------------------------------------------------------------------
(* The file *)

AsHeap(file) == [pages |-> file.slotted, last |-> NULL]

(* The heap that pager_open finds. *)
HeapOf(file) ==
  LET chain == HeapChain(AsHeap(file))
  IN  [pages |-> file.slotted, last |-> chain[Len(chain)]]

FileShape(file) ==
  /\ file = [pages |-> file.pages, slotted |-> file.slotted,
             header |-> file.header, meta |-> file.meta]
  /\ file.pages = [p \in PageIds |-> file.pages[p]]
  /\ file.slotted \in [PageIds -> HeapPage]
  /\ \A p \in PageIds : PageInv(file.slotted[p])
  /\ file.meta[2] \in 1 .. MaxKey + 1

(* No page of the file has a link that the heap in memory does not have:   *)
(* what is older ends the chain.                                           *)
LinksStay(chain, file) ==
  /\ \A k \in 1 .. Len(chain) - 1 : file.slotted[chain[k]].next \in {NULL, chain[k + 1]}
  /\ file.slotted[chain[Len(chain)]].next = NULL
  /\ \A p \in PageIds \ Range(chain) : file.slotted[p].next = NULL

(* Some part of the chain from its first page on is in the file, linked    *)
(* and of the right type, and the rows F are there where they are in       *)
(* memory.                                                                 *)
Remains(chain, file, L, F) ==
  \E m \in 1 .. Len(chain) :
    /\ \A k \in 1 .. m : file.pages[chain[k]].type = "HEAP"
    /\ \A k \in 1 .. m - 1 : file.slotted[chain[k]].next = chain[k + 1]
    /\ \A r \in F : \E k \in 1 .. m : \E i :
         <<<<chain[k], i>>, r>> \in L \cap LiveIn(AsHeap(file))

(* Live rows and the chain depend on the slotted pages only. *)
LEMMA SamePages ==
  ASSUME NEW h, NEW h2, h.pages = h2.pages
  PROVE  LiveIn(h) = LiveIn(h2) /\ HeapChain(h) = HeapChain(h2)
BY DEF LiveIn, LiveSlots, SlotsOf, SlotAt, IsAlive, HeapChain

(* A part of the rows. *)
LEMMA RemainsLess ==
  ASSUME NEW chain, NEW file, NEW L, NEW G, NEW F, F \subseteq G, Remains(chain, file, L, G)
  PROVE  Remains(chain, file, L, F)
BY DEF Remains

(* The rows that remain are live in memory and in the file. *)
LEMMA RemainingRows ==
  ASSUME NEW chain, NEW file, NEW L, NEW F, Remains(chain, file, L, F)
  PROVE  F \subseteq {a[2] : a \in L} /\ F \subseteq {a[2] : a \in LiveIn(AsHeap(file))}
<1> SUFFICES ASSUME NEW r \in F
             PROVE  /\ \E a \in L : a[2] = r
                    /\ \E a \in LiveIn(AsHeap(file)) : a[2] = r
  OBVIOUS
<1>1. PICK k, i : <<<<chain[k], i>>, r>> \in L \cap LiveIn(AsHeap(file))
  BY DEF Remains
<1> DEFINE a == <<<<chain[k], i>>, r>>
<1>2. a[2] = r /\ a \in L /\ a \in LiveIn(AsHeap(file))
  BY <1>1
<1> HIDE DEF a
<1> QED BY <1>2

(* A statement goes on, and nothing is written. *)
LEMMA RemainsInFile ==
  ASSUME NEW h, HeapInv(h), NEW h2, NEW file, NEW F, RowsStay(h, h2, F),
         LinksStay(HeapChain(h), file), Remains(HeapChain(h), file, LiveIn(h), F)
  PROVE  LinksStay(HeapChain(h2), file) /\ Remains(HeapChain(h2), file, LiveIn(h2), F)
<1> DEFINE s == HeapChain(h)
           t == HeapChain(h2)
           Rests(m, chain, L) ==
             /\ \A k \in 1 .. m : file.pages[chain[k]].type = "HEAP"
             /\ \A k \in 1 .. m - 1 : file.slotted[chain[k]].next = chain[k + 1]
             /\ \A r \in F : \E k \in 1 .. m : \E i :
                  <<<<chain[k], i>>, r>> \in L \cap LiveIn(AsHeap(file))
<1>1. s \in Seq(PageIds) /\ Len(s) \in Nat /\ Len(s) >= 1
  BY ChainRow
<1>2. PICK m \in 1 .. Len(s) : Rests(m, s, LiveIn(h))
  BY DEF Remains
<1>3. \A a \in LiveIn(h) : a[2] \in F => a \in LiveIn(h2)
  BY DEF RowsStay
<1> HIDE DEF s, t
<1>4. Rests(m, s, LiveIn(h2))
  <2> SUFFICES ASSUME NEW r \in F
               PROVE  \E k \in 1 .. m : \E i :
                        <<<<s[k], i>>, r>> \in LiveIn(h2) \cap LiveIn(AsHeap(file))
    BY <1>2
  <2>1. PICK k \in 1 .. m : \E i : <<<<s[k], i>>, r>> \in LiveIn(h) \cap LiveIn(AsHeap(file))
    BY <1>2
  <2>2. PICK i : <<<<s[k], i>>, r>> \in LiveIn(h) \cap LiveIn(AsHeap(file))
    BY <2>1
  <2> DEFINE a == <<<<s[k], i>>, r>>
  <2>3. a[2] = r /\ a \in LiveIn(h) /\ a \in LiveIn(AsHeap(file))
    BY <2>2
  <2>4. a \in LiveIn(h2)
    BY <1>3, <2>3
  <2> QED BY <2>3, <2>4
<1>5. CASE t = s
  BY <1>2, <1>4, <1>5 DEF Remains, s, t
<1>6. CASE \E new \in PageIds \ Range(s) : t = Append(s, new)
  <2>1. PICK new \in PageIds \ Range(s) : t = Append(s, new)
    BY <1>6
  <2>2. /\ t \in Seq(PageIds) /\ Len(t) = Len(s) + 1 /\ t[Len(s) + 1] = new
        /\ \A k \in 1 .. Len(s) : t[k] = s[k]
    BY <1>1, <2>1, AppendProperties
  <2>3. m \in 1 .. Len(t) /\ \A k \in 1 .. m : t[k] = s[k]
    BY <1>1, <2>2
  <2>4. \A k \in 1 .. m - 1 : k \in 1 .. m /\ t[k + 1] = s[k + 1]
    BY <1>1, <2>2
  <2>5. Rests(m, t, LiveIn(h2))
    BY <1>4, <2>3, <2>4
  <2>6. LinksStay(s, file)
    BY DEF s
  <2>7. ASSUME NEW k \in 1 .. Len(t) - 1 PROVE file.slotted[t[k]].next \in {NULL, t[k + 1]}
    <3>1. k \in 1 .. Len(s) /\ t[k] = s[k]
      BY <1>1, <2>2
    <3>2. CASE k = Len(s)
      BY <2>6, <3>1, <3>2 DEF LinksStay
    <3>3. CASE k # Len(s)
      <4>1. k \in 1 .. Len(s) - 1 /\ k + 1 \in 1 .. Len(s)
        BY <1>1, <3>1, <3>3
      <4> QED BY <2>2, <2>6, <3>1, <4>1 DEF LinksStay
    <3> QED BY <3>2, <3>3
  <2>8. file.slotted[t[Len(t)]].next = NULL
    BY <1>1, <2>2, <2>6 DEF LinksStay
  <2>9. Range(s) \subseteq Range(t)
    <3>1. \A k \in DOMAIN s : k \in DOMAIN t /\ t[k] = s[k]
      BY <1>1, <2>2
    <3> QED BY <3>1 DEF Range
  <2>10. \A p \in PageIds \ Range(t) : file.slotted[p].next = NULL
    BY <2>6, <2>9 DEF LinksStay
  <2> QED BY <2>3, <2>5, <2>7, <2>8, <2>10 DEF LinksStay, Remains, t
<1> QED BY <1>5, <1>6 DEF RowsStay, Grows, s, t

(* A page is written back. *)
WrittenBack(file, file2, q, pg, h) ==
  file2 = [file EXCEPT !.pages[q] = pg[q], !.slotted[q] = h.pages[q]]
LEMMA RemainsAfterWrite ==
  ASSUME NEW h, HeapInv(h), NEW pg, \A p \in Range(HeapChain(h)) : pg[p].type = "HEAP",
         NEW file, FileShape(file), NEW F,
         LinksStay(HeapChain(h), file), Remains(HeapChain(h), file, LiveIn(h), F),
         NEW q \in PageIds, NEW file2, WrittenBack(file, file2, q, pg, h)
  PROVE  /\ FileShape(file2) /\ file2.meta = file.meta
         /\ LinksStay(HeapChain(h), file2) /\ Remains(HeapChain(h), file2, LiveIn(h), F)
<1> DEFINE s == HeapChain(h)
<1>1. /\ s \in Seq(PageIds) /\ Len(s) \in Nat /\ Len(s) >= 1
      /\ \A k \in 1 .. Len(s) - 1 : h.pages[s[k]].next = s[k + 1]
      /\ h.pages[s[Len(s)]].next = NULL
      /\ \A p \in PageIds \ Range(s) : h.pages[p] = NewHeapPage
  BY ChainRow
<1>2. \A k \in 1 .. Len(s) : s[k] \in PageIds /\ s[k] \in Range(s)
  BY <1>1 DEF Range
<1> HIDE DEF s
<1>3. /\ file2.meta = file.meta /\ file2.header = file.header
      /\ file2.pages = [file.pages EXCEPT ![q] = pg[q]]
      /\ file2.slotted = [file.slotted EXCEPT ![q] = h.pages[q]]
      /\ file2 = [pages |-> file2.pages, slotted |-> file2.slotted,
                  header |-> file2.header, meta |-> file2.meta]
  <2>1. file = [pages |-> file.pages, slotted |-> file.slotted,
                header |-> file.header, meta |-> file.meta]
    BY DEF FileShape
  <2> QED BY <2>1 DEF WrittenBack
<1>4. /\ file2.pages = [p \in PageIds |-> file2.pages[p]]
      /\ \A p \in PageIds : file2.pages[p] = IF p = q THEN pg[q] ELSE file.pages[p]
  <2>1. file.pages = [p \in PageIds |-> file.pages[p]]
    BY DEF FileShape
  <2> QED BY <1>3, <2>1
<1>5. /\ file2.slotted \in [PageIds -> HeapPage]
      /\ \A p \in PageIds : file2.slotted[p] = IF p = q THEN h.pages[q] ELSE file.slotted[p]
  <2>1. file.slotted \in [PageIds -> HeapPage] /\ h.pages[q] \in HeapPage
    BY DEF FileShape, HeapInv
  <2> QED BY <1>3, <2>1
<1>6. \A p \in PageIds : PageInv(file2.slotted[p]) /\ PageInv(file.slotted[p])
  BY <1>5 DEF FileShape, HeapInv
<1>7. FileShape(file2)
  BY <1>3, <1>4, <1>5, <1>6 DEF FileShape
<1>8. LinksStay(s, file2)
  <2>1. LinksStay(s, file)
    BY DEF s
  <2>2. ASSUME NEW k \in 1 .. Len(s) - 1 PROVE file2.slotted[s[k]].next \in {NULL, s[k + 1]}
    <3>1. s[k] \in PageIds
      BY <1>1, <1>2
    <3> QED BY <3>1, <2>1, <1>1, <1>5 DEF LinksStay
  <2>3. file2.slotted[s[Len(s)]].next = NULL
    <3>1. s[Len(s)] \in PageIds
      BY <1>1, <1>2
    <3> QED BY <3>1, <2>1, <1>1, <1>5 DEF LinksStay
  <2>4. NewHeapPage.next = NULL
    BY DEF NewHeapPage
  <2>5. \A p \in PageIds \ Range(s) : file2.slotted[p].next = NULL
    BY <2>1, <2>4, <1>1, <1>5 DEF LinksStay
  <2> QED BY <2>2, <2>3, <2>5 DEF LinksStay
<1>9. ASSUME NEW x \in LiveIn(h), x \in LiveIn(AsHeap(file)) PROVE x \in LiveIn(AsHeap(file2))
  <2> DEFINE f == AsHeap(file)
             g == AsHeap(file2)
  <2>1. f.pages = file.slotted /\ g.pages = file2.slotted
    BY DEF AsHeap
  <2>2. PICK p, i : AliveAt(h, p, i) /\ x = PairAt(h, p, i)
    BY LiveRow DEF HeapInv
  <2> HIDE DEF f, g
  <2>3. AliveAt(f, p, i) /\ x = PairAt(f, p, i)
    <3>1. PICK p1, i1 : AliveAt(f, p1, i1) /\ x = PairAt(f, p1, i1)
      BY <1>6, <1>9, <2>1, LiveRow DEF f
    <3>2. p1 = p /\ i1 = i
      BY <2>2, <3>1 DEF PairAt
    <3> QED BY <3>1, <3>2
  <2>4. p \in PageIds
    BY <2>2 DEF AliveAt
  <2>5. AliveAt(g, p, i) /\ x = PairAt(g, p, i)
    BY <1>5, <2>1, <2>2, <2>3, <2>4 DEF AliveAt, PairAt
  <2> QED BY <1>6, <2>1, <2>5, LiveRow DEF g
<1>10. Remains(s, file2, LiveIn(h), F)
  <2>1. PICK m \in 1 .. Len(s) :
          /\ \A k \in 1 .. m : file.pages[s[k]].type = "HEAP"
          /\ \A k \in 1 .. m - 1 : file.slotted[s[k]].next = s[k + 1]
          /\ \A r \in F : \E k \in 1 .. m : \E i :
               <<<<s[k], i>>, r>> \in LiveIn(h) \cap LiveIn(AsHeap(file))
    BY DEF Remains, s
  <2>2. \A k \in 1 .. m : k \in 1 .. Len(s) /\ s[k] \in PageIds /\ pg[s[k]].type = "HEAP"
    BY <1>1, <1>2 DEF s
  <2>3. \A k \in 1 .. m - 1 : k \in 1 .. m /\ k \in 1 .. Len(s) - 1
    BY <1>1
  <2>4. \A k \in 1 .. m : file2.pages[s[k]].type = "HEAP"
    BY <1>4, <2>1, <2>2
  <2>5. \A k \in 1 .. m - 1 : file2.slotted[s[k]].next = s[k + 1]
    BY <1>1, <1>5, <2>1, <2>2, <2>3
  <2>6. \A r \in F : \E k \in 1 .. m : \E i :
          <<<<s[k], i>>, r>> \in LiveIn(h) \cap LiveIn(AsHeap(file2))
    BY <1>9, <2>1
  <2> QED BY <2>4, <2>5, <2>6 DEF Remains
<1> QED BY <1>3, <1>7, <1>8, <1>10 DEF s

(* All of the heap is in the file. *)
LEMMA RemainsWhole ==
  ASSUME NEW h, HeapInv(h), NEW file, file.slotted = h.pages,
         \A p \in Range(HeapChain(h)) : file.pages[p].type = "HEAP",
         NEW F, F \subseteq {a[2] : a \in LiveIn(h)}
  PROVE  LinksStay(HeapChain(h), file) /\ Remains(HeapChain(h), file, LiveIn(h), F)
<1> DEFINE s == HeapChain(h)
<1>1. /\ s \in Seq(PageIds) /\ Len(s) \in Nat /\ Len(s) >= 1
      /\ \A k \in 1 .. Len(s) - 1 : h.pages[s[k]].next = s[k + 1]
      /\ h.pages[s[Len(s)]].next = NULL
      /\ \A p \in PageIds \ Range(s) : h.pages[p] = NewHeapPage
  BY ChainRow
<1>2. \A k \in 1 .. Len(s) : s[k] \in Range(s)
  BY <1>1 DEF Range
<1>3. LiveIn(AsHeap(file)) = LiveIn(h)
  BY SamePages DEF AsHeap
<1>4. \A p \in PageIds : p \notin Range(s) => \A i : ~AliveAt(h, p, i)
  BY <1>1, NewHeapPageInv DEF AliveAt
<1> HIDE DEF s
<1>5. ASSUME NEW r \in F
      PROVE  \E k \in 1 .. Len(s) : \E i :
               <<<<s[k], i>>, r>> \in LiveIn(h) \cap LiveIn(AsHeap(file))
  <2>1. PICK a \in LiveIn(h) : a[2] = r
    OBVIOUS
  <2>2. PICK p, i : AliveAt(h, p, i) /\ a = PairAt(h, p, i)
    BY LiveRow DEF HeapInv
  <2>3. p \in PageIds /\ a = <<<<p, i>>, r>>
    BY <2>1, <2>2 DEF AliveAt, PairAt
  <2>4. PICK k \in 1 .. Len(s) : p = s[k]
    BY <1>1, <1>4, <2>2, <2>3 DEF Range
  <2> QED BY <1>3, <2>3, <2>4
<1>6. NewHeapPage.next = NULL /\ Len(s) \in 1 .. Len(s)
  BY <1>1 DEF NewHeapPage
<1>7. LinksStay(s, file)
  BY <1>1, <1>6 DEF LinksStay
<1>8. \A k \in 1 .. Len(s) : file.pages[s[k]].type = "HEAP"
  BY <1>2 DEF s
<1>9. Remains(s, file, LiveIn(h), F)
  BY <1>1, <1>5, <1>6, <1>8 DEF Remains
<1> QED BY <1>7, <1>9 DEF s

(* What remains is found by the scan of a process that has only the file. *)
LEMMA FoundRows ==
  ASSUME NEW h, HeapInv(h), NEW F,
         LinksStay(HeapChain(h), disk), Remains(HeapChain(h), disk, LiveIn(h), F)
  PROVE  F \subseteq FoundInFile
<1> DEFINE s == HeapChain(h)
           f == AsHeap(disk)
<1>1. /\ s \in Seq(PageIds) /\ Len(s) \in Nat /\ Len(s) >= 1 /\ Len(s) <= MaxPage
      /\ s[1] = FirstHeapPage
      /\ \A j, k \in 1 .. Len(s) : s[j] = s[k] => j = k
  BY ChainRow, HeapConstants
<1>2. LinksStay(s, disk) /\ f.pages = disk.slotted
  BY DEF AsHeap
<1>3. PICK m \in 1 .. Len(s) :
        /\ \A k \in 1 .. m : disk.pages[s[k]].type = "HEAP"
        /\ \A k \in 1 .. m - 1 : disk.slotted[s[k]].next = s[k + 1]
        /\ \A r \in F : \E k \in 1 .. m : \E i : <<<<s[k], i>>, r>> \in LiveIn(f)
  BY DEF Remains
<1> HIDE DEF s
<1> DEFINE Ends == {k \in m .. Len(s) : disk.slotted[s[k]].next = NULL}
<1>4. PICK e \in Ends : \A k \in Ends : e <= k
  <2>1. Len(s) \in Ends
    BY <1>1, <1>2 DEF LinksStay
  <2>2. Ends \in SUBSET Nat
    BY <1>1
  <2> HIDE DEF Ends
  <2> QED BY <2>1, <2>2, LeastElement
<1>5. e \in 1 .. Len(s) /\ m <= e /\ f.pages[s[e]].next = NULL
  BY <1>1, <1>2, <1>4
<1>6. ASSUME NEW k \in 1 .. e - 1 PROVE f.pages[s[k]].next = s[k + 1]
  <2>1. CASE k < m
    <3>1. k \in 1 .. m - 1
      BY <1>1, <1>5, <2>1
    <3> QED BY <3>1, <1>2, <1>3
  <2>2. CASE ~(k < m)
    <3>1. k \in m .. Len(s) /\ ~(e <= k) /\ k \in 1 .. Len(s) - 1
      BY <1>1, <1>5, <2>2
    <3>2. disk.slotted[s[k]].next # NULL
      BY <1>4, <3>1
    <3> QED BY <1>2, <3>1, <3>2 DEF LinksStay
  <2> QED BY <2>1, <2>2
<1> HIDE DEF Ends, f
<1>7. HeapChain(f) = [k \in 1 .. e |-> s[k]]
  BY <1>1, <1>5, <1>6, ChainCut
<1> SUFFICES ASSUME NEW r \in F PROVE r \in FoundInFile
  OBVIOUS
<1>8. PICK k \in 1 .. m : \E i : <<<<s[k], i>>, r>> \in LiveIn(f)
  BY <1>3
<1>9. PICK i : <<<<s[k], i>>, r>> \in LiveIn(f)
  BY <1>8
<1> DEFINE ref == <<s[k], i>>
           chain == HeapChain(f)
           onHeap == {n \in DOMAIN chain : \A l \in 1 .. n : disk.pages[chain[l]].type = "HEAP"}
<1>10. ref \in LiveSlots(f) /\ SlotAt(f, ref).row = r
  <2>1. PICK x \in LiveSlots(f) : <<ref, r>> = <<x, SlotAt(f, x).row>>
    BY <1>9 DEF LiveIn
  <2> QED BY <2>1
<1>11. i \in DOMAIN f.pages[s[k]].slots /\ IsAlive(f, ref)
  BY <1>10 DEF LiveSlots, SlotsOf
<1>12. k \in DOMAIN chain /\ chain[k] = s[k] /\ k \in onHeap
  <2>1. \A l \in 1 .. k : l \in 1 .. e /\ l \in 1 .. m
    BY <1>1, <1>5
  <2>2. k \in 1 .. e
    BY <1>1, <1>5
  <2> QED BY <2>1, <2>2, <1>3, <1>7
<1>13. ref \in UNION {{<<chain[n], j>> : j \in DOMAIN f.pages[chain[n]].slots} : n \in onHeap}
  BY <1>11, <1>12
<1>14. FoundInFile = {SlotAt(f, x).row :
                        x \in {y \in UNION {{<<chain[n], j>> : j \in DOMAIN f.pages[chain[n]].slots} :
                                              n \in onHeap} : IsAlive(f, y)}}
  BY DEF FoundInFile, AsHeap, f
<1> HIDE DEF ref, chain, onHeap
<1> QED BY <1>10, <1>11, <1>13, <1>14

-----------------------------------------------------------------------------
(* The engine and its file *)

(* What every process that starts from this file finds; F are the rows it  *)
(* owes its user, old says that the counters may be old.                   *)
Agreeing(pg, h, s, next, count) ==
  /\ RowsAreNumbered(LiveIn(h), s, next)
  /\ RowsAreIndexed(DictOf(pg), LiveIn(h), s, next)
  /\ RowsAreCounted(count, LiveSlots(h), s)
AtRest(pg, hd, h, next, count, F, old) ==
  /\ Sound(pg, hd, Idle, h, NoStatement, next)
  /\ Kept(F, LiveIn(h), NoStatement, next)
  /\ ~old => Agreeing(pg, h, NoStatement, next, count)
FileIsSound(file, F, old) ==
  AtRest(file.pages, file.header, HeapOf(file), file.meta[2], file.meta[3], F, old)

(* The file at any moment, and at a moment at which nothing has been       *)
(* written back since the flush.                                           *)
DiskInv ==
  /\ written \in Nat /\ FileShape(disk)
  /\ \A r \in flushed : r.id < disk.meta[2]
  /\ LinksStay(HeapChain(heap), disk)
  /\ Remains(HeapChain(heap), disk, LiveIn(heap), flushed)
  /\ written = 0 => FileIsSound(disk, flushed, stale)

RecoveryInv == SoundNow /\ KeptNow(flushed) /\ (~stale => DbInv) /\ DiskInv

(* The pages of a sound heap are of type HEAP. *)
LEMMA SoundPages ==
  ASSUME NEW pg, NEW hd, NEW c, NEW h, NEW s, NEW next, Sound(pg, hd, c, h, s, next)
  PROVE  /\ pg \in [PageIds -> Node] /\ HeapInv(h)
         /\ \A p \in Range(HeapChain(h)) : pg[p].type = "HEAP"
<1>1. HeapInv(h) /\ Allocated(pg, hd, Range(HeapChain(h)))
  BY DEF Sound, Good
<1>2. Range(HeapChain(h)) \subseteq PageIds
  <2>1. HeapChain(h) \in Seq(PageIds)
    BY <1>1, ChainRow
  <2> QED BY <2>1 DEF Range
<1> QED BY <1>1, <1>2 DEF Allocated

(* Of all live rows, none shares its id with another. *)
LEMMA AllAreKept ==
  ASSUME NEW h, HeapInv(h), NEW next, RowsAreNumbered(LiveIn(h), NoStatement, next)
  PROVE  Kept({a[2] : a \in LiveIn(h)}, LiveIn(h), NoStatement, next)
<1>1. NoStatement.kind = "none"
  BY DEF NoStatement, Statement
<1>2. \A a \in LiveIn(h) : a[2].id \in Keys
  BY LiveFacts
<1>3. \A a \in LiveIn(h) : a[2].id < next
  BY <1>1 DEF RowsAreNumbered, NextId, Inserting
<1>4. \A a, b \in LiveIn(h) : a[2].id = b[2].id => a = b
  BY DEF RowsAreNumbered
<1> QED BY <1>1, <1>2, <1>3, <1>4 DEF Kept

(* Fewer rows are owed. *)
LEMMA SoundForLess ==
  ASSUME NEW file, NEW G, NEW F, F \subseteq G, NEW old, FileIsSound(file, G, old)
  PROVE  FileIsSound(file, F, old)
BY DEF FileIsSound, AtRest, Kept

(* The heap that pager_open finds is the one that was written. *)
LEMMA HeapIsFound ==
  ASSUME NEW h, HeapInv(h), NEW file, file.slotted = h.pages
  PROVE  HeapOf(file) = h
<1>1. HeapChain(AsHeap(file)) = HeapChain(h)
  BY SamePages DEF AsHeap
<1>2. h.last = HeapChain(h)[Len(HeapChain(h))]
  BY ChainRow
<1>3. h = [pages |-> h.pages, last |-> h.last]
  BY DEF HeapInv
<1> QED BY <1>1, <1>2, <1>3 DEF HeapOf

(* A file of all pages in memory, with the counters m. *)
LEMMA WholeFile ==
  ASSUME SoundNow, Ready, NEW m, m[2] \in 1 .. MaxKey + 1, NEW file,
         file = [pages |-> pages, slotted |-> heap.pages, header |-> header, meta |-> m],
         NEW F, Kept(F, LiveIn(heap), NoStatement, m[2]), F \subseteq {a[2] : a \in LiveIn(heap)},
         NEW old, ~old => DbInv /\ m = meta
  PROVE  /\ FileShape(file) /\ FileIsSound(file, F, old)
         /\ \A r \in F : r.id < file.meta[2]
<1>1. /\ file.pages = pages /\ file.slotted = heap.pages /\ file.header = header /\ file.meta = m
      /\ stmt = NoStatement /\ call = Idle
  BY DEF Ready
<1>2. pages \in [PageIds -> Node] /\ HeapInv(heap)
  BY SoundPages DEF SoundNow
<1>3. FileShape(file)
  <2>1. pages = [p \in PageIds |-> pages[p]]
    BY <1>2
  <2>2. heap.pages \in [PageIds -> HeapPage] /\ \A p \in PageIds : PageInv(heap.pages[p])
    BY <1>2 DEF HeapInv
  <2> QED BY <1>1, <2>1, <2>2 DEF FileShape
<1>4. HeapOf(file) = heap
  BY <1>1, <1>2, HeapIsFound
<1>5. NoStatement.kind = "none"
  BY DEF NoStatement, Statement
<1>6. Sound(pages, header, Idle, heap, NoStatement, m[2])
  <2>1. Sound(pages, header, Idle, heap, NoStatement, next_id)
    BY <1>1 DEF SoundNow
  <2>2. StatementIsSound(NoStatement, Idle, m[2])
    BY <2>1, <1>5 DEF Sound, StatementIsSound, Inserting
  <2>3. IndexIsLive(DictOf(pages), LiveIn(heap), NoStatement, m[2])
    BY <2>1, <1>5 DEF Sound, IndexIsLive
  <2> QED BY <2>1, <2>2, <2>3 DEF Sound
<1>7. ASSUME ~old PROVE Agreeing(pages, heap, NoStatement, m[2], m[3])
  <2>1. DataInv /\ m[2] = next_id /\ m[3] = row_count
    BY <1>7 DEF DbInv, meta
  <2> QED BY <2>1, <1>1, DictionaryIsDictOf DEF DataInv, Agreeing
<1>8. FileIsSound(file, F, old)
  BY <1>1, <1>4, <1>6, <1>7 DEF FileIsSound, AtRest
<1> QED BY <1>1, <1>3, <1>8 DEF Kept

(* A process starts from a sound file. *)
LEMMA WakeUp ==
  ASSUME NEW file, NEW F, NEW old, FileShape(file), FileIsSound(file, F, old), Reopen(file),
         F \subseteq {a[2] : a \in LiveIn(AsHeap(file))}, flushed' = F, stale' = old
  PROVE  RecoveryInv'
<1>1. /\ pages' = file.pages /\ header' = file.header /\ call' = Idle /\ stmt' = NoStatement
      /\ heap' = HeapOf(file) /\ next_id' = file.meta[2] /\ row_count' = file.meta[3]
      /\ disk' = file /\ written' = 0
  BY DEF Reopen, HeapOf, AsHeap
<1>2. /\ Sound(pages', header', Idle, heap', NoStatement, next_id')
      /\ Kept(F, LiveIn(heap'), NoStatement, next_id')
      /\ ~old => Agreeing(pages', heap', NoStatement, next_id', row_count')
  BY <1>1 DEF FileIsSound, AtRest
<1>3. SoundNow'
  BY <1>1, <1>2 DEF SoundNow
<1>4. KeptNow(flushed)'
  BY <1>1, <1>2 DEF KeptNow
<1>5. ASSUME ~stale' PROVE DbInv'
  <2>1. Agreeing(pages', heap', NoStatement, next_id', row_count')
    BY <1>2, <1>5
  <2>2. /\ FileInv' /\ HeapInv(heap') /\ StatementIsSound(stmt', call', next_id')
    BY <1>3, SoundParts
  <2>3. DataInv'
    BY <1>1, <2>1, <2>2, DictionaryIsDictOf DEF Agreeing, DataInv
  <2> QED BY <2>2, <2>3 DEF DbInv
<1>6. DiskInv'
  <2>1. HeapInv(heap') /\ \A p \in Range(HeapChain(heap')) : file.pages[p].type = "HEAP"
    BY <1>1, <1>2, SoundPages
  <2>2. heap'.pages = file.slotted
    BY <1>1 DEF HeapOf
  <2>3. F \subseteq {a[2] : a \in LiveIn(heap')}
    BY <2>2, SamePages DEF AsHeap
  <2>4. LinksStay(HeapChain(heap'), file) /\ Remains(HeapChain(heap'), file, LiveIn(heap'), F)
    BY <2>1, <2>2, <2>3, RemainsWhole
  <2>5. \A r \in F : r.id < file.meta[2]
    BY <1>1, <1>2 DEF Kept
  <2> QED BY <1>1, <2>4, <2>5 DEF DiskInv
<1> QED BY <1>3, <1>4, <1>5, <1>6 DEF RecoveryInv

(* The rows in memory, and in a file. *)
LEMMA RowsAre ==
  /\ LiveRows = {a[2] : a \in LiveIn(heap)}
  /\ \A file : RowsOf(file) = {a[2] : a \in LiveIn(AsHeap(file))}
<1>1. ASSUME NEW h
      PROVE  {SlotAt(h, ref).row : ref \in LiveSlots(h)} = {a[2] : a \in LiveIn(h)}
  <2>1. \A ref \in LiveSlots(h) : \E a \in LiveIn(h) : a[2] = SlotAt(h, ref).row
    <3> TAKE ref \in LiveSlots(h)
    <3>1. <<ref, SlotAt(h, ref).row>> \in LiveIn(h)
      BY DEF LiveIn
    <3> QED BY <3>1
  <2>2. \A a \in LiveIn(h) : \E ref \in LiveSlots(h) : a[2] = SlotAt(h, ref).row
    BY DEF LiveIn
  <2> QED BY <2>1, <2>2
<1> QED BY <1>1 DEF LiveRows, LiveRefs, RowAt, RowsOf, AsHeap

-----------------------------------------------------------------------------
(* The steps of Recovery *)

LEMMA StatementsRecover ==
  ASSUME RecoveryInv, Statements
  PROVE  RecoveryInv'
<1>1. /\ SoundNow /\ KeptNow(flushed) /\ (~stale => DbInv) /\ DiskInv /\ HeapInv(heap)
  BY SoundParts DEF RecoveryInv
<1>2. flushed \subseteq {a[2] : a \in LiveIn(heap)}
  BY <1>1, RemainingRows DEF DiskInv
<1>3. /\ SoundNow' /\ KeptNow(flushed)' /\ RowsStay(heap, heap', flushed')
      /\ flushed' \subseteq flushed /\ DbNext
      /\ disk' = disk /\ written' = written /\ stale' = stale
  BY <1>1, <1>2, StatementsSound
<1>4. ~stale' => DbInv'
  BY <1>1, <1>3, DbNextKeeps
<1>5. Remains(HeapChain(heap), disk, LiveIn(heap), flushed')
  BY <1>1, <1>3, RemainsLess DEF DiskInv
<1>6. /\ LinksStay(HeapChain(heap'), disk)
      /\ Remains(HeapChain(heap'), disk, LiveIn(heap'), flushed')
  BY <1>1, <1>3, <1>5, RemainsInFile DEF DiskInv
<1>7. written = 0 => FileIsSound(disk, flushed', stale)
  BY <1>1, <1>3, SoundForLess DEF DiskInv
<1>8. DiskInv'
  BY <1>1, <1>3, <1>6, <1>7 DEF DiskInv
<1> QED BY <1>3, <1>4, <1>8 DEF RecoveryInv

(* A step that leaves the engine alone, or only stutters. *)
LEMMA EngineRests ==
  ASSUME RecoveryInv, UNCHANGED dbVars
  PROVE  /\ SoundNow' /\ heap' = heap /\ (DbInv => DbInv')
         /\ \A F : KeptNow(F) => Kept(F, LiveIn(heap'), stmt', next_id')
<1>1. UNCHANGED <<vars, heap, next_id, row_count, stmt>> /\ heap' = heap
  BY DEF dbVars, meta
<1>2. pages' = pages /\ header' = header /\ call' = call /\ next_id' = next_id /\ stmt' = stmt
  BY <1>1 DEF vars
<1>3. SoundNow'
  BY <1>1, <1>2 DEF RecoveryInv, SoundNow
<1>4. DbInv => DbInv'
  BY <1>1, StutterKeepsDb
<1> QED BY <1>1, <1>2, <1>3, <1>4 DEF KeptNow

LEMMA WriteBackRecovers ==
  ASSUME RecoveryInv, NEW p \in PageIds, WriteBack(p)
  PROVE  RecoveryInv'
<1>1. /\ KeptNow(flushed) /\ DiskInv /\ (~stale => DbInv)
      /\ \A q \in Range(HeapChain(heap)) : pages[q].type = "HEAP"
      /\ HeapInv(heap)
  BY SoundPages DEF RecoveryInv, SoundNow
<1>2. /\ disk' = [disk EXCEPT !.pages[p] = pages[p], !.slotted[p] = heap.pages[p]]
      /\ written' = written + 1 /\ flushed' = flushed /\ stale' = stale /\ UNCHANGED dbVars
  BY DEF WriteBack
<1>3. SoundNow' /\ heap' = heap /\ (DbInv => DbInv') /\ KeptNow(flushed)'
  BY <1>1, <1>2, EngineRests DEF KeptNow
<1>4. /\ FileShape(disk') /\ disk'.meta = disk.meta /\ LinksStay(HeapChain(heap), disk')
      /\ Remains(HeapChain(heap), disk', LiveIn(heap), flushed)
  <2>1. /\ FileShape(disk) /\ LinksStay(HeapChain(heap), disk)
        /\ Remains(HeapChain(heap), disk, LiveIn(heap), flushed)
    BY <1>1 DEF DiskInv
  <2>2. PICK file2 : file2 = disk'
    OBVIOUS
  <2>3. WrittenBack(disk, file2, p, pages, heap)
    BY <1>2, <2>2 DEF WrittenBack
  <2>4. /\ FileShape(file2) /\ file2.meta = disk.meta /\ LinksStay(HeapChain(heap), file2)
        /\ Remains(HeapChain(heap), file2, LiveIn(heap), flushed)
    <3>1. HeapInv(heap) /\ (\A q \in Range(HeapChain(heap)) : pages[q].type = "HEAP") /\ p \in PageIds
      BY <1>1
    <3> QED BY <3>1, <2>1, <2>3, RemainsAfterWrite
  <2> QED BY <2>2, <2>4
<1>5. written' \in Nat /\ written' # 0
  BY <1>1, <1>2 DEF DiskInv
<1>6. DiskInv'
  BY <1>1, <1>2, <1>3, <1>4, <1>5 DEF DiskInv
<1> QED BY <1>1, <1>2, <1>3, <1>6 DEF RecoveryInv

LEMMA FlushRecovers ==
  ASSUME RecoveryInv, Flush
  PROVE  RecoveryInv'
<1>1. /\ SoundNow /\ KeptNow(flushed) /\ DiskInv /\ (~stale => DbInv) /\ Ready
      /\ HeapInv(heap) /\ \A q \in Range(HeapChain(heap)) : pages[q].type = "HEAP"
  BY SoundPages DEF RecoveryInv, SoundNow, Flush
<1>2. /\ disk' = FileNow /\ written' = 0 /\ flushed' = Owed /\ stale' = stale /\ UNCHANGED dbVars
  BY DEF Flush
<1>3. stmt = NoStatement /\ meta[2] = next_id /\ NoStatement.kind = "none"
  BY <1>1 DEF Ready, meta, NoStatement, Statement
<1>4. Kept(Owed, LiveIn(heap), NoStatement, next_id)
  <2>1. CASE stale
    BY <1>1, <1>3, <2>1 DEF Owed, KeptNow
  <2>2. CASE ~stale
    <3>1. RowsAreNumbered(LiveIn(heap), NoStatement, next_id)
      BY <1>1, <1>3, <2>2 DEF DbInv, DataInv
    <3> QED BY <3>1, <1>1, <2>2, AllAreKept, RowsAre DEF Owed
  <2> QED BY <2>1, <2>2
<1>5. Owed \subseteq {a[2] : a \in LiveIn(heap)}
  <2>1. flushed \subseteq {a[2] : a \in LiveIn(heap)}
    BY <1>1, RemainingRows DEF DiskInv
  <2> QED BY <2>1, RowsAre DEF Owed
<1>6. next_id \in 1 .. MaxKey + 1
  BY <1>1 DEF SoundNow, Sound, StatementIsSound
<1>7. /\ FileShape(FileNow) /\ FileIsSound(FileNow, Owed, stale)
      /\ \A r \in Owed : r.id < FileNow.meta[2]
  BY <1>1, <1>3, <1>4, <1>5, <1>6, WholeFile DEF FileNow
<1>8. FileNow.pages = pages /\ FileNow.slotted = heap.pages
  BY DEF FileNow
<1>9. /\ LinksStay(HeapChain(heap), FileNow)
      /\ Remains(HeapChain(heap), FileNow, LiveIn(heap), Owed)
  BY <1>1, <1>5, <1>8, RemainsWhole
<1>10. SoundNow' /\ heap' = heap /\ (DbInv => DbInv')
  BY <1>2, EngineRests
<1>11. KeptNow(flushed)'
  <2>1. stmt' = stmt /\ next_id' = next_id
    BY <1>2 DEF dbVars, meta
  <2> QED BY <1>2, <1>3, <1>4, <1>10, <2>1 DEF KeptNow
<1>12. DiskInv'
  BY <1>2, <1>7, <1>9, <1>10 DEF DiskInv
<1> QED BY <1>1, <1>2, <1>10, <1>11, <1>12 DEF RecoveryInv

LEMMA CrashRecovers ==
  ASSUME RecoveryInv, Crash
  PROVE  RecoveryInv'
<1>1. DiskInv /\ written = 0 /\ Reopen(disk) /\ stale' = stale
  BY DEF RecoveryInv, Crash
<1>2. FileShape(disk) /\ FileIsSound(disk, flushed, stale)
  BY <1>1 DEF DiskInv
<1>3. CASE stale
  <2>1. flushed' = flushed
    BY <1>3 DEF Crash
  <2>2. flushed \subseteq {a[2] : a \in LiveIn(AsHeap(disk))}
    BY <1>1, RemainingRows DEF DiskInv
  <2> QED BY <1>1, <1>2, <2>1, <2>2, WakeUp
<1>4. CASE ~stale
  <2> DEFINE F == {a[2] : a \in LiveIn(AsHeap(disk))}
  <2>1. flushed' = F
    BY <1>4, RowsAre DEF Crash
  <2>2. LiveIn(HeapOf(disk)) = LiveIn(AsHeap(disk))
    BY SamePages DEF HeapOf, AsHeap
  <2>3. /\ HeapInv(HeapOf(disk))
        /\ RowsAreNumbered(LiveIn(HeapOf(disk)), NoStatement, disk.meta[2])
    BY <1>2, <1>4 DEF FileIsSound, AtRest, Sound, Agreeing
  <2>4. Kept(F, LiveIn(HeapOf(disk)), NoStatement, disk.meta[2])
    BY <2>2, <2>3, AllAreKept
  <2> HIDE DEF F
  <2>5. FileIsSound(disk, F, stale)
    BY <1>2, <2>4 DEF FileIsSound, AtRest
  <2> QED BY <1>1, <1>2, <2>1, <2>5, WakeUp DEF F
<1> QED BY <1>3, <1>4

LEMMA CrashInFlushRecovers ==
  ASSUME RecoveryInv, CrashInFlush
  PROVE  RecoveryInv'
<1> DEFINE file == [FileNow EXCEPT !.meta = disk.meta]
<1>1. SoundNow /\ KeptNow(flushed) /\ DiskInv /\ Ready
  BY DEF RecoveryInv, CrashInFlush
<1>2. Reopen(file) /\ stale' = TRUE /\ flushed' = flushed
  BY DEF CrashInFlush
<1>3. file = [pages |-> pages, slotted |-> heap.pages, header |-> header, meta |-> disk.meta]
  BY DEF FileNow
<1>4. disk.meta[2] \in 1 .. MaxKey + 1
  BY <1>1 DEF DiskInv, FileShape
<1>5. Kept(flushed, LiveIn(heap), NoStatement, disk.meta[2])
  <2>1. stmt = NoStatement
    BY <1>1 DEF Ready
  <2> QED BY <1>1, <2>1 DEF KeptNow, Kept, DiskInv
<1>6. flushed \subseteq {a[2] : a \in LiveIn(heap)}
  BY <1>1, RemainingRows DEF DiskInv
<1> HIDE DEF file
<1>7. FileShape(file) /\ FileIsSound(file, flushed, TRUE)
  BY <1>1, <1>3, <1>4, <1>5, <1>6, WholeFile
<1>8. LiveIn(AsHeap(file)) = LiveIn(heap)
  BY <1>3, SamePages DEF AsHeap
<1> QED BY <1>2, <1>6, <1>7, <1>8, WakeUp

LEMMA InitRecovers ==
  ASSUME RecoveryInit
  PROVE  RecoveryInv
<1>1. /\ DbInit /\ disk = FileNow /\ written = 0 /\ flushed = {} /\ stale = FALSE
      /\ call = Idle /\ stmt = NoStatement /\ next_id = 1
  BY DEF RecoveryInit, DbInit, Init
<1>2. DbInv /\ SoundNow
  BY <1>1, InitDbInv, InvIsSound
<1>3. Ready /\ meta[2] = next_id
  BY <1>1 DEF Ready, meta
<1>4. \A L, s, next : Kept({}, L, s, next)
  BY DEF Kept
<1>5. meta[2] \in 1 .. MaxKey + 1
  BY <1>1, <1>3, SizeFacts
<1>6. /\ FileShape(disk) /\ FileIsSound(disk, {}, stale)
  BY <1>1, <1>2, <1>3, <1>4, <1>5, WholeFile DEF FileNow
<1>7. /\ HeapInv(heap) /\ \A p \in Range(HeapChain(heap)) : disk.pages[p].type = "HEAP"
      /\ disk.slotted = heap.pages
  BY <1>1, <1>2, SoundPages DEF SoundNow, FileNow
<1>8. /\ LinksStay(HeapChain(heap), disk)
      /\ Remains(HeapChain(heap), disk, LiveIn(heap), {})
  BY <1>7, RemainsWhole
<1> QED BY <1>1, <1>2, <1>4, <1>6, <1>8 DEF RecoveryInv, DiskInv, KeptNow

(* Every step keeps the invariant. *)
LEMMA RecoveryNextKeeps ==
  ASSUME RecoveryInv, [RecoveryNext]_recoveryVars
  PROVE  RecoveryInv'
<1>1. CASE Statements BY <1>1, StatementsRecover
<1>2. CASE Flush BY <1>2, FlushRecovers
<1>3. CASE Crash BY <1>3, CrashRecovers
<1>4. CASE CrashInFlush BY <1>4, CrashInFlushRecovers
<1>5. ASSUME NEW p \in PageIds, WriteBack(p) PROVE RecoveryInv'
  BY <1>5, WriteBackRecovers
<1>6. CASE UNCHANGED recoveryVars
  <2>1. /\ UNCHANGED dbVars /\ disk' = disk /\ written' = written
        /\ flushed' = flushed /\ stale' = stale
    BY <1>6 DEF recoveryVars
  <2>2. SoundNow' /\ heap' = heap /\ (DbInv => DbInv') /\ KeptNow(flushed)'
    BY <2>1, EngineRests DEF RecoveryInv, KeptNow
  <2>3. DiskInv'
    BY <2>1, <2>2 DEF RecoveryInv, DiskInv
  <2> QED BY <2>1, <2>2, <2>3 DEF RecoveryInv
<1> QED BY <1>1, <1>2, <1>3, <1>4, <1>5, <1>6 DEF RecoveryNext

(* The inductive invariant of the engine and its file: the parts of the    *)
(* chain that are in the file are linked as in memory, and the rows of the *)
(* last flush are on the first of them.                                    *)
THEOREM RecoveryIsSound == RecoverySpec => []RecoveryInv
<1>1. RecoveryInit => RecoveryInv
  BY InitRecovers
<1>2. RecoveryInv /\ [RecoveryNext]_recoveryVars => RecoveryInv'
  BY RecoveryNextKeeps
<1> QED BY <1>1, <1>2, PTL DEF RecoverySpec

(* A row of the last flush that nobody has asked to delete is found in     *)
(* memory and in the file, whatever has been written back since.           *)
THEOREM FlushedRowsDoStay == RecoverySpec => []FlushedRowsStay
<1>1. ASSUME RecoveryInv PROVE FlushedRowsStay
  <2>1. DiskInv /\ HeapInv(heap)
    BY <1>1, SoundParts DEF RecoveryInv
  <2>2. flushed \subseteq FoundInFile
    BY <2>1, FoundRows DEF DiskInv
  <2>3. flushed \subseteq LiveRows
    BY <2>1, RemainingRows, RowsAre DEF DiskInv
  <2> QED BY <2>2, <2>3 DEF FlushedRowsStay
<1> QED BY <1>1, RecoveryIsSound, PTL

(* A process that starts from a flushed file finds index, heap and         *)
(* counters in agreement, and keeps them so.                               *)
THEOREM FlushedFileDoesAgree == RecoverySpec => []FlushedFileAgrees
<1>1. RecoveryInv => FlushedFileAgrees
  BY InvAgrees DEF RecoveryInv, FlushedFileAgrees
<1> QED BY <1>1, RecoveryIsSound, PTL

(* Even after a crash has brought old counters back, the index leads to    *)
(* live rows of the id that was looked up.                                 *)
THEOREM IndexedRowsDoLive == RecoverySpec => []IndexedRowsAreLive
<1>1. ASSUME RecoveryInv, Ready, NEW k \in Keys
      PROVE  Search(k) \subseteq {ref \in LiveRefs : RowAt(ref).id = k}
  <2>1. /\ HeapInv(heap) /\ FileInv /\ IndexIsLive(Dictionary, LiveIn(heap), stmt, next_id)
    BY <1>1, SoundParts DEF RecoveryInv
  <2>2. stmt.kind = "none" /\ call = Idle
    BY <1>1 DEF Ready, NoStatement, Statement
  <2>3. PICK hp : TreeInv(hp)
    BY <2>1 DEF FileInv
  <2>4. \A r \in Search(k) : <<k, r>> \in Dictionary
    BY <2>2, <2>3, SearchFacts
  <2>5. Dictionary \subseteq IdRefs(LiveIn(heap))
    BY <2>1, <2>2 DEF IndexIsLive
  <2>6. ASSUME NEW r \in Search(k) PROVE r \in LiveRefs /\ RowAt(r).id = k
    <3>1. PICK a \in LiveIn(heap) : <<k, r>> = <<a[2].id, a[1]>>
      BY <2>4, <2>5 DEF IdRefs
    <3>2. a[2].id = k /\ a[1] = r
      BY <3>1
    <3> QED BY <2>1, <3>2, LiveFacts DEF LiveRefs, RowAt
  <2> QED BY <2>6
<1>2. RecoveryInv => IndexedRowsAreLive
  BY <1>1 DEF IndexedRowsAreLive
<1> QED BY <1>2, RecoveryIsSound, PTL
=============================================================================
