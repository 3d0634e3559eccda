------------------------------ MODULE Recovery ------------------------------
(***************************************************************************)
(* The statements of module Database in a process that may die, and the    *)
(* file the next process finds.  The file is page by page the last flush   *)
(* or something newer that eviction or the watermark has written back      *)
(* since; its header is the one of the last flush, since only flush_all    *)
(* writes page 0.  There is no log and nothing is checked at the start.    *)
(*                                                                         *)
(* FlushedRowsStay looks into the file at every moment, which is what a    *)
(* crash at that moment leaves.  The model goes on from two such files:    *)
(* one in which nothing was written back since the flush, and one in which *)
(* flush_all came to its end but for the header, and only next_id and      *)
(* row_count of that are old.  From any other mixture the next statement   *)
(* reads pages of the wrong type through old pointers; what it does then   *)
(* is not followed.                                                        *)
(***************************************************************************)
EXTENDS Database

CONSTANT MaxWriteBacks      \* bound: pages written back between two flushes

VARIABLES
  disk,       \* the file: pages, slotted pages, page 0
  written,    \* history: pages written back since the last flush
  flushed,    \* history: rows in the file at the last flush, less the deleted ones;
              \*   rows are not added once the counters are old
  stale       \* history: a crash has brought old counters back

recoveryVars == <<dbVars, disk, written, flushed, stale>>

FileNow == [pages |-> pages, slotted |-> heap.pages, header |-> header, meta |-> meta]
LiveRows == {RowAt(ref) : ref \in LiveRefs}
Owed == IF stale THEN flushed ELSE LiveRows

RecoveryInit == DbInit /\ disk = FileNow /\ written = 0 /\ flushed = {} /\ stale = FALSE

-----------------------------------------------------------------------------
(* Statements; what the user asks to delete is no longer owed to him.      *)

Keeping(rows) == flushed' = flushed \cap rows /\ UNCHANGED <<disk, written, stale>>
Other(S) == {row \in Rows : row.val \notin S}

Statements ==
  \/ (CreateTable \/ Proceed \/ \E v \in Vals : InsertRow(v)) /\ Keeping(Rows)
  \/ \E S \in {Vals} \cup {{v} : v \in Vals} : DeleteMatching(S) /\ Keeping(Other(S))
  \/ \E k \in Keys : DeleteById(k) /\ Keeping({row \in Rows : row.id # k})

-----------------------------------------------------------------------------
(* The file *)

(* evict_frame or pager_flush_dirty, inside some call of a statement. *)
WriteBack(p) ==
  /\ written < MaxWriteBacks
  /\ disk.pages[p] # pages[p] \/ disk.slotted[p] # heap.pages[p]
  /\ disk' = [disk EXCEPT !.pages[p] = pages[p], !.slotted[p] = heap.pages[p]]
  /\ written' = written + 1
  /\ UNCHANGED <<dbVars, flushed, stale>>

(* Mutant: page 0 is left out. *)
FlushPages ==
  /\ Ready
  /\ disk' = [FileNow EXCEPT !.header = disk.header, !.meta = disk.meta]
  /\ written' = 0 /\ flushed' = Owed
  /\ UNCHANGED <<dbVars, stale>>

(* pager_flush_all, of .flush or of pager_close.                           *)
Flush ==
  /\ Ready
  /\ disk' = FileNow /\ written' = 0 /\ flushed' = Owed
  /\ UNCHANGED <<dbVars, stale>>

(* pager_open of a file: it walks the heap chain for the tail.             *)
Reopen(file) ==
  LET chain == HeapChain([pages |-> file.slotted, last |-> NULL])
  IN  /\ pages' = file.pages /\ header' = file.header
      /\ table' = file.meta[1] /\ next_id' = file.meta[2] /\ row_count' = file.meta[3]
      /\ heap' = [pages |-> file.slotted, last |-> chain[Len(chain)]]
      /\ call' = Idle /\ stmt' = NoStatement
      /\ disk' = file /\ written' = 0

RowsOf(file) ==
  LET h == [pages |-> file.slotted, last |-> NULL]
  IN  {SlotAt(h, ref).row : ref \in LiveSlots(h)}

(* The process dies at any point before a first write-back. *)
Crash ==
  /\ written = 0
  /\ Reopen(disk) /\ flushed' = IF stale THEN flushed ELSE RowsOf(disk)
  /\ UNCHANGED stale

(* It dies in flush_all, after the last frame and before page 0 (once in a *)
(* behaviour).  All of meta is old then: a table created since the last    *)
(* flush is gone.  Ids the old next_id has yet to reach are in the index:  *)
(* an INSERT is refused and leaves a second row of such an id in the heap, *)
(* and a DELETE that collects the id of the second row takes the first.    *)
CrashInFlush ==
  /\ Ready /\ ~stale /\ header = disk.header /\ meta # disk.meta
  /\ Reopen([FileNow EXCEPT !.meta = disk.meta])
  /\ stale' = TRUE /\ UNCHANGED flushed

RecoveryNext ==
  \/ Statements \/ Flush \/ Crash \/ CrashInFlush
  \/ \E p \in PageIds : WriteBack(p)

RecoverySpec == RecoveryInit /\ [][RecoveryNext]_recoveryVars

-----------------------------------------------------------------------------
(* Properties *)

(* The rows heap_scan hands out in the file before it meets a page that is *)
(* not a heap page.                                                        *)
FoundInFile ==
  LET h == [pages |-> disk.slotted, last |-> NULL]
      chain == HeapChain(h)
      isHeap(n) == disk.pages[chain[n]].type = "HEAP"
  IN  {SlotAt(h, ref).row :
         ref \in {r \in UNION {{<<chain[n], i>> : i \in DOMAIN h.pages[chain[n]].slots} :
                             n \in {m \in DOMAIN chain : \A l \in 1 .. m : isHeap(l)}} :
                   IsAlive(h, r)}}

(* A row that was there at the last flush and that nobody has asked to     *)
(* delete is found by the scan, in memory and, whatever has been written   *)
(* back in whatever order, in the file of a process that dies now: the     *)
(* chain only grows at its tail, rows never move and heap pages are never  *)
(* given to the tree (heap_insert, heap_delete, heap_scan).                *)
FlushedRowsStay == flushed \subseteq FoundInFile /\ flushed \subseteq LiveRows

(* A process that starts from a flushed file, after .exit or after dying   *)
(* before any write-back, finds index, heap and counters in agreement.     *)
FlushedFileAgrees == ~stale => StructuresAgree

(* Even with old counters, refused INSERTs and rows that are in the heap   *)
(* twice, the index never leads to a dead slot or to another id's row.     *)
IndexedRowsAreLive ==
  Ready => \A k \in Keys : Search(k) \subseteq {ref \in LiveRefs : RowAt(ref).id = k}
=============================================================================
