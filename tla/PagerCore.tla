----------------------------- MODULE PagerCore -----------------------------
(***************************************************************************)
(* The page cache of src/storage/pager.c as operators on one record, the   *)
(* pager_t and the file behind its descriptor:                             *)
(*                                                                         *)
(*   frames             the frame_t array                                  *)
(*   header             the in-memory db_header_t                          *)
(*   last_heap_page_id  the cached tail of the heap chain                  *)
(*   disk               the pages of the file (zero where never written)   *)
(*   disk_header        page 0 of the file                                 *)
(*                                                                         *)
(* One operator per function of pager.c; a caller's sequence of calls is   *)
(* their composition.  used_tick is kept as a rank: only the order of the  *)
(* ticks is ever read, so touching a frame gives it the highest rank and   *)
(* closes the gap it leaves.  pwrite is assumed to succeed and to be       *)
(* atomic for a page.                                                      *)
(***************************************************************************)
EXTENDS Pages

CONSTANTS
  NumFrames,       \* MAX_FRAMES
  HighWatermark,   \* dirty_high_watermark
  LowWatermark     \* dirty_low_watermark

ASSUME CacheAssumption ==
  /\ NumFrames \in Nat \ {0}
  /\ HighWatermark \in Nat
  /\ LowWatermark \in Nat

Frames == 1 .. NumFrames

Frame == [page_id : Links, is_valid : BOOLEAN, is_dirty : BOOLEAN,
          pin_count : Nat, used_tick : Nat, data : Page]

PagerRecord == [frames : [Frames -> Frame], header : Header,
                last_heap_page_id : PageIds,
                disk : [PageIds -> Page], disk_header : Header]

EmptyFrame == [page_id |-> NULL, is_valid |-> FALSE, is_dirty |-> FALSE,
               pin_count |-> 0, used_tick |-> 0, data |-> ZeroPage]

-----------------------------------------------------------------------------
(* Frame lookup *)

Holds(frame, p) == frame.is_valid /\ frame.page_id = p

Cached(pg, p) == \E i \in Frames : Holds(pg.frames[i], p)
FrameOf(pg, p) == CHOOSE i \in Frames : Holds(pg.frames[i], p)

Dirty(pg) == {i \in Frames : pg.frames[i].is_valid /\ pg.frames[i].is_dirty}

(* The page as the callers of the pager see it. *)
View(pg, p) == IF Cached(pg, p) THEN pg.frames[FrameOf(pg, p)].data ELSE pg.disk[p]

-----------------------------------------------------------------------------
(* Writing frames back *)

(* Mutants: the write fails unnoticed; every write takes the same frame.   *)
WrittenNowhere(pg, W) == pg.disk
WrittenFromOneFrame(pg, W) ==
  [p \in PageIds |-> IF \E i \in W : pg.frames[i].page_id = p
                     THEN pg.frames[CHOOSE i \in W : TRUE].data
                     ELSE pg.disk[p]]

Written(pg, W) ==
  [p \in PageIds |-> IF \E i \in W : pg.frames[i].page_id = p
                     THEN pg.frames[CHOOSE i \in W : pg.frames[i].page_id = p].data
                     ELSE pg.disk[p]]
Cleaned(pg, W) ==
  [i \in Frames |-> IF i \in W THEN [pg.frames[i] EXCEPT !.is_dirty = FALSE]
                               ELSE pg.frames[i]]
WriteFrames(pg, W) ==
  [pg EXCEPT !.disk = Written(pg, W), !.frames = Cleaned(pg, W)]

(* pager_flush_dirty: the loop writes dirty unpinned frames, oldest tick   *)
(* first, until the count of dirty frames is down to the target.           *)
FlushCandidatesWithPinned(pg) == Dirty(pg)   \* mutant: does not skip pinned frames
FlushCandidates(pg) == {i \in Dirty(pg) : pg.frames[i].pin_count = 0}
OldestDirty(pg, n) ==
  {i \in FlushCandidates(pg) :
     Cardinality({j \in FlushCandidates(pg) :
                    pg.frames[j].used_tick < pg.frames[i].used_tick}) < n}
FlushDirty(pg, target) ==
  WriteFrames(pg, OldestDirty(pg, Cardinality(Dirty(pg)) - target))

(* Mutants: page 0 is not written; only the excess of dirty frames is.     *)
FlushAllButHeader(pg) == WriteFrames(pg, Dirty(pg))
FlushAllToLowWatermark(pg) == [FlushDirty(pg, LowWatermark) EXCEPT !.disk_header = pg.header]

FlushAll(pg) ==
  [WriteFrames(pg, Dirty(pg)) EXCEPT !.disk_header = pg.header]

-----------------------------------------------------------------------------
(* Replacement and pinning *)

FreeFrames(pg) == {i \in Frames : ~pg.frames[i].is_valid}
EvictableClean(pg) ==                        \* mutant: passes over dirty frames
  {i \in Frames : pg.frames[i].pin_count = 0 /\ ~pg.frames[i].is_dirty}
Evictable(pg) == {i \in Frames : pg.frames[i].pin_count = 0}
VictimsNewest(pg) ==                         \* mutant: the frame used last goes first
  IF FreeFrames(pg) # {}
  THEN {i \in FreeFrames(pg) : \A j \in FreeFrames(pg) : i <= j}
  ELSE {i \in Evictable(pg) : \A j \in Evictable(pg) :
          pg.frames[i].used_tick >= pg.frames[j].used_tick}
Victims(pg) ==
  IF FreeFrames(pg) # {}
  THEN {i \in FreeFrames(pg) : \A j \in FreeFrames(pg) : i <= j}
  ELSE {i \in Evictable(pg) : \A j \in Evictable(pg) :
          pg.frames[i].used_tick <= pg.frames[j].used_tick}

(* pager_get_page returns NULL exactly when this is false. *)
CanGet(pg, p) == Cached(pg, p) \/ Victims(pg) # {}

Touched(frames, i) ==
  [j \in Frames |->
     [frames[j] EXCEPT !.used_tick =
        IF j = i THEN NumFrames
        ELSE IF @ > frames[i].used_tick THEN @ - 1 ELSE @]]

EvictFrameUnwritten(pg, i) == pg             \* mutant: drops a dirty frame
EvictFrame(pg, i) == WriteFrames(pg, {i} \cap Dirty(pg))

AddPin(frames, i) == [frames EXCEPT ![i].pin_count = @ + 1]

Hit(pg, i) == [pg EXCEPT !.frames = AddPin(Touched(pg.frames, i), i)]

LoadedFrame(p, page) ==
  [page_id |-> p, is_valid |-> TRUE, is_dirty |-> FALSE,
   pin_count |-> 1, used_tick |-> NumFrames, data |-> page]

(* Mutant: the victim is written back after the page was read over it. *)
LoadThenWriteBack(pg, i, p) ==
  LET read == [pg EXCEPT !.frames = [Touched(@, i) EXCEPT ![i] = LoadedFrame(p, pg.disk[p])]]
  IN  IF i \in Dirty(pg) THEN [read EXCEPT !.disk[pg.frames[i].page_id] = read.frames[i].data]
                          ELSE read

Load(pg, i, p) ==
  LET evicted == EvictFrame(pg, i)
  IN  [evicted EXCEPT !.frames = [Touched(evicted.frames, i) EXCEPT
                                    ![i] = LoadedFrame(p, evicted.disk[p])]]

GetPage(pg, p) ==
  IF Cached(pg, p) THEN Hit(pg, FrameOf(pg, p))
                   ELSE Load(pg, CHOOSE i \in Victims(pg) : TRUE, p)

SetDirty(pg, p) ==
  IF Cached(pg, p)
  THEN [pg EXCEPT !.frames[FrameOf(pg, p)].is_dirty = TRUE]
  ELSE pg

(* Mutant: the watermark is compared with > instead of >=. *)
MarkDirtyLate(pg, p) ==
  LET marked == SetDirty(pg, p)
  IN  IF HighWatermark > 0 /\ Cardinality(Dirty(marked)) > HighWatermark
      THEN FlushDirty(marked, LowWatermark)
      ELSE marked

MarkDirty(pg, p) ==
  LET marked == SetDirty(pg, p)
  IN  IF HighWatermark > 0 /\ Cardinality(Dirty(marked)) >= HighWatermark
      THEN FlushDirty(marked, LowWatermark)
      ELSE marked

Unpin(pg, p) ==
  IF Cached(pg, p) /\ pg.frames[FrameOf(pg, p)].pin_count > 0
  THEN [pg EXCEPT !.frames[FrameOf(pg, p)].pin_count = @ - 1]
  ELSE pg

(* A caller's memcpy through the pointer pager_get_page returned. *)
SetData(pg, p, page) ==
  [pg EXCEPT !.frames[FrameOf(pg, p)].data = page]

(* get, overwrite, mark, unpin: the idiom of every short update.  Its      *)
(* mutant forgets the unpin.                                               *)
UpdatePageLeakingPin(pg, p, page) == MarkDirty(SetData(GetPage(pg, p), p, page), p)
UpdatePage(pg, p, page) ==
  Unpin(MarkDirty(SetData(GetPage(pg, p), p, page), p), p)

-----------------------------------------------------------------------------
(* Allocation *)

AllocatedId(pg) ==
  IF pg.header.free_page_head # NULL THEN pg.header.free_page_head
                                     ELSE pg.header.next_page_id

(* Mutant: next_page_id grows although a freed page was taken. *)
AllocPageAndGrow(pg) ==
  LET pid == AllocatedId(pg)
      updated == UpdatePage(pg, pid, ZeroPage)
  IN  IF pg.header.free_page_head # NULL
      THEN [updated EXCEPT !.header.free_page_head = View(pg, pid).link,
                           !.header.next_page_id = @ + 1]
      ELSE [updated EXCEPT !.header.next_page_id = @ + 1]

AllocPage(pg) ==
  LET pid == AllocatedId(pg)
      popped == pg.header.free_page_head # NULL
      next_free == IF popped THEN View(pg, pid).link ELSE NULL
      updated == UpdatePage(pg, pid, ZeroPage)
  IN  IF popped THEN [updated EXCEPT !.header.free_page_head = next_free]
                ELSE [updated EXCEPT !.header.next_page_id = @ + 1]

(* Mutant: the freed page does not point to the rest of the free list. *)
PushFreePageAlone(pg, p) ==
  [UpdatePage(pg, p, FreePage(NULL)) EXCEPT !.header.free_page_head = p]

PushFreePage(pg, p) ==
  [UpdatePage(pg, p, FreePage(pg.header.free_page_head)) EXCEPT
     !.header.free_page_head = p]
=============================================================================
