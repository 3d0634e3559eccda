---------------------------- MODULE PagerProofs ----------------------------
(***************************************************************************)
(* Theorems about Pager and PagerCrash, for every number of frames, every  *)
(* file size and every watermark.                                          *)
(*                                                                         *)
(* First, what each call of PagerCore preserves: the cache stays well      *)
(* formed and coherent, what its callers see changes only where the call   *)
(* says so, and the pins are accounted for.                                *)
(*                                                                         *)
(* Then the actions of Pager, read as such calls: its types, the coherence *)
(* of the cache, the ownership of pins, that pager_get_page never runs out *)
(* of frames, and that the pager implements PageStore.                     *)
(*                                                                         *)
(* Then, whatever call the process dies in: the pager that is opened again *)
(* is typed, coherent and owns its pins; only whole pages reach the file;  *)
(* and what flush_all wrote needs nothing else.  IInv is an invariant of   *)
(* the crashing system as it stands: a crash empties the frames, takes the *)
(* header from the file and ends every pin and every edit, and of a torn   *)
(* file IInv asks nothing but its types.                                   *)
(*                                                                         *)
(* The last part is about the two linked lists a MiniDB file is made of:   *)
(* the free list accounts for every page that is not in use, and the       *)
(* cached tail is the end of the heap chain, until a crash tears the file. *)
(* The properties walk along a list (ChainFrom); the proofs work with the  *)
(* list as a finite sequence of distinct pages (IsChain of                 *)
(* LinkedListProofs), and connect the two in ChainFromWalksTheList.        *)
(***************************************************************************)
EXTENDS PagerCrash, LinkedListProofs

(* A pager record whose valid frames hold distinct pages. *)
WellFormed(pg) ==
  /\ pg \in PagerRecord
  /\ \A i \in Frames : pg.frames[i].is_valid => pg.frames[i].page_id \in PageIds
  /\ \A i, j \in Frames :
       pg.frames[i].is_valid /\ pg.frames[j].is_valid
         /\ pg.frames[i].page_id = pg.frames[j].page_id => i = j

(* Clean frames equal the file, except for pages in E. *)
CleanExcept(pg, E) ==
  \A i \in Frames :
    pg.frames[i].is_valid /\ ~pg.frames[i].is_dirty /\ pg.frames[i].page_id \notin E
      => pg.frames[i].data = pg.disk[pg.frames[i].page_id]

(* The pins on the frames are those of the pin map h. *)
PinnedAs(pg, h) ==
  /\ \A i \in Frames :
       pg.frames[i].is_valid => pg.frames[i].pin_count = h[pg.frames[i].page_id]
  /\ \A p \in PageIds : ~Cached(pg, p) => h[p] = 0

(* Pages that are not in a frame or that are only just being edited. *)
Coherent(pg, E, h) == WellFormed(pg) /\ CleanExcept(pg, E) /\ PinnedAs(pg, h)

SameView(pg, pg2) == \A p \in PageIds : View(pg2, p) = View(pg, p)

(* Page p now reads as page, every other page as before. *)
ViewChanged(pg, pg2, p, page) ==
  \A q \in PageIds : View(pg2, q) = IF q = p THEN page ELSE View(pg, q)

-----------------------------------------------------------------------------
(* Constants *)

LEMMA ConstantFacts ==
  /\ MaxPage \in Nat /\ MaxPage > 1 /\ NumFrames \in Nat /\ NumFrames > 0
  /\ PageIds \subseteq Links /\ NULL \in Links /\ NULL \notin PageIds
  /\ Links \subseteq Nat /\ Frames \subseteq Nat
  /\ 1 \in PageIds /\ 2 \in PageIds
BY FileAssumption, CacheAssumption DEF PageIds, Links, NULL, Frames

LEMMA PageFacts ==
  /\ ZeroPage \in Page
  /\ EmptyHeapPage \in Page /\ EmptyLeafPage \in Page
  /\ \A n \in Links : FreePage(n) \in Page
  /\ \A pg \in Page, v \in Vals : WithBody(pg, v) \in Page
BY PagesAssumption, ConstantFacts
DEF ZeroPage, EmptyHeapPage, EmptyLeafPage, FreePage, WithBody, Page

-----------------------------------------------------------------------------
(* Looking up a page *)

LEMMA FrameOfCached ==
  ASSUME NEW pg, NEW p, Cached(pg, p)
  PROVE  FrameOf(pg, p) \in Frames /\ Holds(pg.frames[FrameOf(pg, p)], p)
BY DEF Cached, FrameOf

LEMMA HolderIsFrameOf ==
  ASSUME NEW pg, WellFormed(pg), NEW p, NEW i \in Frames, Holds(pg.frames[i], p)
  PROVE  /\ Cached(pg, p) /\ FrameOf(pg, p) = i
         /\ View(pg, p) = pg.frames[i].data
<1>1. Cached(pg, p)
  BY DEF Cached
<1>2. FrameOf(pg, p) \in Frames /\ Holds(pg.frames[FrameOf(pg, p)], p)
  BY <1>1, FrameOfCached
<1>3. FrameOf(pg, p) = i
  BY <1>2 DEF WellFormed, Holds
<1> QED BY <1>1, <1>3 DEF View

LEMMA ViewType ==
  ASSUME NEW pg, WellFormed(pg), NEW p \in PageIds
  PROVE  View(pg, p) \in Page
<1>1. CASE Cached(pg, p)
  BY <1>1, FrameOfCached DEF View, WellFormed, PagerRecord, Frame
<1>2. CASE ~Cached(pg, p)
  BY <1>2 DEF View, WellFormed, PagerRecord
<1> QED BY <1>1, <1>2

(* Two caches whose frames hold the same pages with the same contents, and *)
(* whose files agree on the pages in no frame, look the same.              *)
LEMMA ViewFromFrames ==
  ASSUME NEW pg, NEW pg2, WellFormed(pg), WellFormed(pg2),
         \A i \in Frames : /\ pg2.frames[i].is_valid = pg.frames[i].is_valid
                           /\ pg2.frames[i].page_id = pg.frames[i].page_id
                           /\ pg2.frames[i].data = pg.frames[i].data,
         \A p \in PageIds : ~Cached(pg, p) => pg2.disk[p] = pg.disk[p]
  PROVE  SameView(pg, pg2) /\ \A p \in PageIds : Cached(pg2, p) <=> Cached(pg, p)
<1>1. \A p : Cached(pg2, p) <=> Cached(pg, p)
  BY DEF Cached, Holds
<1>2. ASSUME NEW p \in PageIds PROVE View(pg2, p) = View(pg, p)
  <2>1. CASE Cached(pg, p)
    <3>1. PICK i \in Frames : Holds(pg.frames[i], p)
      BY <2>1 DEF Cached
    <3>2. Holds(pg2.frames[i], p)
      BY <3>1 DEF Holds
    <3> QED BY <3>1, <3>2, HolderIsFrameOf
  <2>2. CASE ~Cached(pg, p)
    BY <2>2, <1>1 DEF View
  <2> QED BY <2>1, <2>2
<1> QED BY <1>1, <1>2 DEF SameView

-----------------------------------------------------------------------------
(* Writing dirty frames to the file *)

(* Writing any dirty frames back changes nothing a caller sees, and leaves *)
(* each frame it wrote equal to the file.                                  *)
LEMMA WriteFramesLemma ==
  ASSUME NEW pg, WellFormed(pg), NEW W \in SUBSET Dirty(pg)
  PROVE  LET pg2 == WriteFrames(pg, W)
         IN  /\ WellFormed(pg2) /\ SameView(pg, pg2)
             /\ pg2.header = pg.header /\ pg2.disk_header = pg.disk_header
             /\ pg2.last_heap_page_id = pg.last_heap_page_id
             /\ \A i \in Frames :
                  /\ pg2.frames[i].is_valid = pg.frames[i].is_valid
                  /\ pg2.frames[i].page_id = pg.frames[i].page_id
                  /\ pg2.frames[i].pin_count = pg.frames[i].pin_count
                  /\ pg2.frames[i].used_tick = pg.frames[i].used_tick
                  /\ pg2.frames[i].data = pg.frames[i].data
                  /\ i \notin W => pg2.frames[i].is_dirty = pg.frames[i].is_dirty
                  /\ i \in W => /\ ~pg2.frames[i].is_dirty
                                /\ pg2.disk[pg.frames[i].page_id] = pg.frames[i].data
             /\ \A p \in PageIds :
                  (\A i \in W : pg.frames[i].page_id # p) => pg2.disk[p] = pg.disk[p]
<1> DEFINE pg2 == WriteFrames(pg, W)
           written == Written(pg, W)
           cleaned == Cleaned(pg, W)
<1>1. pg \in PagerRecord /\ W \subseteq Frames
  BY DEF WellFormed, Dirty
<1>2. /\ pg2.disk = written /\ pg2.frames = cleaned
      /\ pg2.header = pg.header /\ pg2.disk_header = pg.disk_header
      /\ pg2.last_heap_page_id = pg.last_heap_page_id
      /\ pg2 = [frames |-> cleaned, header |-> pg.header,
                last_heap_page_id |-> pg.last_heap_page_id,
                disk |-> written, disk_header |-> pg.disk_header]
  <2> HIDE DEF written, cleaned
  <2>1. pg2 = [pg EXCEPT !.disk = written, !.frames = cleaned]
    BY DEF WriteFrames, written, cleaned
  <2> HIDE DEF pg2
  <2> QED BY <1>1, <2>1 DEF PagerRecord
<1>3. ASSUME NEW i \in W
      PROVE  /\ pg.frames[i].page_id \in PageIds
             /\ written[pg.frames[i].page_id] = pg.frames[i].data
  <2>1. /\ i \in Frames /\ pg.frames[i].is_valid
        /\ \A j \in W : pg.frames[j].page_id = pg.frames[i].page_id => j = i
    BY DEF Dirty, WellFormed
  <2>2. pg.frames[i].page_id \in PageIds
    BY <2>1 DEF WellFormed
  <2> QED BY <2>1, <2>2 DEF Written
<1>4. \A p \in PageIds : (\A i \in W : pg.frames[i].page_id # p)
                           => written[p] = pg.disk[p]
  BY DEF Written
<1>5. written \in [PageIds -> Page]
  <2>1. ASSUME NEW p \in PageIds PROVE written[p] \in Page
    <3>1. CASE \E i \in W : pg.frames[i].page_id = p
      BY <3>1, <1>3, <1>1 DEF PagerRecord, Frame
    <3>2. CASE ~ \E i \in W : pg.frames[i].page_id = p
      BY <3>2, <1>4, <1>1 DEF PagerRecord
    <3> QED BY <3>1, <3>2
  <2> QED BY <2>1 DEF Written
<1>6. ASSUME NEW i \in Frames
      PROVE  /\ cleaned[i] \in Frame
             /\ cleaned[i].is_valid = pg.frames[i].is_valid
             /\ cleaned[i].page_id = pg.frames[i].page_id
             /\ cleaned[i].pin_count = pg.frames[i].pin_count
             /\ cleaned[i].used_tick = pg.frames[i].used_tick
             /\ cleaned[i].data = pg.frames[i].data
             /\ i \notin W => cleaned[i].is_dirty = pg.frames[i].is_dirty
             /\ i \in W => ~cleaned[i].is_dirty
  <2>1. pg.frames[i] \in Frame
    BY <1>1 DEF PagerRecord
  <2> QED BY <2>1 DEF Frame, Cleaned
<1>7. WellFormed(pg2)
  <2>1. pg2 \in PagerRecord
    <3>1. cleaned \in [Frames -> Frame]
      BY <1>6 DEF Cleaned
    <3> QED BY <1>1, <1>2, <1>5, <3>1 DEF PagerRecord
  <2> QED BY <2>1, <1>2, <1>6 DEF WellFormed
<1>8. SameView(pg, pg2)
  <2>1. \A p \in PageIds : ~Cached(pg, p) => written[p] = pg.disk[p]
    BY <1>4 DEF Cached, Holds, Dirty
  <2> HIDE DEF pg2, written, cleaned
  <2> QED BY <1>2, <1>6, <1>7, <2>1, ViewFromFrames
<1> HIDE DEF written, cleaned
<1>9. \A i \in W : written[pg.frames[i].page_id] = pg.frames[i].data
  BY <1>3
<1> QED BY <1>2, <1>4, <1>6, <1>7, <1>8, <1>9

(* Hence it keeps a cache coherent. *)
LEMMA WriteFramesCoherent ==
  ASSUME NEW pg, NEW E, NEW h, Coherent(pg, E, h), NEW W \in SUBSET Dirty(pg)
  PROVE  Coherent(WriteFrames(pg, W), E, h)
<1> DEFINE pg2 == WriteFrames(pg, W)
<1>0. WellFormed(pg) /\ W \subseteq Frames
  BY DEF Coherent, Dirty
<1> HIDE DEF pg2
<1>1. /\ WellFormed(pg2)
      /\ \A i \in Frames :
           /\ pg2.frames[i].is_valid = pg.frames[i].is_valid
           /\ pg2.frames[i].page_id = pg.frames[i].page_id
           /\ pg2.frames[i].pin_count = pg.frames[i].pin_count
           /\ pg2.frames[i].data = pg.frames[i].data
           /\ i \notin W => pg2.frames[i].is_dirty = pg.frames[i].is_dirty
           /\ i \in W => pg2.disk[pg.frames[i].page_id] = pg.frames[i].data
  BY <1>0, WriteFramesLemma DEF pg2
<1>2. \A p \in PageIds : (\A i \in W : pg.frames[i].page_id # p) => pg2.disk[p] = pg.disk[p]
  BY <1>0, WriteFramesLemma DEF pg2
<1>3. CleanExcept(pg2, E)
  <2> SUFFICES ASSUME NEW i \in Frames, pg2.frames[i].is_valid,
                      ~pg2.frames[i].is_dirty, pg2.frames[i].page_id \notin E
               PROVE  pg2.frames[i].data = pg2.disk[pg2.frames[i].page_id]
    BY DEF CleanExcept
  <2>1. CASE i \in W
    BY <2>1, <1>1
  <2>2. CASE i \notin W
    <3>1. pg.frames[i].data = pg.disk[pg.frames[i].page_id]
      BY <2>2, <1>1 DEF CleanExcept, Coherent
    <3>2. \A j \in W : pg.frames[j].page_id # pg.frames[i].page_id
      BY <2>2, <1>0, <1>1 DEF WellFormed, Dirty
    <3> QED BY <3>1, <3>2, <1>0, <1>1, <1>2 DEF WellFormed
  <2> QED BY <2>1, <2>2
<1>4. PinnedAs(pg2, h)
  <2>1. \A p : Cached(pg2, p) <=> Cached(pg, p)
    BY <1>1 DEF Cached, Holds
  <2> QED BY <2>1, <1>1 DEF PinnedAs, Coherent
<1> QED BY <1>1, <1>3, <1>4 DEF Coherent, pg2

-----------------------------------------------------------------------------
(* Pinning and replacement *)

LEMMA VictimsAreEvictable ==
  ASSUME NEW pg
  PROVE  Victims(pg) \subseteq {i \in Frames : ~pg.frames[i].is_valid
                                               \/ pg.frames[i].pin_count = 0}
BY DEF Victims, FreeFrames, Evictable

(* evict_frame finds a frame whenever there is an empty or an unpinned one. *)
LEMMA VictimExists ==
  ASSUME NEW pg \in PagerRecord, FreeFrames(pg) # {} \/ Evictable(pg) # {}
  PROVE  Victims(pg) # {}
<1>1. CASE FreeFrames(pg) # {}
  <2>1. FreeFrames(pg) \in SUBSET Nat
    BY ConstantFacts DEF FreeFrames
  <2>2. PICK m \in FreeFrames(pg) : \A k \in FreeFrames(pg) : m <= k
    BY <1>1, <2>1, LeastElement
  <2>3. m \in Victims(pg)
    BY <1>1, <2>2 DEF Victims
  <2> QED BY <2>3
<1>2. CASE FreeFrames(pg) = {} /\ Evictable(pg) # {}
  <2> DEFINE ticks == {pg.frames[i].used_tick : i \in Evictable(pg)}
  <2>1. ticks \in SUBSET Nat /\ ticks # {}
    BY <1>2 DEF Evictable, PagerRecord, Frame
  <2>2. PICK m \in ticks : \A k \in ticks : m <= k
    <3> HIDE DEF ticks
    <3> QED BY <2>1, LeastElement
  <2>3. PICK i \in Evictable(pg) : pg.frames[i].used_tick = m
    BY <2>2
  <2>4. \A j \in Evictable(pg) : pg.frames[i].used_tick <= pg.frames[j].used_tick
    BY <2>2, <2>3
  <2>5. i \in Victims(pg)
    BY <1>2, <2>3, <2>4 DEF Victims
  <2> QED BY <2>5
<1> QED BY <1>1, <1>2

(* Ranking a frame as the most recent one touches nothing but the ranks.   *)
LEMMA TouchedFrames ==
  ASSUME NEW fr \in [Frames -> Frame], NEW i \in Frames
  PROVE  /\ Touched(fr, i) \in [Frames -> Frame]
         /\ \A j \in Frames :
              /\ Touched(fr, i)[j].is_valid = fr[j].is_valid
              /\ Touched(fr, i)[j].page_id = fr[j].page_id
              /\ Touched(fr, i)[j].is_dirty = fr[j].is_dirty
              /\ Touched(fr, i)[j].pin_count = fr[j].pin_count
              /\ Touched(fr, i)[j].data = fr[j].data
<1> DEFINE rank(j) == IF j = i THEN NumFrames
                      ELSE IF fr[j].used_tick > fr[i].used_tick
                           THEN fr[j].used_tick - 1 ELSE fr[j].used_tick
<1>1. \A j \in Frames : rank(j) \in Nat
  BY ConstantFacts DEF Frame
<1>2. Touched(fr, i) = [j \in Frames |-> [fr[j] EXCEPT !.used_tick = rank(j)]]
  BY DEF Touched
<1> HIDE DEF rank
<1> QED BY <1>1, <1>2 DEF Frame

(* A hit only adds a pin. *)
LEMMA HitLemma ==
  ASSUME NEW pg, NEW E, NEW h \in [PageIds -> Nat], Coherent(pg, E, h),
         NEW p \in PageIds, NEW i \in Frames, Holds(pg.frames[i], p)
  PROVE  /\ Coherent(Hit(pg, i), E, [h EXCEPT ![p] = @ + 1])
         /\ SameView(pg, Hit(pg, i))
         /\ Hit(pg, i).header = pg.header
         /\ Hit(pg, i).disk_header = pg.disk_header
         /\ Hit(pg, i).disk = pg.disk
         /\ Hit(pg, i).last_heap_page_id = pg.last_heap_page_id
         /\ Cached(Hit(pg, i), p)
         /\ Dirty(Hit(pg, i)) = Dirty(pg)
<1> DEFINE t == Touched(pg.frames, i)
           fr == AddPin(t, i)
           pg2 == Hit(pg, i)
<1>0. pg \in PagerRecord /\ WellFormed(pg)
  BY DEF Coherent, WellFormed
<1>1. /\ t \in [Frames -> Frame]
      /\ \A j \in Frames : /\ t[j].is_valid = pg.frames[j].is_valid
                           /\ t[j].page_id = pg.frames[j].page_id
                           /\ t[j].is_dirty = pg.frames[j].is_dirty
                           /\ t[j].pin_count = pg.frames[j].pin_count
                           /\ t[j].data = pg.frames[j].data
  BY <1>0, TouchedFrames DEF PagerRecord
<1> HIDE DEF t
<1>2. /\ fr \in [Frames -> Frame]
      /\ \A j \in Frames :
           /\ fr[j].is_valid = pg.frames[j].is_valid
           /\ fr[j].page_id = pg.frames[j].page_id
           /\ fr[j].is_dirty = pg.frames[j].is_dirty
           /\ fr[j].data = pg.frames[j].data
           /\ fr[j].pin_count = IF j = i THEN pg.frames[j].pin_count + 1
                                         ELSE pg.frames[j].pin_count
  BY <1>1 DEF Frame, AddPin
<1>3. /\ pg2 = [frames |-> fr, header |-> pg.header,
                last_heap_page_id |-> pg.last_heap_page_id,
                disk |-> pg.disk, disk_header |-> pg.disk_header]
  <2>1. pg2 = [pg EXCEPT !.frames = fr]
    BY DEF Hit, t
  <2> HIDE DEF fr, pg2
  <2> QED BY <1>0, <2>1 DEF PagerRecord
<1> HIDE DEF fr, pg2
<1>4. WellFormed(pg2)
  BY <1>0, <1>2, <1>3 DEF WellFormed, PagerRecord
<1>5. SameView(pg, pg2) /\ \A q \in PageIds : Cached(pg2, q) <=> Cached(pg, q)
  BY <1>0, <1>2, <1>3, <1>4, ViewFromFrames
<1>6. CleanExcept(pg2, E)
  BY <1>2, <1>3 DEF CleanExcept, Coherent
<1>7. PinnedAs(pg2, [h EXCEPT ![p] = @ + 1])
  <2>1. ASSUME NEW j \in Frames, pg2.frames[j].is_valid
        PROVE  pg2.frames[j].pin_count = [h EXCEPT ![p] = @ + 1][pg2.frames[j].page_id]
    <3>1. pg.frames[j].is_valid /\ pg.frames[j].page_id \in PageIds
          /\ pg.frames[j].pin_count = h[pg.frames[j].page_id]
      BY <2>1, <1>0, <1>2, <1>3 DEF WellFormed, Coherent, PinnedAs
    <3>2. pg.frames[j].page_id = p <=> j = i
      BY <3>1, <1>0 DEF WellFormed, Holds
    <3> QED BY <3>1, <3>2, <1>2, <1>3
  <2>2. Cached(pg, p)
    BY DEF Cached
  <2> QED BY <2>1, <2>2, <1>5 DEF PinnedAs, Coherent
<1>8. Cached(pg2, p)
  BY <1>5 DEF Cached
<1>9. Dirty(pg2) = Dirty(pg)
  BY <1>2, <1>3 DEF Dirty
<1> QED BY <1>3, <1>4, <1>5, <1>6, <1>7, <1>8, <1>9 DEF Coherent, pg2

(* The rest of the record, which most calls leave alone. *)
SameHeaders(pg, pg2) ==
  /\ pg2.header = pg.header /\ pg2.disk_header = pg.disk_header
  /\ pg2.last_heap_page_id = pg.last_heap_page_id

(* A pin more, or a pin less, on p. *)
MorePins(h, p) == [h EXCEPT ![p] = @ + 1]
FewerPins(h, p) == [h EXCEPT ![p] = @ - 1]

(* Only pages a client holds are being edited. *)
EditsHeld(E, h) == \A q \in E : q \in PageIds /\ h[q] > 0

(* A miss replaces an unpinned frame.  Nothing is lost: the victim was     *)
(* dirty and is written back, or it equals the file, since a page that is  *)
(* being edited is pinned and so is never the victim.                      *)
LEMMA LoadLemma ==
  ASSUME NEW pg, NEW E, NEW h \in [PageIds -> Nat], Coherent(pg, E, h), EditsHeld(E, h),
         NEW p \in PageIds, ~Cached(pg, p), NEW i \in Victims(pg)
  PROVE  /\ Coherent(Load(pg, i, p), E, MorePins(h, p))
         /\ SameView(pg, Load(pg, i, p)) /\ SameHeaders(pg, Load(pg, i, p))
         /\ Cached(Load(pg, i, p), p)
<1> DEFINE ev == EvictFrame(pg, i)
           t == Touched(ev.frames, i)
           fr == [t EXCEPT ![i] = LoadedFrame(p, ev.disk[p])]
           pg2 == Load(pg, i, p)
<1>1. i \in Frames /\ (~pg.frames[i].is_valid \/ pg.frames[i].pin_count = 0)
  BY VictimsAreEvictable
<1>2. WellFormed(pg) /\ pg \in PagerRecord
  BY DEF Coherent, WellFormed
<1>3. /\ Coherent(ev, E, h) /\ SameView(pg, ev) /\ SameHeaders(pg, ev)
      /\ \A j \in Frames : /\ ev.frames[j].is_valid = pg.frames[j].is_valid
                           /\ ev.frames[j].page_id = pg.frames[j].page_id
                           /\ ev.frames[j].pin_count = pg.frames[j].pin_count
      /\ pg.frames[i].is_valid => ~ev.frames[i].is_dirty
  <2>1. {i} \cap Dirty(pg) \in SUBSET Dirty(pg)
    OBVIOUS
  <2>2. pg.frames[i].is_valid /\ i \notin {i} \cap Dirty(pg) => ~pg.frames[i].is_dirty
    BY <1>1 DEF Dirty
  <2>3. Coherent(ev, E, h)
    BY <2>1, WriteFramesCoherent DEF EvictFrame
  <2> QED BY <1>1, <1>2, <2>1, <2>2, <2>3, WriteFramesLemma DEF EvictFrame, SameHeaders
<1> HIDE DEF ev
<1>4. WellFormed(ev) /\ ev \in PagerRecord
  BY <1>3 DEF Coherent, WellFormed
<1>5. /\ t \in [Frames -> Frame]
      /\ \A j \in Frames : /\ t[j].is_valid = ev.frames[j].is_valid
                           /\ t[j].page_id = ev.frames[j].page_id
                           /\ t[j].is_dirty = ev.frames[j].is_dirty
                           /\ t[j].pin_count = ev.frames[j].pin_count
                           /\ t[j].data = ev.frames[j].data
  BY <1>1, <1>4, TouchedFrames DEF PagerRecord
<1> HIDE DEF t
<1>6. LoadedFrame(p, ev.disk[p]) \in Frame
  BY <1>4, ConstantFacts DEF LoadedFrame, Frame, PagerRecord
<1>7. /\ fr \in [Frames -> Frame]
      /\ fr[i] = LoadedFrame(p, ev.disk[p])
      /\ \A j \in Frames \ {i} : /\ fr[j].is_valid = ev.frames[j].is_valid
                                 /\ fr[j].page_id = ev.frames[j].page_id
                                 /\ fr[j].is_dirty = ev.frames[j].is_dirty
                                 /\ fr[j].pin_count = ev.frames[j].pin_count
                                 /\ fr[j].data = ev.frames[j].data
  BY <1>1, <1>5, <1>6
<1>8. pg2 = [frames |-> fr, header |-> ev.header,
             last_heap_page_id |-> ev.last_heap_page_id,
             disk |-> ev.disk, disk_header |-> ev.disk_header]
  <2>1. pg2 = [ev EXCEPT !.frames = fr]
    BY DEF Load, ev, t
  <2> HIDE DEF fr, pg2
  <2> QED BY <1>4, <2>1 DEF PagerRecord
<1> HIDE DEF fr, pg2
<1>9. /\ fr[i].is_valid /\ fr[i].page_id = p /\ ~fr[i].is_dirty
      /\ fr[i].pin_count = 1 /\ fr[i].data = ev.disk[p]
  BY <1>7 DEF LoadedFrame
<1>10. ~Cached(ev, p)
  <2>1. \A j \in Frames : Holds(ev.frames[j], p) => Holds(pg.frames[j], p)
    BY <1>2, <1>3, <1>4 DEF Holds, PagerRecord, Frame
  <2> QED BY <2>1 DEF Cached
<1>11. \A j \in Frames : ev.frames[j].is_valid => ev.frames[j].page_id # p
  BY <1>10 DEF Cached, Holds
<1>12. WellFormed(pg2)
  <2>1. pg2 \in PagerRecord
    BY <1>4, <1>7, <1>8 DEF PagerRecord
  <2>2. \A j \in Frames : pg2.frames[j].is_valid => pg2.frames[j].page_id \in PageIds
    BY <1>4, <1>7, <1>8, <1>9 DEF WellFormed
  <2>3. ASSUME NEW j \in Frames, NEW k \in Frames, pg2.frames[j].is_valid,
               pg2.frames[k].is_valid, pg2.frames[j].page_id = pg2.frames[k].page_id
        PROVE  j = k
    BY <2>3, <1>4, <1>7, <1>8, <1>9, <1>11 DEF WellFormed
  <2> QED BY <2>1, <2>2, <2>3 DEF WellFormed
<1>13. ASSUME ev.frames[i].is_valid
       PROVE  /\ ev.frames[i].page_id \in PageIds
              /\ h[ev.frames[i].page_id] = 0
              /\ ev.frames[i].data = ev.disk[ev.frames[i].page_id]
  <2>1. /\ ev.frames[i].page_id \in PageIds
        /\ ev.frames[i].pin_count = 0 /\ h[ev.frames[i].page_id] = 0
        /\ ~ev.frames[i].is_dirty
    <3>1. pg.frames[i].is_valid
      BY <1>1, <1>2, <1>3, <1>4, <1>13 DEF PagerRecord, Frame
    <3>2. ~ev.frames[i].is_dirty /\ ev.frames[i].pin_count = 0
      BY <3>1, <1>1, <1>2, <1>3, <1>4 DEF PagerRecord, Frame
    <3> QED BY <3>2, <1>1, <1>3, <1>4, <1>13 DEF WellFormed, Coherent, PinnedAs
  <2>2. ev.frames[i].page_id \notin E
    BY <2>1 DEF EditsHeld
  <2> QED BY <1>1, <1>3, <1>13, <2>1, <2>2 DEF Coherent, CleanExcept
<1>14. SameView(ev, pg2)
  <2> SUFFICES ASSUME NEW r \in PageIds PROVE View(pg2, r) = View(ev, r)
    BY DEF SameView
  <2>1. CASE r = p
    <3>1. Holds(pg2.frames[i], r)
      BY <2>1, <1>8, <1>9 DEF Holds
    <3>2. View(pg2, r) = ev.disk[p]
      BY <3>1, <1>1, <1>8, <1>9, <1>12, HolderIsFrameOf
    <3> QED BY <3>2, <2>1, <1>10 DEF View
  <2>2. CASE r # p /\ ~Cached(ev, r)
    <3>1. ~Cached(pg2, r)
      BY <2>2, <1>7, <1>8, <1>9 DEF Cached, Holds
    <3> QED BY <3>1, <2>2, <1>8 DEF View
  <2>3. CASE r # p /\ Cached(ev, r)
    <3>1. PICK j \in Frames : Holds(ev.frames[j], r)
      BY <2>3 DEF Cached
    <3>2. View(ev, r) = ev.frames[j].data
      BY <3>1, <1>4, HolderIsFrameOf
    <3>3. CASE j # i
      <4>1. Holds(pg2.frames[j], r) /\ pg2.frames[j].data = ev.frames[j].data
        BY <3>1, <3>3, <1>7, <1>8 DEF Holds
      <4> QED BY <4>1, <3>2, <1>12, HolderIsFrameOf
    <3>4. CASE j = i
      <4>1. ev.frames[j].data = ev.disk[r]
        BY <3>1, <3>4, <1>13 DEF Holds
      <4>2. ~Cached(pg2, r)
        BY <2>3, <3>1, <3>4, <1>4, <1>7, <1>8, <1>9 DEF Cached, Holds, WellFormed
      <4> QED BY <3>2, <4>1, <4>2, <1>8 DEF View
    <3> QED BY <3>3, <3>4
  <2> QED BY <2>1, <2>2, <2>3
<1>15. CleanExcept(pg2, E)
  <2> SUFFICES ASSUME NEW j \in Frames, fr[j].is_valid, ~fr[j].is_dirty, fr[j].page_id \notin E
               PROVE  fr[j].data = ev.disk[fr[j].page_id]
    BY <1>8 DEF CleanExcept
  <2> QED BY <1>3, <1>7, <1>9 DEF Coherent, CleanExcept
<1>16. PinnedAs(pg2, MorePins(h, p))
  <2>1. h[p] = 0
    BY <1>3, <1>10 DEF Coherent, PinnedAs
  <2>2. ASSUME NEW j \in Frames, fr[j].is_valid
        PROVE  fr[j].pin_count = MorePins(h, p)[fr[j].page_id]
    <3>1. CASE j = i
      BY <3>1, <2>1, <1>9 DEF MorePins
    <3>2. CASE j # i
      <4>1. /\ ev.frames[j].is_valid /\ fr[j].page_id = ev.frames[j].page_id
            /\ fr[j].pin_count = ev.frames[j].pin_count
        BY <2>2, <3>2, <1>7
      <4>2. ev.frames[j].pin_count = h[ev.frames[j].page_id]
            /\ ev.frames[j].page_id \in PageIds /\ ev.frames[j].page_id # p
        BY <4>1, <1>3, <1>4, <1>11 DEF Coherent, PinnedAs, WellFormed
      <4> QED BY <4>1, <4>2 DEF MorePins
    <3> QED BY <3>1, <3>2
  <2>3. ASSUME NEW q \in PageIds, ~Cached(pg2, q)
        PROVE  MorePins(h, p)[q] = 0
    <3>1. q # p
      BY <2>3, <1>1, <1>8, <1>9 DEF Cached, Holds
    <3>2. CASE Cached(ev, q)
      <4>1. PICK j \in Frames : Holds(ev.frames[j], q)
        BY <3>2 DEF Cached
      <4>2. j = i
        BY <4>1, <2>3, <1>7, <1>8 DEF Cached, Holds
      <4> QED BY <4>1, <4>2, <3>1, <1>13 DEF Holds, MorePins
    <3>3. CASE ~Cached(ev, q)
      BY <3>1, <3>3, <1>3 DEF Coherent, PinnedAs, MorePins
    <3> QED BY <3>2, <3>3
  <2> QED BY <2>2, <2>3, <1>8 DEF PinnedAs
<1>17. Cached(pg2, p)
  BY <1>1, <1>8, <1>9 DEF Cached, Holds
<1>18. SameView(pg, pg2) /\ SameHeaders(pg, pg2)
  BY <1>3, <1>8, <1>14 DEF SameView, SameHeaders
<1> QED BY <1>12, <1>15, <1>16, <1>17, <1>18 DEF Coherent, pg2

LEMMA GetPageLemma ==
  ASSUME NEW pg, NEW E, NEW h \in [PageIds -> Nat], Coherent(pg, E, h), EditsHeld(E, h),
         NEW p \in PageIds, CanGet(pg, p)
  PROVE  /\ Coherent(GetPage(pg, p), E, MorePins(h, p))
         /\ SameView(pg, GetPage(pg, p)) /\ SameHeaders(pg, GetPage(pg, p))
         /\ Cached(GetPage(pg, p), p)
<1>1. CASE Cached(pg, p)
  <2>1. FrameOf(pg, p) \in Frames /\ Holds(pg.frames[FrameOf(pg, p)], p)
    BY <1>1, FrameOfCached
  <2>2. PICK i \in Frames : i = FrameOf(pg, p) /\ Holds(pg.frames[i], p)
    BY <2>1
  <2>3. GetPage(pg, p) = Hit(pg, i)
    BY <1>1, <2>2 DEF GetPage
  <2>4. /\ Coherent(Hit(pg, i), E, [h EXCEPT ![p] = @ + 1]) /\ SameView(pg, Hit(pg, i))
        /\ Hit(pg, i).header = pg.header /\ Hit(pg, i).disk_header = pg.disk_header
        /\ Hit(pg, i).last_heap_page_id = pg.last_heap_page_id /\ Cached(Hit(pg, i), p)
    BY ZenonT(40), <2>2, HitLemma
  <2> QED BY <2>3, <2>4 DEF MorePins, SameHeaders
<1>2. CASE ~Cached(pg, p)
  <2>1. (CHOOSE i \in Victims(pg) : TRUE) \in Victims(pg)
    BY <1>2 DEF CanGet
  <2> QED BY <1>2, <2>1, LoadLemma DEF GetPage
<1> QED BY <1>1, <1>2

(* A write through the pointer shows at once, and leaves its page among    *)
(* the pages being edited.                                                 *)
LEMMA SetDataLemma ==
  ASSUME NEW pg, NEW E, NEW h, Coherent(pg, E, h),
         NEW p \in PageIds, Cached(pg, p), NEW page \in Page
  PROVE  LET pg2 == SetData(pg, p, page)
         IN  /\ Coherent(pg2, E \cup {p}, h)
             /\ ViewChanged(pg, pg2, p, page)
             /\ SameHeaders(pg, pg2) /\ Cached(pg2, p)
             /\ pg2.disk = pg.disk
<1> DEFINE f == FrameOf(pg, p)
           fr == [pg.frames EXCEPT ![f].data = page]
           pg2 == SetData(pg, p, page)
<1>1. f \in Frames /\ Holds(pg.frames[f], p)
  BY FrameOfCached
<1>2. pg \in PagerRecord /\ WellFormed(pg)
  BY DEF Coherent, WellFormed
<1> HIDE DEF f
<1>3. /\ fr \in [Frames -> Frame]
      /\ \A j \in Frames :
           /\ fr[j].is_valid = pg.frames[j].is_valid
           /\ fr[j].page_id = pg.frames[j].page_id
           /\ fr[j].is_dirty = pg.frames[j].is_dirty
           /\ fr[j].pin_count = pg.frames[j].pin_count
           /\ fr[j].data = IF j = f THEN page ELSE pg.frames[j].data
  BY <1>1, <1>2 DEF PagerRecord, Frame
<1>4. pg2 = [frames |-> fr, header |-> pg.header,
             last_heap_page_id |-> pg.last_heap_page_id,
             disk |-> pg.disk, disk_header |-> pg.disk_header]
  <2>1. pg2 = [pg EXCEPT !.frames = fr]
    BY <1>2 DEF SetData, f, PagerRecord
  <2> HIDE DEF fr, pg2
  <2> QED BY <1>2, <2>1 DEF PagerRecord
<1> HIDE DEF fr, pg2
<1>5. WellFormed(pg2)
  BY <1>2, <1>3, <1>4 DEF WellFormed, PagerRecord
<1>6. CleanExcept(pg2, E \cup {p})
  <2> SUFFICES ASSUME NEW j \in Frames, fr[j].is_valid, ~fr[j].is_dirty,
                      fr[j].page_id \notin E \cup {p}
               PROVE  fr[j].data = pg.disk[fr[j].page_id]
    BY <1>4 DEF CleanExcept
  <2>1. j # f
    BY <1>1, <1>3 DEF Holds
  <2> QED BY <2>1, <1>3 DEF CleanExcept, Coherent
<1>7. \A q : Cached(pg2, q) <=> Cached(pg, q)
  BY <1>3, <1>4 DEF Cached, Holds
<1>8. PinnedAs(pg2, h)
  BY <1>3, <1>4, <1>7 DEF PinnedAs, Coherent
<1>9. ASSUME NEW q \in PageIds
      PROVE  View(pg2, q) = IF q = p THEN page ELSE View(pg, q)
  <2>1. CASE ~Cached(pg, q)
    BY <2>1, <1>4, <1>7 DEF View
  <2>2. CASE Cached(pg, q)
    <3>1. PICK j \in Frames : Holds(pg.frames[j], q)
      BY <2>2 DEF Cached
    <3>2. Holds(pg2.frames[j], q)
      BY <3>1, <1>3, <1>4 DEF Holds
    <3>3. View(pg, q) = pg.frames[j].data /\ View(pg2, q) = pg2.frames[j].data
      BY <3>1, <3>2, <1>2, <1>5, HolderIsFrameOf
    <3>4. q = p <=> j = f
      BY <3>1, <1>1, <1>2 DEF Holds, WellFormed
    <3> QED BY <3>3, <3>4, <1>3, <1>4
  <2> QED BY <2>1, <2>2
<1> QED BY <1>4, <1>5, <1>6, <1>7, <1>8, <1>9 DEF Coherent, SameHeaders, ViewChanged, pg2

(* Setting the dirty flag ends the edit of a page. *)
LEMMA SetDirtyLemma ==
  ASSUME NEW pg, NEW E, NEW h, Coherent(pg, E, h), NEW p \in PageIds, Cached(pg, p)
  PROVE  LET marked == SetDirty(pg, p)
         IN  /\ Coherent(marked, E \ {p}, h)
             /\ SameView(pg, marked) /\ SameHeaders(pg, marked)
             /\ \A q \in PageIds : Cached(marked, q) <=> Cached(pg, q)
             /\ marked.disk = pg.disk
             /\ Dirty(marked) = Dirty(pg) \cup {FrameOf(pg, p)}
<1> DEFINE f == FrameOf(pg, p)
           fr == [pg.frames EXCEPT ![f].is_dirty = TRUE]
           marked == SetDirty(pg, p)
<1>1. f \in Frames /\ Holds(pg.frames[f], p)
  BY FrameOfCached
<1>2. pg \in PagerRecord /\ WellFormed(pg)
  BY DEF Coherent, WellFormed
<1> HIDE DEF f
<1>3. /\ fr \in [Frames -> Frame]
      /\ \A j \in Frames :
           /\ fr[j].is_valid = pg.frames[j].is_valid
           /\ fr[j].page_id = pg.frames[j].page_id
           /\ fr[j].is_dirty = (pg.frames[j].is_dirty \/ j = f)
           /\ fr[j].pin_count = pg.frames[j].pin_count
           /\ fr[j].data = pg.frames[j].data
  BY <1>1, <1>2 DEF PagerRecord, Frame
<1>4. marked = [frames |-> fr, header |-> pg.header,
                last_heap_page_id |-> pg.last_heap_page_id,
                disk |-> pg.disk, disk_header |-> pg.disk_header]
  <2>1. marked = [pg EXCEPT !.frames = fr]
    BY <1>2 DEF SetDirty, f, PagerRecord
  <2> HIDE DEF fr, marked
  <2> QED BY <1>2, <2>1 DEF PagerRecord
<1> HIDE DEF fr, marked
<1>5. WellFormed(marked)
  BY <1>2, <1>3, <1>4 DEF WellFormed, PagerRecord
<1>6. SameView(pg, marked) /\ \A q \in PageIds : Cached(marked, q) <=> Cached(pg, q)
  BY SMTT(30), <1>2, <1>3, <1>4, <1>5, ViewFromFrames
<1>7. CleanExcept(marked, E \ {p})
  <2> SUFFICES ASSUME NEW j \in Frames, fr[j].is_valid, ~fr[j].is_dirty,
                      fr[j].page_id \notin E \ {p}
               PROVE  fr[j].data = pg.disk[fr[j].page_id]
    BY <1>4 DEF CleanExcept
  <2>1. j # f
    BY <1>3
  <2>2. pg.frames[j].page_id # p
    BY <2>1, <1>1, <1>2, <1>3 DEF Holds, WellFormed
  <2> QED BY <2>1, <2>2, <1>3 DEF CleanExcept, Coherent
<1>8. PinnedAs(marked, h)
  BY <1>3, <1>4, <1>6 DEF PinnedAs, Coherent
<1>9. Coherent(marked, E \ {p}, h)
  BY <1>5, <1>7, <1>8 DEF Coherent
<1>10. Dirty(marked) = Dirty(pg) \cup {f}
  BY <1>1, <1>3, <1>4 DEF Dirty, Holds
<1> QED BY <1>4, <1>6, <1>9, <1>10 DEF SameHeaders, marked, f

(* Marking a page dirty ends its edit: the cache is coherent again with    *)
(* the page no longer excepted, whether or not the watermark flush ran.    *)
LEMMA MarkDirtyLemma ==
  ASSUME NEW pg, NEW E, NEW h, Coherent(pg, E, h), NEW p \in PageIds, Cached(pg, p)
  PROVE  LET pg2 == MarkDirty(pg, p)
         IN  /\ Coherent(pg2, E \ {p}, h)
             /\ SameView(pg, pg2) /\ SameHeaders(pg, pg2) /\ Cached(pg2, p)
<1> DEFINE marked == SetDirty(pg, p)
           W == OldestDirty(marked, Cardinality(Dirty(marked)) - LowWatermark)
           pg2 == MarkDirty(pg, p)
<1>1. /\ Coherent(marked, E \ {p}, h) /\ Cached(marked, p)
      /\ SameView(pg, marked) /\ SameHeaders(pg, marked)
  BY SetDirtyLemma
<1>2. W \in SUBSET Dirty(marked)
  BY DEF OldestDirty, FlushCandidates
<1>3. pg2 = marked \/ pg2 = WriteFrames(marked, W)
  BY DEF MarkDirty, FlushDirty
<1> HIDE DEF marked, W, pg2
<1>4. CASE pg2 = marked
  BY <1>1, <1>4 DEF pg2
<1>5. CASE pg2 = WriteFrames(marked, W)
  <2>1. Coherent(pg2, E \ {p}, h)
    BY <1>1, <1>2, <1>5, WriteFramesCoherent
  <2>2. /\ SameView(marked, pg2)
        /\ pg2.header = marked.header /\ pg2.disk_header = marked.disk_header
        /\ pg2.last_heap_page_id = marked.last_heap_page_id
        /\ \A j \in Frames : /\ pg2.frames[j].is_valid = marked.frames[j].is_valid
                             /\ pg2.frames[j].page_id = marked.frames[j].page_id
    BY <1>1, <1>2, <1>5, WriteFramesLemma DEF Coherent
  <2>3. Cached(pg2, p)
    BY <1>1, <2>2 DEF Cached, Holds
  <2>4. SameView(pg, pg2) /\ SameHeaders(pg, pg2)
    BY <1>1, <2>2 DEF SameView, SameHeaders
  <2> QED BY <2>1, <2>3, <2>4 DEF pg2
<1> QED BY <1>3, <1>4, <1>5

LEMMA UnpinLemma ==
  ASSUME NEW pg, NEW E, NEW h \in [PageIds -> Nat], Coherent(pg, E, h),
         NEW p \in PageIds, Cached(pg, p), h[p] > 0
  PROVE  /\ Coherent(Unpin(pg, p), E, FewerPins(h, p))
         /\ SameView(pg, Unpin(pg, p)) /\ SameHeaders(pg, Unpin(pg, p))
         /\ Cached(Unpin(pg, p), p)
<1> DEFINE f == FrameOf(pg, p)
           fr == [pg.frames EXCEPT ![f].pin_count = @ - 1]
           pg2 == Unpin(pg, p)
<1>1. f \in Frames /\ Holds(pg.frames[f], p)
  BY FrameOfCached
<1>2. pg \in PagerRecord /\ WellFormed(pg)
  BY DEF Coherent, WellFormed
<1>3. pg.frames[f].pin_count = h[p]
  BY <1>1 DEF Holds, Coherent, PinnedAs
<1>4. pg2 = [pg EXCEPT !.frames = fr]
  BY <1>2, <1>3 DEF Unpin, PagerRecord
<1> HIDE DEF f, pg2
<1>5. /\ fr \in [Frames -> Frame]
      /\ \A j \in Frames :
           /\ fr[j].is_valid = pg.frames[j].is_valid
           /\ fr[j].page_id = pg.frames[j].page_id
           /\ fr[j].is_dirty = pg.frames[j].is_dirty
           /\ fr[j].data = pg.frames[j].data
           /\ fr[j].pin_count = IF j = f THEN pg.frames[j].pin_count - 1
                                         ELSE pg.frames[j].pin_count
  <2>1. pg.frames[f].pin_count - 1 \in Nat
    BY <1>3
  <2> QED BY <2>1, <1>1, <1>2 DEF PagerRecord, Frame
<1> HIDE DEF fr
<1>6. pg2 = [frames |-> fr, header |-> pg.header,
             last_heap_page_id |-> pg.last_heap_page_id,
             disk |-> pg.disk, disk_header |-> pg.disk_header]
  BY <1>2, <1>4 DEF PagerRecord
<1>7. WellFormed(pg2)
  BY <1>2, <1>5, <1>6 DEF WellFormed, PagerRecord
<1>8. SameView(pg, pg2) /\ \A q \in PageIds : Cached(pg2, q) <=> Cached(pg, q)
  BY <1>2, <1>5, <1>6, <1>7, ViewFromFrames
<1>9. CleanExcept(pg2, E)
  BY <1>5, <1>6 DEF CleanExcept, Coherent
<1>10. PinnedAs(pg2, FewerPins(h, p))
  <2>1. ASSUME NEW j \in Frames, pg2.frames[j].is_valid
        PROVE  pg2.frames[j].pin_count = FewerPins(h, p)[pg2.frames[j].page_id]
    <3>1. /\ pg.frames[j].is_valid /\ pg.frames[j].page_id \in PageIds
          /\ pg.frames[j].pin_count = h[pg.frames[j].page_id]
      BY <2>1, <1>2, <1>5, <1>6 DEF WellFormed, Coherent, PinnedAs
    <3>2. pg.frames[j].page_id = p <=> j = f
      BY <3>1, <1>1, <1>2 DEF WellFormed, Holds
    <3> QED BY <3>1, <3>2, <1>5, <1>6 DEF FewerPins
  <2> QED BY <2>1, <1>8 DEF PinnedAs, Coherent, FewerPins
<1> QED BY <1>6, <1>7, <1>8, <1>9, <1>10 DEF Coherent, SameHeaders, pg2

(* A pin taken and given back leaves the pin map as it was. *)
LEMMA PinsBalance ==
  ASSUME NEW h \in [PageIds -> Nat], NEW p \in PageIds
  PROVE  /\ MorePins(h, p) \in [PageIds -> Nat] /\ MorePins(h, p)[p] > 0
         /\ FewerPins(MorePins(h, p), p) = h
<1>1. MorePins(h, p) \in [PageIds -> Nat]
  BY DEF MorePins
<1>2. ASSUME NEW q \in PageIds PROVE FewerPins(MorePins(h, p), p)[q] = h[q]
  BY DEF MorePins, FewerPins
<1>3. FewerPins(MorePins(h, p), p) \in [PageIds -> Int]
  BY DEF MorePins, FewerPins
<1>4. MorePins(h, p)[p] = h[p] + 1
  BY DEF MorePins
<1> QED BY <1>1, <1>2, <1>3, <1>4

(* get, overwrite, mark, unpin: the page changes, no pin is left behind.   *)
LEMMA UpdatePageLemma ==
  ASSUME NEW pg, NEW E, NEW h \in [PageIds -> Nat], Coherent(pg, E, h), EditsHeld(E, h),
         NEW p \in PageIds, CanGet(pg, p), NEW page \in Page
  PROVE  LET pg2 == UpdatePage(pg, p, page)
         IN  /\ Coherent(pg2, E \ {p}, h)
             /\ ViewChanged(pg, pg2, p, page)
             /\ SameHeaders(pg, pg2) /\ Cached(pg2, p)
<1> DEFINE g == GetPage(pg, p)
           s == SetData(g, p, page)
           m == MarkDirty(s, p)
           pg2 == Unpin(m, p)
           h2 == MorePins(h, p)
<1>1. h2 \in [PageIds -> Nat] /\ h2[p] > 0 /\ FewerPins(h2, p) = h
  BY PinsBalance
<1>2. Coherent(g, E, h2) /\ SameView(pg, g) /\ SameHeaders(pg, g) /\ Cached(g, p)
  BY GetPageLemma
<1> HIDE DEF g, h2
<1>3. /\ Coherent(s, E \cup {p}, h2) /\ SameHeaders(g, s) /\ Cached(s, p)
      /\ ViewChanged(g, s, p, page)
  <2>1. page \in Page /\ p \in PageIds /\ Coherent(g, E, h2) /\ Cached(g, p)
    BY <1>2
  <2> QED BY <2>1, SetDataLemma
<1> HIDE DEF s
<1>4. /\ Coherent(m, (E \cup {p}) \ {p}, h2)
      /\ SameView(s, m) /\ SameHeaders(s, m) /\ Cached(m, p)
  BY <1>3, MarkDirtyLemma
<1> HIDE DEF m
<1>5. Coherent(pg2, (E \cup {p}) \ {p}, h) /\ SameView(m, pg2)
      /\ SameHeaders(m, pg2) /\ Cached(pg2, p)
  BY <1>1, <1>4, UnpinLemma
<1>6. (E \cup {p}) \ {p} = E \ {p}
  OBVIOUS
<1>7. UpdatePage(pg, p, page) = pg2
  BY DEF UpdatePage, g, s, m
<1> HIDE DEF pg2
<1>8. SameHeaders(pg, pg2)
  BY <1>2, <1>3, <1>4, <1>5 DEF SameHeaders
<1>9. ViewChanged(pg, pg2, p, page)
  BY <1>2, <1>3, <1>4, <1>5 DEF SameView, ViewChanged
<1> QED BY <1>5, <1>6, <1>7, <1>8, <1>9

(* flush_all leaves every page and the header equal to the file. *)
LEMMA FlushAllLemma ==
  ASSUME NEW pg, NEW h, Coherent(pg, {}, h)
  PROVE  LET pg2 == FlushAll(pg)
         IN  /\ Coherent(pg2, {}, h) /\ SameView(pg, pg2)
             /\ pg2.header = pg.header /\ pg2.disk_header = pg.header
             /\ pg2.last_heap_page_id = pg.last_heap_page_id
             /\ \A p \in PageIds : pg2.disk[p] = View(pg, p)
<1> DEFINE w == WriteFrames(pg, Dirty(pg))
           pg2 == FlushAll(pg)
<1>1. pg \in PagerRecord /\ WellFormed(pg)
  BY DEF Coherent, WellFormed
<1>2. Coherent(w, {}, h)
  BY WriteFramesCoherent
<1>3. /\ SameView(pg, w) /\ w.header = pg.header
      /\ w.last_heap_page_id = pg.last_heap_page_id
      /\ \A i \in Frames : ~(w.frames[i].is_valid /\ w.frames[i].is_dirty)
  BY <1>1, WriteFramesLemma DEF Dirty
<1> HIDE DEF w
<1>4. w \in PagerRecord /\ WellFormed(w)
  BY <1>2 DEF Coherent, WellFormed
<1>5. pg2 = [frames |-> w.frames, header |-> w.header,
             last_heap_page_id |-> w.last_heap_page_id,
             disk |-> w.disk, disk_header |-> pg.header]
  BY <1>4 DEF FlushAll, w, PagerRecord
<1> HIDE DEF pg2
<1>6. WellFormed(pg2)
  BY <1>1, <1>4, <1>5 DEF WellFormed, PagerRecord
<1>7. \A p : Cached(pg2, p) <=> Cached(w, p)
  BY <1>5 DEF Cached
<1>8. SameView(w, pg2)
  BY <1>4, <1>5, <1>6, ViewFromFrames
<1>9. Coherent(pg2, {}, h)
  BY <1>2, <1>5, <1>6, <1>7 DEF Coherent, CleanExcept, PinnedAs
<1>10. ASSUME NEW p \in PageIds PROVE w.disk[p] = View(w, p)
  <2>1. CASE Cached(w, p)
    <3>1. PICK i \in Frames : Holds(w.frames[i], p)
      BY <2>1 DEF Cached
    <3>2. View(w, p) = w.frames[i].data
      BY <3>1, <1>4, HolderIsFrameOf
    <3> QED BY <3>1, <3>2, <1>2, <1>3 DEF Coherent, CleanExcept, Holds
  <2>2. CASE ~Cached(w, p)
    BY <2>2 DEF View
  <2> QED BY <2>1, <2>2
<1>11. SameView(pg, pg2) /\ \A p \in PageIds : pg2.disk[p] = View(pg, p)
  BY <1>3, <1>5, <1>8, <1>10 DEF SameView
<1> QED BY <1>3, <1>5, <1>9, <1>11 DEF pg2

-----------------------------------------------------------------------------
(* Allocation *)

LEMMA CoherentWeaken ==
  ASSUME NEW pg, NEW E, NEW h, NEW p, Coherent(pg, E \ {p}, h)
  PROVE  Coherent(pg, E, h)
BY DEF Coherent, CleanExcept

(* Replacing the header in memory does not concern the cache. *)
LEMMA NewHeaderLemma ==
  ASSUME NEW pg, NEW E, NEW h, Coherent(pg, E, h), NEW hd \in Header
  PROVE  LET pg2 == [pg EXCEPT !.header = hd]
         IN  /\ Coherent(pg2, E, h) /\ SameView(pg, pg2)
             /\ \A p : Cached(pg2, p) <=> Cached(pg, p)
             /\ pg2.header = hd /\ pg2.disk_header = pg.disk_header
             /\ pg2.last_heap_page_id = pg.last_heap_page_id
<1> DEFINE pg2 == [pg EXCEPT !.header = hd]
<1>1. pg \in PagerRecord /\ WellFormed(pg)
  BY DEF Coherent, WellFormed
<1>2. /\ pg2 \in PagerRecord /\ pg2.frames = pg.frames /\ pg2.disk = pg.disk
      /\ pg2.header = hd /\ pg2.disk_header = pg.disk_header
      /\ pg2.last_heap_page_id = pg.last_heap_page_id
  BY <1>1 DEF PagerRecord
<1> HIDE DEF pg2
<1>3. WellFormed(pg2)
  BY <1>1, <1>2 DEF WellFormed
<1>4. \A p : Cached(pg2, p) <=> Cached(pg, p)
  BY <1>2 DEF Cached
<1>5. Coherent(pg2, E, h)
  BY <1>2, <1>3, <1>4 DEF Coherent, CleanExcept, PinnedAs
<1>6. SameView(pg, pg2)
  BY <1>1, <1>2, <1>3, ViewFromFrames
<1> QED BY <1>2, <1>4, <1>5, <1>6 DEF pg2

LEMMA AllocatedIdType ==
  ASSUME NEW pg, WellFormed(pg), MayGrow(pg.header)
  PROVE  AllocatedId(pg) \in PageIds
<1>1. pg.header \in Header
  BY DEF WellFormed, PagerRecord
<1> QED BY <1>1, ConstantFacts
        DEF MayGrow, AllocatedId, Header, PageIds, Links, NULL

(* The header pager_alloc_page leaves. *)
HeaderAfterAlloc(pg) ==
  IF pg.header.free_page_head # NULL
  THEN [pg.header EXCEPT !.free_page_head = View(pg, AllocatedId(pg)).link]
  ELSE [pg.header EXCEPT !.next_page_id = @ + 1]

LEMMA AllocPageLemma ==
  ASSUME NEW pg, NEW E, NEW h \in [PageIds -> Nat], Coherent(pg, E, h), EditsHeld(E, h),
         MayGrow(pg.header), CanGet(pg, AllocatedId(pg))
  PROVE  LET pg2 == AllocPage(pg)
         IN  /\ Coherent(pg2, E, h)
             /\ ViewChanged(pg, pg2, AllocatedId(pg), ZeroPage)
             /\ Cached(pg2, AllocatedId(pg))
             /\ pg2.header = HeaderAfterAlloc(pg) /\ pg2.disk_header = pg.disk_header
             /\ pg2.last_heap_page_id = pg.last_heap_page_id
<1> DEFINE pid == AllocatedId(pg)
           u == UpdatePage(pg, pid, ZeroPage)
           hd == HeaderAfterAlloc(pg)
           pg2 == AllocPage(pg)
<1>1. WellFormed(pg) /\ pg.header \in Header
  BY DEF Coherent, WellFormed, PagerRecord
<1>2. pid \in PageIds
  BY <1>1, AllocatedIdType
<1>3. hd \in Header
  <2>1. CASE pg.header.free_page_head # NULL
    <3>1. View(pg, pid).link \in Links
      BY <1>1, <1>2, ViewType DEF Page
    <3> QED BY <2>1, <3>1, <1>1 DEF HeaderAfterAlloc, Header
  <2>2. CASE pg.header.free_page_head = NULL
    BY <2>2, <1>1, ConstantFacts DEF HeaderAfterAlloc, Header, MayGrow
  <2> QED BY <2>1, <2>2
<1>4. /\ Coherent(u, E \ {pid}, h) /\ ViewChanged(pg, u, pid, ZeroPage)
      /\ SameHeaders(pg, u) /\ Cached(u, pid)
  BY <1>2, PageFacts, UpdatePageLemma
<1>5. pg2 = [u EXCEPT !.header = hd]
  <2>1. u \in PagerRecord /\ u.header = pg.header
    BY <1>4 DEF Coherent, WellFormed, SameHeaders
  <2>2. CASE pg.header.free_page_head # NULL
    BY <2>1, <2>2 DEF AllocPage, HeaderAfterAlloc, PagerRecord
  <2>3. CASE pg.header.free_page_head = NULL
    BY <2>1, <2>3 DEF AllocPage, HeaderAfterAlloc, PagerRecord
  <2> QED BY <2>2, <2>3
<1> HIDE DEF u, hd, pg2, pid
<1>6. Coherent(u, E, h)
  BY <1>4, CoherentWeaken
<1>7. /\ Coherent(pg2, E, h) /\ SameView(u, pg2) /\ Cached(pg2, pid)
      /\ pg2.header = hd /\ pg2.disk_header = u.disk_header
      /\ pg2.last_heap_page_id = u.last_heap_page_id
  BY <1>3, <1>4, <1>5, <1>6, NewHeaderLemma
<1>8. ViewChanged(pg, pg2, pid, ZeroPage)
  BY <1>4, <1>7 DEF SameView, ViewChanged
<1> QED BY <1>4, <1>7, <1>8 DEF SameHeaders, pg2, pid, hd

LEMMA PushFreePageLemma ==
  ASSUME NEW pg, NEW E, NEW h \in [PageIds -> Nat], Coherent(pg, E, h), EditsHeld(E, h),
         NEW p \in PageIds, CanGet(pg, p)
  PROVE  LET pg2 == PushFreePage(pg, p)
         IN  /\ Coherent(pg2, E, h)
             /\ ViewChanged(pg, pg2, p, FreePage(pg.header.free_page_head))
             /\ pg2.header = [pg.header EXCEPT !.free_page_head = p]
             /\ pg2.disk_header = pg.disk_header
             /\ pg2.last_heap_page_id = pg.last_heap_page_id
<1> DEFINE page == FreePage(pg.header.free_page_head)
           u == UpdatePage(pg, p, page)
           hd == [pg.header EXCEPT !.free_page_head = p]
           pg2 == PushFreePage(pg, p)
<1>1. pg.header \in Header
  BY DEF Coherent, WellFormed, PagerRecord
<1>2. page \in Page /\ hd \in Header
  BY <1>1, ConstantFacts, PageFacts DEF Header
<1> HIDE DEF page
<1>3. /\ Coherent(u, E \ {p}, h) /\ ViewChanged(pg, u, p, page)
      /\ SameHeaders(pg, u) /\ Cached(u, p)
  BY <1>2, UpdatePageLemma
<1>4. pg2 = [u EXCEPT !.header = hd]
  <2>1. u \in PagerRecord /\ u.header = pg.header
    BY <1>3 DEF Coherent, WellFormed, SameHeaders
  <2> QED BY <2>1 DEF PushFreePage, PagerRecord, page
<1> HIDE DEF u, hd, pg2
<1>5. Coherent(u, E, h)
  BY <1>3, CoherentWeaken
<1>6. /\ Coherent(pg2, E, h) /\ SameView(u, pg2)
      /\ pg2.header = hd /\ pg2.disk_header = u.disk_header
      /\ pg2.last_heap_page_id = u.last_heap_page_id
  BY <1>2, <1>4, <1>5, NewHeaderLemma
<1>7. ViewChanged(pg, pg2, p, page)
  BY <1>3, <1>6 DEF SameView, ViewChanged
<1> QED BY <1>3, <1>6, <1>7 DEF SameHeaders, pg2, page, hd

-----------------------------------------------------------------------------
(* While fewer pages are pinned than there are frames, pager_get_page has  *)
(* a frame to give: if every frame were valid and pinned, their pages      *)
(* would be as many distinct pinned pages.                                 *)
LEMMA FrameAvailable ==
  ASSUME NEW pg, NEW E, NEW h \in [PageIds -> Nat], Coherent(pg, E, h),
         Cardinality({q \in PageIds : h[q] > 0}) < NumFrames, NEW p
  PROVE  CanGet(pg, p)
<1> DEFINE H == {q \in PageIds : h[q] > 0}
           f == [i \in Frames |-> pg.frames[i].page_id]
<1>1. pg \in PagerRecord /\ WellFormed(pg)
  BY DEF Coherent, WellFormed
<1>2. SUFFICES ASSUME FreeFrames(pg) = {}, Evictable(pg) = {} PROVE FALSE
  BY <1>1, VictimExists DEF CanGet
<1>3. \A i \in Frames : pg.frames[i].is_valid /\ pg.frames[i].pin_count # 0
  BY <1>2 DEF FreeFrames, Evictable
<1>4. \A i \in Frames : f[i] \in H
  BY <1>1, <1>3 DEF WellFormed, Coherent, PinnedAs
<1>5. f \in [Frames -> H]
  BY <1>4
<1>6. IsFiniteSet(H)
  <2>1. IsFiniteSet(PageIds)
    BY ConstantFacts, FS_Interval DEF PageIds
  <2> QED BY <2>1, FS_Subset
<1>7. IsFiniteSet(Frames) /\ Cardinality(Frames) = NumFrames
  BY ConstantFacts, FS_Interval DEF Frames
<1> HIDE DEF H, f
<1>8. \E i, j \in Frames : i # j /\ f[i] = f[j]
  BY <1>5, <1>6, <1>7, FS_PigeonHole DEF H
<1> QED BY <1>1, <1>3, <1>8 DEF WellFormed, f
-----------------------------------------------------------------------------
(* What a call writes to the file *)

(* Every page pg2's file has new is a page nobody pinned, whole, as the    *)
(* callers of pg saw it.                                                   *)
WritesBack(pg, pg2, h) ==
  \A q \in PageIds :
    pg2.disk[q] # pg.disk[q] => h[q] = 0 /\ pg2.disk[q] = View(pg, q)

(* Writing back unpinned dirty frames. *)
LEMMA WriteFramesWritesBack ==
  ASSUME NEW pg, NEW E, NEW h, Coherent(pg, E, h), NEW W \in SUBSET Dirty(pg),
         \A i \in W : pg.frames[i].pin_count = 0
  PROVE  WritesBack(pg, WriteFrames(pg, W), h)
<1> DEFINE pg2 == WriteFrames(pg, W)
<1>1. WellFormed(pg) /\ W \subseteq Frames
  BY DEF Coherent, Dirty
<1>2. /\ \A i \in W : pg2.disk[pg.frames[i].page_id] = pg.frames[i].data
      /\ \A q \in PageIds : (\A i \in W : pg.frames[i].page_id # q) => pg2.disk[q] = pg.disk[q]
  BY <1>1, WriteFramesLemma
<1> HIDE DEF pg2
<1> SUFFICES ASSUME NEW q \in PageIds, pg2.disk[q] # pg.disk[q]
             PROVE  h[q] = 0 /\ pg2.disk[q] = View(pg, q)
  BY DEF WritesBack, pg2
<1>3. PICK i \in W : pg.frames[i].page_id = q
  BY <1>2
<1>4. i \in Frames /\ Holds(pg.frames[i], q)
  BY <1>3, <1>1 DEF Dirty, Holds
<1>5. View(pg, q) = pg.frames[i].data
  BY <1>1, <1>4, HolderIsFrameOf
<1>6. h[q] = 0
  BY <1>3, <1>4 DEF Coherent, PinnedAs, Holds
<1> QED BY <1>2, <1>3, <1>5, <1>6

LEMMA GetPageWritesBack ==
  ASSUME NEW pg, NEW E, NEW h \in [PageIds -> Nat], Coherent(pg, E, h),
         NEW p \in PageIds, CanGet(pg, p)
  PROVE  /\ WritesBack(pg, GetPage(pg, p), h)
         /\ GetPage(pg, p).disk[p] = pg.disk[p]
<1>0. WellFormed(pg) /\ pg \in PagerRecord
  BY DEF Coherent, WellFormed
<1>1. CASE Cached(pg, p)
  <2>1. FrameOf(pg, p) \in Frames /\ Holds(pg.frames[FrameOf(pg, p)], p)
    BY <1>1, FrameOfCached
  <2> QED BY <1>1, <2>1, HitLemma DEF GetPage, WritesBack
<1>2. CASE ~Cached(pg, p)
  <2> DEFINE i == CHOOSE j \in Victims(pg) : TRUE
             W == {i} \cap Dirty(pg)
             ev == EvictFrame(pg, i)
  <2>1. i \in Victims(pg)
    BY <1>2 DEF CanGet
  <2> HIDE DEF i
  <2>2. i \in Frames /\ (~pg.frames[i].is_valid \/ pg.frames[i].pin_count = 0)
    BY <2>1, VictimsAreEvictable
  <2>3. W \in SUBSET Dirty(pg) /\ \A j \in W : pg.frames[j].pin_count = 0
    BY <2>2 DEF Dirty
  <2>4. ev = WriteFrames(pg, W)
    BY DEF EvictFrame
  <2> HIDE DEF W, ev
  <2>5. WritesBack(pg, ev, h) /\ ev \in PagerRecord
    BY <2>3, <2>4, <1>0, WriteFramesWritesBack, WriteFramesLemma DEF WellFormed
  <2>6. \A j \in W : pg.frames[j].page_id # p
    BY <1>2, <2>3 DEF Cached, Holds, Dirty
  <2>7. ev.disk[p] = pg.disk[p]
    BY <2>3, <2>4, <2>6, <1>0, WriteFramesLemma
  <2>8. GetPage(pg, p).disk = ev.disk
    <3>1. GetPage(pg, p) = Load(pg, i, p)
      BY <1>2 DEF GetPage, i
    <3> QED BY <2>5, <3>1 DEF Load, ev, PagerRecord
  <2> QED BY <2>5, <2>7, <2>8 DEF WritesBack
<1> QED BY <1>1, <1>2

LEMMA MarkDirtyWritesBack ==
  ASSUME NEW pg, NEW E, NEW h \in [PageIds -> Nat], Coherent(pg, E, h),
         NEW p \in PageIds, Cached(pg, p)
  PROVE  WritesBack(pg, MarkDirty(pg, p), h)
<1> DEFINE marked == SetDirty(pg, p)
           W == OldestDirty(marked, Cardinality(Dirty(marked)) - LowWatermark)
<1>1. /\ Coherent(marked, E \ {p}, h) /\ SameView(pg, marked)
      /\ marked.disk = pg.disk
  BY SetDirtyLemma
<1>2. W \in SUBSET Dirty(marked) /\ \A i \in W : marked.frames[i].pin_count = 0
  BY DEF OldestDirty, FlushCandidates
<1>3. MarkDirty(pg, p) = marked \/ MarkDirty(pg, p) = WriteFrames(marked, W)
  BY DEF MarkDirty, FlushDirty
<1> HIDE DEF W, marked
<1>4. WritesBack(marked, WriteFrames(marked, W), h)
  BY <1>1, <1>2, WriteFramesWritesBack
<1> QED BY <1>1, <1>3, <1>4 DEF WritesBack, SameView
LEMMA SetDataFrames ==
  ASSUME NEW pg, NEW E, NEW h, Coherent(pg, E, h), NEW p \in PageIds, Cached(pg, p), NEW page
  PROVE  SetData(pg, p, page).disk = pg.disk /\ Dirty(SetData(pg, p, page)) = Dirty(pg)
<1>1. pg \in PagerRecord /\ FrameOf(pg, p) \in Frames
  BY FrameOfCached DEF Coherent, WellFormed
<1> DEFINE fr == [pg.frames EXCEPT ![FrameOf(pg, p)].data = page]
<1>2. SetData(pg, p, page) = [pg EXCEPT !.frames = fr]
  BY <1>1 DEF SetData, PagerRecord
<1>3. \A j \in Frames : /\ fr[j].is_valid = pg.frames[j].is_valid
                        /\ fr[j].is_dirty = pg.frames[j].is_dirty
  BY <1>1 DEF PagerRecord, Frame
<1> HIDE DEF fr
<1>4. SetData(pg, p, page).frames = fr /\ SetData(pg, p, page).disk = pg.disk
  BY <1>1, <1>2 DEF PagerRecord
<1> QED BY <1>3, <1>4 DEF Dirty

LEMMA UnpinFrames ==
  ASSUME NEW pg, NEW E, NEW h, Coherent(pg, E, h), NEW p \in PageIds
  PROVE  Unpin(pg, p).disk = pg.disk /\ Dirty(Unpin(pg, p)) = Dirty(pg)
<1> DEFINE fr == [pg.frames EXCEPT ![FrameOf(pg, p)].pin_count = @ - 1]
<1>1. pg \in PagerRecord
  BY DEF Coherent, WellFormed
<1>2. CASE Unpin(pg, p) = pg
  BY <1>2
<1>3. CASE Cached(pg, p) /\ Unpin(pg, p) = [pg EXCEPT !.frames = fr]
  <2>1. FrameOf(pg, p) \in Frames
    BY <1>3, FrameOfCached
  <2>2. \A j \in Frames : /\ fr[j].is_valid = pg.frames[j].is_valid
                          /\ fr[j].is_dirty = pg.frames[j].is_dirty
    BY <1>1, <2>1 DEF PagerRecord, Frame
  <2> HIDE DEF fr
  <2>3. Unpin(pg, p).frames = fr /\ Unpin(pg, p).disk = pg.disk
    BY <1>1, <1>3 DEF PagerRecord
  <2> QED BY <2>2, <2>3 DEF Dirty
<1>4. Unpin(pg, p) = pg \/ (Cached(pg, p) /\ Unpin(pg, p) = [pg EXCEPT !.frames = fr])
  BY <1>1 DEF Unpin, PagerRecord
<1> QED BY <1>2, <1>3, <1>4

(* A short update writes other pages back, never the one it updates: that  *)
(* one is pinned while it is marked.                                       *)
LEMMA UpdatePageWritesBack ==
  ASSUME NEW pg, NEW E, NEW h \in [PageIds -> Nat], Coherent(pg, E, h), EditsHeld(E, h),
         NEW p \in PageIds, CanGet(pg, p), NEW page \in Page
  PROVE  /\ WritesBack(pg, UpdatePage(pg, p, page), h)
         /\ UpdatePage(pg, p, page).disk[p] = pg.disk[p]
<1> DEFINE g == GetPage(pg, p)
           s == SetData(g, p, page)
           m == MarkDirty(s, p)
           h2 == MorePins(h, p)
<1>1. h2 \in [PageIds -> Nat] /\ \A q \in PageIds : h2[q] = 0 => q # p /\ h[q] = 0
  BY DEF MorePins
<1>2. /\ Coherent(g, E, h2) /\ SameView(pg, g) /\ Cached(g, p)
      /\ WritesBack(pg, g, h) /\ g.disk[p] = pg.disk[p]
  BY GetPageLemma, GetPageWritesBack
<1>3. UpdatePage(pg, p, page) = Unpin(m, p)
  BY DEF UpdatePage
<1> HIDE DEF g, h2
<1>4. /\ Coherent(s, E \cup {p}, h2) /\ Cached(s, p) /\ s.disk = g.disk
      /\ ViewChanged(g, s, p, page)
  BY <1>2, SetDataLemma
<1> HIDE DEF s
<1>5. WritesBack(s, m, h2) /\ Coherent(m, (E \cup {p}) \ {p}, h2)
  BY <1>1, <1>4, MarkDirtyLemma, MarkDirtyWritesBack
<1> HIDE DEF m
<1>6. Unpin(m, p).disk = m.disk
  BY <1>5, UnpinFrames
<1>7. ASSUME NEW q \in PageIds, m.disk[q] # pg.disk[q]
      PROVE  q # p /\ h[q] = 0 /\ m.disk[q] = View(pg, q)
  <2>1. CASE m.disk[q] # s.disk[q]
    <3>1. h2[q] = 0 /\ m.disk[q] = View(s, q)
      BY <2>1, <1>5 DEF WritesBack
    <3>2. q # p /\ h[q] = 0
      BY <3>1, <1>1
    <3> QED BY <3>1, <3>2, <1>2, <1>4 DEF ViewChanged, SameView
  <2>2. CASE m.disk[q] = s.disk[q]
    BY <2>2, <1>2, <1>4, <1>7 DEF WritesBack
  <2> QED BY <2>1, <2>2
<1> QED BY <1>3, <1>6, <1>7 DEF WritesBack

LEMMA AllocPageWritesBack ==
  ASSUME NEW pg, NEW E, NEW h \in [PageIds -> Nat], Coherent(pg, E, h), EditsHeld(E, h),
         MayGrow(pg.header), CanGet(pg, AllocatedId(pg))
  PROVE  /\ WritesBack(pg, AllocPage(pg), h)
         /\ AllocPage(pg).disk[AllocatedId(pg)] = pg.disk[AllocatedId(pg)]
<1> DEFINE pid == AllocatedId(pg)
           u == UpdatePage(pg, pid, ZeroPage)
<1>1. pid \in PageIds
  BY AllocatedIdType DEF Coherent
<1>2. WritesBack(pg, u, h) /\ u.disk[pid] = pg.disk[pid] /\ u \in PagerRecord
  BY <1>1, PageFacts, UpdatePageLemma, UpdatePageWritesBack DEF Coherent, WellFormed
<1>3. AllocPage(pg).disk = u.disk
  <2>1. \E hd : AllocPage(pg) = [u EXCEPT !.header = hd]
    BY <1>2 DEF AllocPage, PagerRecord
  <2> QED BY <2>1, <1>2 DEF PagerRecord
<1> QED BY <1>2, <1>3 DEF WritesBack

LEMMA PushFreePageWritesBack ==
  ASSUME NEW pg, NEW E, NEW h \in [PageIds -> Nat], Coherent(pg, E, h), EditsHeld(E, h),
         NEW p \in PageIds, CanGet(pg, p)
  PROVE  WritesBack(pg, PushFreePage(pg, p), h)
<1> DEFINE page == FreePage(pg.header.free_page_head)
           u == UpdatePage(pg, p, page)
<1>1. page \in Page
  BY PageFacts DEF Coherent, WellFormed, PagerRecord, Header
<1>2. WritesBack(pg, u, h) /\ u \in PagerRecord
  BY <1>1, UpdatePageLemma, UpdatePageWritesBack DEF Coherent, WellFormed
<1>3. PushFreePage(pg, p).disk = u.disk
  <2>1. \E hd : PushFreePage(pg, p) = [u EXCEPT !.header = hd]
    BY <1>2 DEF PushFreePage, PagerRecord
  <2> QED BY <2>1, <1>2 DEF PagerRecord
<1> QED BY <1>2, <1>3 DEF WritesBack
-----------------------------------------------------------------------------
(* The number of dirty frames *)

LEMMA DirtyFinite ==
  ASSUME NEW S \in SUBSET Frames
  PROVE  IsFiniteSet(S) /\ Cardinality(S) \in Nat
<1>1. IsFiniteSet(Frames)
  BY ConstantFacts, FS_Interval DEF Frames
<1> QED BY <1>1, FS_Subset, FS_CardinalityType

BelowMark(pg) == Cardinality(Dirty(pg)) < HighWatermark

LEMMA BelowMarkShrinks ==
  ASSUME NEW pg, NEW pg2, BelowMark(pg), Dirty(pg2) \subseteq Dirty(pg)
  PROVE  BelowMark(pg2)
<1>1. Dirty(pg) \in SUBSET Frames /\ Dirty(pg2) \in SUBSET Frames
  BY DEF Dirty
<1>2. Cardinality(Dirty(pg2)) <= Cardinality(Dirty(pg))
  BY <1>1, DirtyFinite, FS_Subset
<1> QED BY <1>1, <1>2, DirtyFinite, CacheAssumption DEF BelowMark

(* Writing frames back cleans exactly those frames. *)
LEMMA WriteFramesDirty ==
  ASSUME NEW pg, WellFormed(pg), NEW W \in SUBSET Dirty(pg)
  PROVE  Dirty(WriteFrames(pg, W)) = Dirty(pg) \ W
<1> DEFINE pg2 == WriteFrames(pg, W)
<1>1. \A i \in Frames : /\ pg2.frames[i].is_valid = pg.frames[i].is_valid
                        /\ i \notin W => pg2.frames[i].is_dirty = pg.frames[i].is_dirty
                        /\ i \in W => ~pg2.frames[i].is_dirty
  BY WriteFramesLemma
<1> HIDE DEF pg2
<1>2. Dirty(pg2) = Dirty(pg) \ W
  BY <1>1 DEF Dirty
<1> QED BY <1>2 DEF pg2

(* pager_get_page makes no frame dirty. *)
LEMMA GetPageDirty ==
  ASSUME NEW pg, NEW E, NEW h \in [PageIds -> Nat], Coherent(pg, E, h),
         NEW p \in PageIds, CanGet(pg, p)
  PROVE  Dirty(GetPage(pg, p)) \subseteq Dirty(pg)
<1>0. WellFormed(pg) /\ pg \in PagerRecord
  BY DEF Coherent, WellFormed
<1>1. CASE Cached(pg, p)
  <2>1. FrameOf(pg, p) \in Frames /\ Holds(pg.frames[FrameOf(pg, p)], p)
    BY <1>1, FrameOfCached
  <2> QED BY <1>1, <2>1, HitLemma DEF GetPage
<1>2. CASE ~Cached(pg, p)
  <2> DEFINE i == CHOOSE j \in Victims(pg) : TRUE
             W == {i} \cap Dirty(pg)
             ev == EvictFrame(pg, i)
             t == Touched(ev.frames, i)
             fr == [t EXCEPT ![i] = LoadedFrame(p, ev.disk[p])]
  <2>1. i \in Victims(pg)
    BY <1>2 DEF CanGet
  <2>2. GetPage(pg, p) = [ev EXCEPT !.frames = fr]
    BY <1>2 DEF GetPage, Load
  <2> HIDE DEF i
  <2>3. i \in Frames
    BY <2>1, VictimsAreEvictable
  <2>4. ev \in PagerRecord /\ Dirty(ev) \subseteq Dirty(pg)
    <3>1. ev = WriteFrames(pg, W) /\ W \in SUBSET Dirty(pg)
      BY DEF EvictFrame
    <3> QED BY <3>1, <1>0, WriteFramesDirty, WriteFramesLemma DEF WellFormed
  <2> HIDE DEF ev
  <2>5. /\ t \in [Frames -> Frame]
        /\ \A j \in Frames : /\ t[j].is_valid = ev.frames[j].is_valid
                             /\ t[j].is_dirty = ev.frames[j].is_dirty
    BY <2>3, <2>4, TouchedFrames DEF PagerRecord
  <2> HIDE DEF t
  <2>6. \A j \in Frames : fr[j].is_valid /\ fr[j].is_dirty
                            => ev.frames[j].is_valid /\ ev.frames[j].is_dirty
    BY <2>3, <2>5 DEF LoadedFrame
  <2> HIDE DEF fr
  <2>7. GetPage(pg, p).frames = fr
    BY <2>2, <2>4 DEF PagerRecord
  <2>8. Dirty(GetPage(pg, p)) \subseteq Dirty(ev)
    BY <2>6, <2>7 DEF Dirty
  <2> QED BY <2>4, <2>8
<1> QED BY <1>1, <1>2

(* An unpinned dirty frame with the smallest tick is always among the      *)
(* frames a flush of at least one frame writes.                            *)
LEMMA OldestIsWritten ==
  ASSUME NEW pg \in PagerRecord, FlushCandidates(pg) # {}, NEW n \in Nat, n > 0
  PROVE  OldestDirty(pg, n) # {}
<1> DEFINE C == FlushCandidates(pg)
           ticks == {pg.frames[i].used_tick : i \in C}
<1>1. C \subseteq Frames
  BY DEF FlushCandidates, Dirty
<1>2. ticks \in SUBSET Nat /\ ticks # {}
  BY <1>1 DEF PagerRecord, Frame
<1>3. PICK m \in ticks : \A k \in ticks : m <= k
  <2> HIDE DEF ticks
  <2> QED BY <1>2, LeastElement
<1>4. PICK i \in C : pg.frames[i].used_tick = m
  BY <1>3
<1>5. {j \in C : pg.frames[j].used_tick < pg.frames[i].used_tick} = {}
  <2>1. \A j \in C : pg.frames[i].used_tick <= pg.frames[j].used_tick
    BY <1>3, <1>4
  <2>2. \A j \in C : pg.frames[j].used_tick \in Nat
    BY <1>1 DEF PagerRecord, Frame
  <2> HIDE DEF C
  <2> QED BY <2>1, <2>2
<1>6. i \in OldestDirty(pg, n)
  BY <1>4, <1>5, FS_EmptySet DEF OldestDirty
<1> QED BY <1>6

(* More dirty frames than pinned pages: one of them is unpinned. *)
LEMMA CandidateExists ==
  ASSUME NEW pg, NEW E, NEW h \in [PageIds -> Nat], Coherent(pg, E, h),
         Cardinality({q \in PageIds : h[q] > 0}) < Cardinality(Dirty(pg))
  PROVE  FlushCandidates(pg) # {}
<1> DEFINE H == {q \in PageIds : h[q] > 0}
           f == [i \in Dirty(pg) |-> pg.frames[i].page_id]
<1>1. pg \in PagerRecord /\ WellFormed(pg) /\ Dirty(pg) \in SUBSET Frames
  BY DEF Coherent, WellFormed, Dirty
<1>2. SUFFICES ASSUME \A i \in Dirty(pg) : pg.frames[i].pin_count # 0
               PROVE  FALSE
  BY DEF FlushCandidates
<1>3. \A i \in Dirty(pg) : f[i] \in H
  BY <1>1, <1>2 DEF WellFormed, Coherent, PinnedAs, Dirty
<1>4. f \in [Dirty(pg) -> H]
  BY <1>3
<1>5. IsFiniteSet(H)
  <2>1. IsFiniteSet(PageIds)
    BY ConstantFacts, FS_Interval DEF PageIds
  <2> QED BY <2>1, FS_Subset
<1>6. IsFiniteSet(Dirty(pg))
  BY <1>1, DirtyFinite
<1>7. Cardinality(H) < Cardinality(Dirty(pg))
  OBVIOUS
<1> HIDE DEF H, f
<1>8. \E i, j \in Dirty(pg) : i # j /\ f[i] = f[j]
  BY <1>4, <1>5, <1>6, <1>7, FS_PigeonHole
<1> QED BY <1>1, <1>8 DEF WellFormed, Dirty, f

(* pager_mark_dirty flushes below the high watermark, as long as fewer     *)
(* pages are pinned than the mark allows to be dirty.                      *)
LEMMA MarkDirtyBelowMark ==
  ASSUME NEW pg, NEW E, NEW h \in [PageIds -> Nat], Coherent(pg, E, h),
         NEW p \in PageIds, Cached(pg, p), BelowMark(pg),
         LowWatermark < HighWatermark,
         Cardinality({q \in PageIds : h[q] > 0}) \in Nat,
         Cardinality({q \in PageIds : h[q] > 0}) < HighWatermark
  PROVE  BelowMark(MarkDirty(pg, p))
<1> DEFINE marked == SetDirty(pg, p)
           d == Cardinality(Dirty(marked))
           W == OldestDirty(marked, d - LowWatermark)
<1>1. /\ Coherent(marked, E \ {p}, h) /\ Dirty(marked) = Dirty(pg) \cup {FrameOf(pg, p)}
      /\ WellFormed(marked) /\ marked \in PagerRecord
  BY SetDirtyLemma DEF Coherent, WellFormed
<1>2. HighWatermark \in Nat /\ LowWatermark \in Nat /\ HighWatermark > 0
  BY CacheAssumption
<1>3. /\ Dirty(pg) \in SUBSET Frames /\ Dirty(marked) \in SUBSET Frames
      /\ FrameOf(pg, p) \in Frames
  BY FrameOfCached DEF Dirty
<1>4. d \in Nat /\ d <= Cardinality(Dirty(pg)) + 1
  BY <1>1, <1>3, DirtyFinite, FS_AddElement
<1>5. d <= HighWatermark
  BY <1>2, <1>3, <1>4, DirtyFinite DEF BelowMark
<1>6. MarkDirty(pg, p) = IF d >= HighWatermark THEN WriteFrames(marked, W) ELSE marked
  BY <1>2 DEF MarkDirty, FlushDirty
<1> HIDE DEF marked
<1>7. CASE d < HighWatermark
  <2>1. MarkDirty(pg, p) = marked
    BY <1>2, <1>4, <1>6, <1>7
  <2> QED BY <2>1, <1>7 DEF BelowMark
<1>8. CASE d = HighWatermark
  <2>1. FlushCandidates(marked) # {}
    BY <1>1, <1>8, CandidateExists
  <2>2. d - LowWatermark \in Nat /\ d - LowWatermark > 0
    BY <1>2, <1>8
  <2>3. W # {} /\ W \in SUBSET Dirty(marked)
    BY <1>1, <2>1, <2>2, OldestIsWritten DEF OldestDirty, FlushCandidates
  <2>4. MarkDirty(pg, p) = WriteFrames(marked, W)
    BY <1>2, <1>6, <1>8
  <2> HIDE DEF W, d
  <2>5. Dirty(MarkDirty(pg, p)) = Dirty(marked) \ W
    BY <1>1, <2>3, <2>4, WriteFramesDirty
  <2>6. PICK i \in W : i \in Dirty(marked)
    BY <2>3
  <2>7. Cardinality(Dirty(marked) \ {i}) = d - 1 /\ IsFiniteSet(Dirty(marked) \ {i})
    BY <1>3, <2>6, DirtyFinite, FS_RemoveElement DEF d
  <2>8. Dirty(MarkDirty(pg, p)) \subseteq Dirty(marked) \ {i}
    BY <2>5, <2>6
  <2>9. Cardinality(Dirty(MarkDirty(pg, p))) <= d - 1
        /\ Cardinality(Dirty(MarkDirty(pg, p))) \in Nat
    BY <2>7, <2>8, <1>4, FS_Subset, FS_CardinalityType
  <2> QED BY <2>9, <1>2, <1>8, <1>4 DEF BelowMark
<1> QED BY <1>2, <1>4, <1>5, <1>7, <1>8

(* So does every short update, which pins one page more. *)
LEMMA UpdatePageBelowMark ==
  ASSUME NEW pg, NEW E, NEW h \in [PageIds -> Nat], Coherent(pg, E, h), EditsHeld(E, h),
         NEW p \in PageIds, CanGet(pg, p), NEW page \in Page, BelowMark(pg),
         LowWatermark < HighWatermark,
         Cardinality({q \in PageIds : h[q] > 0}) + 1 < HighWatermark
  PROVE  BelowMark(UpdatePage(pg, p, page))
<1> DEFINE g == GetPage(pg, p)
           s == SetData(g, p, page)
           m == MarkDirty(s, p)
           h2 == MorePins(h, p)
           H == {q \in PageIds : h[q] > 0}
           H2 == {q \in PageIds : h2[q] > 0}
<1>1. h2 \in [PageIds -> Nat] /\ H2 = H \cup {p}
  BY DEF MorePins
<1>2. Coherent(g, E, h2) /\ Cached(g, p) /\ BelowMark(g)
  BY GetPageLemma, GetPageDirty, BelowMarkShrinks
<1>3. UpdatePage(pg, p, page) = Unpin(m, p)
  BY DEF UpdatePage
<1> HIDE DEF g, h2
<1>4. Coherent(s, E \cup {p}, h2) /\ Cached(s, p) /\ BelowMark(s)
  BY <1>2, SetDataLemma, SetDataFrames DEF BelowMark
<1> HIDE DEF s
<1>5. Cardinality(H2) \in Nat /\ Cardinality(H2) < HighWatermark
  <2>1. IsFiniteSet(PageIds) /\ H \subseteq PageIds
    BY ConstantFacts, FS_Interval DEF PageIds
  <2>2. IsFiniteSet(H) /\ Cardinality(H) \in Nat
    BY <2>1, FS_Subset, FS_CardinalityType
  <2> HIDE DEF H, H2
  <2>3. Cardinality(H2) \in Nat /\ Cardinality(H2) <= Cardinality(H) + 1
    <3>1. CASE p \in H
      <4>1. H2 = H
        BY <3>1, <1>1
      <4> QED BY <4>1, <2>2
    <3>2. CASE p \notin H
      <4>1. Cardinality(H \cup {p}) = Cardinality(H) + 1
        BY <2>2, <3>2, FS_AddElement
      <4> QED BY <4>1, <1>1, <2>2
    <3> QED BY <3>1, <3>2
  <2>4. Cardinality(H) + 1 < HighWatermark
    BY DEF H
  <2> QED BY <2>2, <2>3, <2>4, CacheAssumption
<1>6. BelowMark(m) /\ Coherent(m, (E \cup {p}) \ {p}, h2)
  BY <1>1, <1>4, <1>5, MarkDirtyLemma, MarkDirtyBelowMark
<1> HIDE DEF m
<1> QED BY <1>3, <1>6, UnpinFrames DEF BelowMark

-----------------------------------------------------------------------------
(* The specification *)

(* The inductive invariant.  PinnedAs (inside Coherent) and EditsHeld are  *)
(* what eviction needs: a page that is being edited is pinned, so the      *)
(* victim always equals the file or is dirty.                              *)
IInv ==
  /\ phase \in {"open", "opening", "down"} /\ walk \in Links
  /\ held \in [PageIds -> Nat] /\ owned \in SUBSET PageIds
  /\ Coherent(pager, edited, held)
  /\ EditsHeld(edited, held)
  /\ Cardinality(HeldPages) <= MaxPins
  /\ phase = "opening" => walk # NULL
  /\ phase # "open" => HeldPages = {} /\ pager.header = pager.disk_header

(* One step of PageStore under the refinement, or none. *)
StoreStep == Store!StoreNext \/ UNCHANGED <<Contents, pager.header>>

(* The pages, the header and the cached tail stay as they are. *)
Undisturbed ==
  /\ Contents' = Contents /\ pager'.header = pager.header
  /\ pager'.last_heap_page_id = pager.last_heap_page_id

(* The page formats of the two specifications are the same. *)
LEMMA StoreFormats ==
  /\ Store!NULL = NULL /\ Store!PageIds = PageIds
  /\ Store!ZeroPage = ZeroPage /\ Store!EmptyHeapPage = EmptyHeapPage
  /\ Store!NewFile = NewFile /\ Store!NewHeader = NewHeader
  /\ \A n : Store!FreePage(n) = FreePage(n)
  /\ \A page, v : Store!WithBody(page, v) = WithBody(page, v)
  /\ \A hd : Store!MayGrow(hd) <=> MayGrow(hd)
<1>1. Store!NULL = NULL /\ Store!ZeroPage = ZeroPage /\ Store!EmptyHeapPage = EmptyHeapPage
      /\ Store!EmptyLeafPage = EmptyLeafPage /\ Store!PageIds = PageIds
      /\ Store!FirstHeapPage = FirstHeapPage /\ Store!FirstRootPage = FirstRootPage
  BY DEF Store!NULL, NULL, Store!ZeroPage, ZeroPage, Store!EmptyHeapPage, EmptyHeapPage,
         Store!EmptyLeafPage, EmptyLeafPage, Store!PageIds, PageIds,
         Store!FirstHeapPage, FirstHeapPage, Store!FirstRootPage, FirstRootPage
<1>2. Store!NewFile = NewFile
  BY <1>1 DEF Store!NewFile, NewFile
<1>3. Store!NewHeader = NewHeader
  BY <1>1 DEF Store!NewHeader, NewHeader
<1>4. \A n : Store!FreePage(n) = FreePage(n)
  BY <1>1 DEF Store!FreePage, FreePage
<1>5. \A page, v : Store!WithBody(page, v) = WithBody(page, v)
  BY DEF Store!WithBody, WithBody
<1>6. \A hd : Store!MayGrow(hd) <=> MayGrow(hd)
  BY <1>1 DEF Store!MayGrow, MayGrow
<1> QED BY <1>1, <1>2, <1>3, <1>4, <1>5, <1>6

LEMMA PinBound == MaxPins \in Nat /\ MaxPins <= NumFrames /\ NumFrames \in Nat /\ MaxPins > 0
BY ClientAssumption, CacheAssumption

LEMMA HeldPagesFinite ==
  ASSUME NEW S \in SUBSET PageIds
  PROVE  IsFiniteSet(S) /\ Cardinality(S) \in Nat
<1>1. IsFiniteSet(PageIds)
  BY ConstantFacts, FS_Interval DEF PageIds
<1> QED BY <1>1, FS_Subset, FS_CardinalityType

LEMMA NothingHeldNothingEdited ==
  ASSUME IInv, HeldPages = {}
  PROVE  edited = {}
BY DEF IInv, EditsHeld, HeldPages

(* Views as functions. *)
LEMMA SameContents ==
  ASSUME SameView(pager, pager')
  PROVE  Contents' = Contents
BY DEF SameView, Contents

LEMMA ChangedContents ==
  ASSUME NEW p \in PageIds, NEW page, ViewChanged(pager, pager', p, page)
  PROVE  Contents' = [Contents EXCEPT ![p] = page]
<1>1. \A q \in PageIds : View(pager', q) = IF q = p THEN page ELSE View(pager, q)
  BY DEF ViewChanged
<1>2. Contents' = [q \in PageIds |-> View(pager', q)]
  BY DEF Contents
<1> QED BY <1>1, <1>2 DEF Contents

LEMMA GetAlwaysSucceeds ==
  ASSUME IInv, Cardinality(HeldPages) < MaxPins, NEW p
  PROVE  CanGet(pager, p)
<1>1. Cardinality({q \in PageIds : held[q] > 0}) < NumFrames
  BY PinBound, HeldPagesFinite DEF HeldPages
<1> QED BY <1>1, FrameAvailable DEF IInv

-----------------------------------------------------------------------------
(* Init *)

LEMMA InitIInv == Init => IInv /\ Contents = NewFile
<1> SUFFICES ASSUME Init PROVE IInv /\ Contents = NewFile
  OBVIOUS
<1>1. NewFile \in [PageIds -> Page]
  BY PageFacts DEF NewFile
<1>2. NewHeader \in Header
  BY ConstantFacts DEF NewHeader, Header
<1>3. EmptyFrame \in Frame
  BY ConstantFacts, PageFacts DEF EmptyFrame, Frame
<1>4. \A i \in Frames : ~pager.frames[i].is_valid
  BY DEF Init, NoFrames, EmptyFrame
<1>5. WellFormed(pager)
  <2>1. pager \in PagerRecord
    BY <1>1, <1>2, <1>3, ConstantFacts DEF Init, NoFrames, PagerRecord, FirstHeapPage
  <2> QED BY <2>1, <1>4 DEF WellFormed
<1>6. Coherent(pager, edited, held)
  BY <1>4, <1>5 DEF Init, Coherent, CleanExcept, PinnedAs
<1>7. \A p \in PageIds : View(pager, p) = NewFile[p]
  BY <1>4 DEF Init, View, Cached, Holds
<1>8. Contents = NewFile
  BY <1>7 DEF Contents, NewFile
<1>9. HeldPages = {} /\ Cardinality(HeldPages) <= MaxPins
  <2>1. HeldPages = {}
    BY DEF Init, HeldPages
  <2> QED BY <2>1, FS_EmptySet, PinBound
<1> QED BY <1>6, <1>8, <1>9, ConstantFacts
        DEF Init, IInv, EditsHeld, FirstHeapPage, FirstRootPage

-----------------------------------------------------------------------------
(* One lemma per action: it keeps the invariant and is a step of the store *)

LEMMA GetFindsFrame ==
  ASSUME IInv, NEW p \in PageIds, Get(p)
  PROVE  CanGet(pager, p)
<1>1. CASE p \in HeldPages
  <2>1. Cached(pager, p)
    BY <1>1 DEF IInv, Coherent, PinnedAs, HeldPages
  <2> QED BY <2>1 DEF CanGet
<1>2. CASE p \notin HeldPages
  <2>1. HeldPages \in SUBSET PageIds
    BY DEF HeldPages
  <2>2. Cardinality(HeldPages \cup {p}) = Cardinality(HeldPages) + 1
    BY <1>2, <2>1, HeldPagesFinite, FS_AddElement
  <2>3. Cardinality(HeldPages) < MaxPins
    BY <2>1, <2>2, HeldPagesFinite, PinBound DEF Get
  <2> QED BY <2>3, GetAlwaysSucceeds
<1> QED BY <1>1, <1>2

LEMMA GetStep ==
  ASSUME IInv, NEW p \in PageIds, Get(p)
  PROVE  IInv' /\ StoreStep
         /\ Undisturbed
<1>1. CanGet(pager, p)
  BY GetFindsFrame
<1>2. /\ Coherent(pager', edited, held') /\ SameView(pager, pager')
      /\ SameHeaders(pager, pager')
  BY <1>1, GetPageLemma DEF Get, IInv, MorePins
<1>3. held' \in [PageIds -> Nat] /\ HeldPages' = HeldPages \cup {p}
  BY DEF Get, IInv, HeldPages
<1>4. EditsHeld(edited', held')
  BY DEF Get, IInv, EditsHeld
<1>5. IInv'
  BY <1>2, <1>3, <1>4 DEF Get, IInv
<1>6. Contents' = Contents /\ pager'.header = pager.header
  BY <1>2, SameContents DEF SameHeaders
<1> QED BY <1>2, <1>5, <1>6 DEF StoreStep, Undisturbed, SameHeaders

LEMMA EditStep ==
  ASSUME IInv, NEW p \in PageIds, NEW v \in Vals, Edit(p, v)
  PROVE  IInv' /\ StoreStep
         /\ Contents' = [Contents EXCEPT ![p] = WithBody(Contents[p], v)]
         /\ SameHeaders(pager, pager')
<1> DEFINE page == WithBody(View(pager, p), v)
<1>1. Cached(pager, p)
  BY DEF Edit, IInv, Coherent, PinnedAs
<1>2. page \in Page
  BY PageFacts, ViewType DEF IInv, Coherent
<1> HIDE DEF page
<1>3. /\ Coherent(pager', edited', held) /\ ViewChanged(pager, pager', p, page)
      /\ SameHeaders(pager, pager')
  BY <1>1, <1>2, SetDataLemma DEF Edit, IInv, page
<1>4. EditsHeld(edited', held') /\ HeldPages' = HeldPages
  BY DEF Edit, IInv, EditsHeld, HeldPages
<1>5. IInv'
  BY <1>3, <1>4 DEF Edit, IInv
<1>6. Contents' = [Contents EXCEPT ![p] = page] /\ page = WithBody(Contents[p], v)
  BY <1>3, ChangedContents DEF page, Contents
<1>7. Store!StoreWrite
  BY <1>3, <1>6, StoreFormats DEF Store!StoreWrite, SameHeaders
<1> QED BY <1>3, <1>5, <1>6, <1>7 DEF StoreStep, Store!StoreNext

LEMMA MarkStep ==
  ASSUME IInv, NEW p \in PageIds, Mark(p)
  PROVE  IInv' /\ StoreStep
         /\ Undisturbed
<1>1. Cached(pager, p)
  BY DEF Mark, IInv, EditsHeld, Coherent, PinnedAs
<1>2. /\ Coherent(pager', edited', held) /\ SameView(pager, pager')
      /\ SameHeaders(pager, pager')
  BY <1>1, MarkDirtyLemma DEF Mark, IInv
<1>3. EditsHeld(edited', held') /\ HeldPages' = HeldPages
  BY DEF Mark, IInv, EditsHeld, HeldPages
<1>4. IInv'
  BY <1>2, <1>3 DEF Mark, IInv
<1>5. Contents' = Contents /\ pager'.header = pager.header
  BY <1>2, SameContents DEF SameHeaders
<1> QED BY <1>2, <1>4, <1>5 DEF StoreStep, Undisturbed, SameHeaders

LEMMA ReleaseStep ==
  ASSUME IInv, NEW p \in PageIds, Release(p)
  PROVE  IInv' /\ StoreStep
         /\ Undisturbed
<1>1. Cached(pager, p)
  BY DEF Release, IInv, Coherent, PinnedAs
<1>2. /\ Coherent(pager', edited, held') /\ SameView(pager, pager')
      /\ SameHeaders(pager, pager')
  BY <1>1, UnpinLemma DEF Release, IInv, FewerPins
<1>3. held' \in [PageIds -> Nat] /\ HeldPages' \in SUBSET HeldPages
  BY DEF Release, IInv, HeldPages
<1>4. Cardinality(HeldPages') <= MaxPins
  <2>1. HeldPages \in SUBSET PageIds
    BY DEF HeldPages
  <2>2. Cardinality(HeldPages') <= Cardinality(HeldPages)
        /\ Cardinality(HeldPages') \in Nat
    BY <1>3, <2>1, HeldPagesFinite, FS_Subset
  <2> QED BY <2>1, <2>2, HeldPagesFinite, PinBound DEF IInv
<1>5. EditsHeld(edited', held')
  BY DEF Release, IInv, EditsHeld
<1>6. IInv'
  BY <1>2, <1>3, <1>4, <1>5 DEF Release, IInv
<1>7. Contents' = Contents /\ pager'.header = pager.header
  BY <1>2, SameContents DEF SameHeaders
<1> QED BY <1>2, <1>6, <1>7 DEF StoreStep, Undisturbed, SameHeaders

(* The allocator's view of the store. *)
LEMMA StoreAllocation ==
  ASSUME IInv, MayGrow(pager.header)
  PROVE  /\ AllocatedId(pager) \in PageIds
         /\ Store!NextPage = AllocatedId(pager)
         /\ HeaderAfterAlloc(pager) =
              IF pager.header.free_page_head # NULL
              THEN [pager.header EXCEPT
                      !.free_page_head = Contents[pager.header.free_page_head].link]
              ELSE [pager.header EXCEPT !.next_page_id = @ + 1]
<1>1. AllocatedId(pager) \in PageIds
  BY AllocatedIdType DEF IInv, Coherent
<1>2. Store!NextPage = AllocatedId(pager)
  BY StoreFormats DEF Store!NextPage, AllocatedId
<1>3. \A q \in PageIds : Contents[q] = View(pager, q)
  BY DEF Contents
<1> QED BY <1>1, <1>2, <1>3 DEF HeaderAfterAlloc, AllocatedId

LEMMA AllocStep ==
  ASSUME IInv, Alloc
  PROVE  IInv' /\ StoreStep
         /\ Contents' = [Contents EXCEPT ![AllocatedId(pager)] = ZeroPage]
         /\ pager'.header = HeaderAfterAlloc(pager)
         /\ pager'.last_heap_page_id = pager.last_heap_page_id
<1> DEFINE pid == AllocatedId(pager)
<1>1. MayGrow(pager.header) /\ CanGet(pager, pid)
  BY GetAlwaysSucceeds DEF Alloc
<1>2. pid \in PageIds
  BY <1>1, StoreAllocation
<1>3. /\ Coherent(pager', edited, held)
      /\ ViewChanged(pager, pager', pid, ZeroPage)
      /\ pager'.header = HeaderAfterAlloc(pager)
      /\ pager'.last_heap_page_id = pager.last_heap_page_id
  BY <1>1, AllocPageLemma DEF Alloc, IInv
<1>4. IInv'
  BY <1>2, <1>3 DEF Alloc, IInv, HeldPages
<1>5. Contents' = [Contents EXCEPT ![pid] = ZeroPage]
  BY <1>2, <1>3, ChangedContents
<1>6. Store!StoreAlloc
  BY <1>1, <1>3, <1>5, StoreAllocation, StoreFormats DEF Store!StoreAlloc, Store!TakePage
<1> QED BY <1>3, <1>4, <1>5, <1>6 DEF StoreStep, Store!StoreNext

LEMMA FreeStep ==
  ASSUME IInv, NEW p \in PageIds, Free(p)
  PROVE  IInv' /\ StoreStep
         /\ Contents' = [Contents EXCEPT ![p] = FreePage(pager.header.free_page_head)]
         /\ pager'.header = [pager.header EXCEPT !.free_page_head = p]
         /\ pager'.last_heap_page_id = pager.last_heap_page_id
<1>1. CanGet(pager, p)
  BY GetAlwaysSucceeds DEF Free
<1>2. /\ Coherent(pager', edited, held)
      /\ ViewChanged(pager, pager', p, FreePage(pager.header.free_page_head))
      /\ pager'.header = [pager.header EXCEPT !.free_page_head = p]
      /\ pager'.last_heap_page_id = pager.last_heap_page_id
  BY <1>1, PushFreePageLemma DEF Free, IInv
<1>3. IInv'
  BY <1>2 DEF Free, IInv, HeldPages
<1>4. Contents' = [Contents EXCEPT ![p] = FreePage(pager.header.free_page_head)]
  BY <1>2, ChangedContents
<1>5. Store!StoreFree
  BY <1>2, <1>4, StoreFormats DEF Store!StoreFree
<1> QED BY <1>2, <1>3, <1>4, <1>5 DEF StoreStep, Store!StoreNext

LEMMA FlushStep ==
  ASSUME IInv, Flush
  PROVE  IInv' /\ StoreStep
         /\ Undisturbed
<1>1. edited = {}
  BY NothingHeldNothingEdited DEF Flush
<1>2. /\ Coherent(pager', {}, held) /\ SameView(pager, pager')
      /\ pager'.header = pager.header
      /\ pager'.last_heap_page_id = pager.last_heap_page_id
  BY <1>1, FlushAllLemma DEF Flush, IInv
<1>3. IInv'
  BY <1>1, <1>2 DEF Flush, IInv, HeldPages, client
<1> QED BY <1>2, <1>3, SameContents DEF StoreStep, Undisturbed

(* Whatever was in the frames, dropping them leaves a coherent cache of    *)
(* the file.                                                               *)
LEMMA DroppedFrames ==
  ASSUME NEW pg, WellFormed(pg), NEW h, \A p \in PageIds : h[p] = 0
  PROVE  /\ Coherent(Forget(pg), {}, h)
         /\ Forget(pg).disk = pg.disk
         /\ Forget(pg).header = pg.disk_header /\ Forget(pg).disk_header = pg.disk_header
         /\ \A p \in PageIds : View(Forget(pg), p) = pg.disk[p]
<1> DEFINE pg2 == Forget(pg)
<1>1. pg \in PagerRecord
  BY DEF WellFormed
<1>2. NoFrames \in [Frames -> Frame] /\ \A i \in Frames : ~NoFrames[i].is_valid
  <2>1. EmptyFrame \in Frame /\ ~EmptyFrame.is_valid
    BY ConstantFacts, PageFacts DEF EmptyFrame, Frame
  <2> QED BY <2>1 DEF NoFrames
<1>3. pg2 = [frames |-> NoFrames, header |-> pg.disk_header,
             last_heap_page_id |-> pg.last_heap_page_id,
             disk |-> pg.disk, disk_header |-> pg.disk_header]
  <2>1. pg2 = [pg EXCEPT !.frames = NoFrames, !.header = pg.disk_header]
    BY DEF Forget
  <2> HIDE DEF pg2
  <2> QED BY <1>1, <2>1 DEF PagerRecord
<1> HIDE DEF pg2
<1>4. WellFormed(pg2)
  BY <1>1, <1>2, <1>3 DEF WellFormed, PagerRecord
<1>5. \A p : ~Cached(pg2, p)
  BY <1>2, <1>3 DEF Cached, Holds
<1> QED BY <1>2, <1>3, <1>4, <1>5 DEF Coherent, CleanExcept, PinnedAs, View, pg2

LEMMA CloseStep ==
  ASSUME IInv, Close
  PROVE  IInv' /\ StoreStep
         /\ Contents' = Contents /\ pager'.header = pager.header
<1> DEFINE fl == FlushAll(pager)
<1>1. edited = {} /\ \A p \in PageIds : held[p] = 0
  BY NothingHeldNothingEdited DEF Close, HeldPages, IInv
<1>2. /\ Coherent(fl, {}, held) /\ fl.disk_header = pager.header
      /\ \A p \in PageIds : fl.disk[p] = View(pager, p)
  BY <1>1, FlushAllLemma DEF IInv
<1>3. pager' = Forget(fl) /\ held' = held /\ edited' = edited
  BY DEF Close, client
<1> HIDE DEF fl
<1>4. /\ Coherent(pager', {}, held)
      /\ \A p \in PageIds : View(pager', p) = View(pager, p)
      /\ pager'.header = pager.header /\ pager'.disk_header = pager.header
  <2>1. WellFormed(fl)
    BY <1>2 DEF Coherent
  <2> QED BY <2>1, <1>1, <1>2, <1>3, DroppedFrames
<1>5. IInv'
  BY <1>1, <1>3, <1>4 DEF Close, IInv, HeldPages, client
<1> QED BY <1>4, <1>5, SameContents DEF StoreStep, SameView

LEMMA OpenStep ==
  ASSUME IInv, Open
  PROVE  IInv' /\ StoreStep
         /\ Contents' = Contents /\ pager'.header = pager.header
<1>1. pager \in PagerRecord /\ WellFormed(pager) /\ pager.header = pager.disk_header
  BY DEF IInv, Coherent, WellFormed, Open
<1>2. pager' = [frames |-> pager.frames, header |-> pager.disk_header,
                last_heap_page_id |-> FirstHeapPage,
                disk |-> pager.disk, disk_header |-> pager.disk_header]
  BY <1>1 DEF Open, PagerRecord
<1>3. WellFormed(pager')
  BY <1>1, <1>2, ConstantFacts DEF WellFormed, PagerRecord, FirstHeapPage
<1>4. Coherent(pager', edited, held)
  BY <1>2, <1>3 DEF IInv, Coherent, CleanExcept, PinnedAs, Cached
<1>5. SameView(pager, pager')
  BY <1>1, <1>2, <1>3, ViewFromFrames
<1>6. walk' \in Links /\ walk' # NULL
  BY ConstantFacts DEF Open, FirstHeapPage, NULL
<1>7. IInv'
  BY <1>1, <1>2, <1>4, <1>6 DEF Open, IInv, HeldPages, client
<1> QED BY <1>1, <1>2, <1>5, <1>7, SameContents DEF StoreStep

(* One step of pager_open's walk reads a page: nothing is edited, so the   *)
(* cache may drop any frame it likes.                                      *)
LEMMA OpenWalkStep ==
  ASSUME IInv, OpenWalk
  PROVE  IInv' /\ StoreStep
         /\ Contents' = Contents /\ pager'.header = pager.header
         /\ pager'.last_heap_page_id = walk
<1> DEFINE g == GetPage(pager, walk)
           u == Unpin(g, walk)
           h2 == MorePins(held, walk)
<1>1. walk \in PageIds /\ HeldPages = {} /\ pager.header = pager.disk_header
  BY DEF OpenWalk, IInv, Links, PageIds, NULL
<1>2. CanGet(pager, walk)
  <2>1. Cardinality(HeldPages) < MaxPins
    BY <1>1, FS_EmptySet, PinBound
  <2> QED BY <2>1, GetAlwaysSucceeds
<1>3. h2 \in [PageIds -> Nat] /\ h2[walk] > 0 /\ FewerPins(h2, walk) = held
  BY <1>1, PinsBalance DEF IInv
<1>4. /\ Coherent(g, edited, h2) /\ SameView(pager, g)
      /\ SameHeaders(pager, g) /\ Cached(g, walk)
  BY <1>1, <1>2, GetPageLemma DEF IInv
<1> HIDE DEF g, h2
<1>5. Coherent(u, edited, held) /\ SameView(g, u) /\ SameHeaders(g, u)
  BY <1>1, <1>3, <1>4, UnpinLemma
<1>6. pager' = [u EXCEPT !.last_heap_page_id = walk] /\ client' = client
  BY DEF OpenWalk, g
<1> HIDE DEF u
<1>7. u \in PagerRecord /\ WellFormed(u)
  BY <1>5 DEF Coherent, WellFormed
<1>8. pager' = [frames |-> u.frames, header |-> u.header, last_heap_page_id |-> walk,
                disk |-> u.disk, disk_header |-> u.disk_header]
  BY <1>6, <1>7 DEF PagerRecord
<1>9. WellFormed(pager')
  BY <1>1, <1>7, <1>8 DEF WellFormed, PagerRecord
<1>10. Coherent(pager', edited, held)
  BY <1>5, <1>8, <1>9 DEF Coherent, CleanExcept, PinnedAs, Cached
<1>11. SameView(u, pager')
  BY <1>7, <1>8, <1>9, ViewFromFrames
<1>12. SameView(pager, pager') /\ pager'.header = pager.header
       /\ pager'.disk_header = pager.disk_header
  BY <1>4, <1>5, <1>8, <1>11 DEF SameView, SameHeaders
<1>13. walk' \in Links /\ (phase' = "opening" => walk' # NULL)
       /\ phase' \in {"open", "opening", "down"}
  <2>1. View(pager, walk).link \in Links
    BY <1>1, ViewType DEF IInv, Coherent, Page
  <2> QED BY <2>1 DEF OpenWalk
<1>14. IInv'
  BY <1>1, <1>6, <1>10, <1>12, <1>13 DEF IInv, HeldPages, client
<1> QED BY <1>8, <1>12, <1>14, SameContents DEF StoreStep

(* The caches between the three updates of heap_insert's last branch: the  *)
(* new page is zeroed, then formatted, then the old tail is linked to it.  *)
Zeroed == AllocPage(pager)
Formatted == UpdatePage(Zeroed, AllocatedId(pager), EmptyHeapPage)
LinkedTail == [View(Formatted, pager.last_heap_page_id) EXCEPT !.link = AllocatedId(pager)]
Linked == UpdatePage(Formatted, pager.last_heap_page_id, LinkedTail)

LEMMA AppendUpdates ==
  ASSUME IInv, AppendHeapPage
  PROVE  LET pid == AllocatedId(pager)
             tail == pager.last_heap_page_id
         IN  /\ MayGrow(pager.header) /\ HeldPages = {} /\ edited = {}
             /\ pid \in PageIds /\ tail \in PageIds
             /\ CanGet(pager, pid) /\ CanGet(Zeroed, pid) /\ CanGet(Formatted, tail)
             /\ LinkedTail \in Page
             /\ Coherent(Zeroed, edited, held) /\ ViewChanged(pager, Zeroed, pid, ZeroPage)
             /\ Zeroed.header = HeaderAfterAlloc(pager)
             /\ Zeroed.disk_header = pager.disk_header
             /\ Cached(Zeroed, pid)
             /\ Coherent(Formatted, edited, held)
             /\ ViewChanged(Zeroed, Formatted, pid, EmptyHeapPage)
             /\ SameHeaders(Zeroed, Formatted)
             /\ Coherent(Linked, edited, held)
             /\ ViewChanged(Formatted, Linked, tail, LinkedTail)
             /\ SameHeaders(Formatted, Linked)
             /\ pager' = [frames |-> Linked.frames, header |-> Linked.header,
                          last_heap_page_id |-> pid,
                          disk |-> Linked.disk, disk_header |-> Linked.disk_header]
             /\ UNCHANGED <<phase, walk, held, edited>> /\ owned' = owned \cup {pid}
<1> DEFINE pid == AllocatedId(pager)
           tail == pager.last_heap_page_id
<1>1. /\ MayGrow(pager.header) /\ HeldPages = {} /\ edited = {}
      /\ pager' = [Linked EXCEPT !.last_heap_page_id = pid]
      /\ UNCHANGED <<phase, walk, held, edited>> /\ owned' = owned \cup {pid}
  BY NothingHeldNothingEdited
  DEF AppendHeapPage, Linked, LinkedTail, Formatted, Zeroed
<1>2. Cardinality({q \in PageIds : held[q] > 0}) < NumFrames
  BY <1>1, FS_EmptySet, PinBound DEF HeldPages
<1>3. pid \in PageIds /\ tail \in PageIds /\ CanGet(pager, pid)
  BY <1>1, <1>2, StoreAllocation, FrameAvailable DEF IInv, Coherent, WellFormed, PagerRecord
<1>4. /\ Coherent(Zeroed, edited, held) /\ ViewChanged(pager, Zeroed, pid, ZeroPage)
      /\ Cached(Zeroed, pid) /\ Zeroed.header = HeaderAfterAlloc(pager)
      /\ Zeroed.disk_header = pager.disk_header
  BY <1>1, <1>3, AllocPageLemma DEF IInv, Zeroed
<1>5. CanGet(Zeroed, pid)
  BY <1>4 DEF CanGet
<1> HIDE DEF pid, tail
<1>6. /\ Coherent(Formatted, edited \ {pid}, held)
      /\ ViewChanged(Zeroed, Formatted, pid, EmptyHeapPage)
      /\ SameHeaders(Zeroed, Formatted)
  BY <1>3, <1>4, <1>5, PageFacts, UpdatePageLemma DEF IInv, Formatted, pid
<1>7. Coherent(Formatted, edited, held)
  BY <1>6, CoherentWeaken
<1>8. LinkedTail \in Page
  BY <1>3, <1>7, ViewType, ConstantFacts DEF Page, Coherent, LinkedTail, pid, tail
<1>9. CanGet(Formatted, tail)
  BY <1>2, <1>7, FrameAvailable DEF IInv
<1>10. /\ Coherent(Linked, edited \ {tail}, held)
       /\ ViewChanged(Formatted, Linked, tail, LinkedTail)
       /\ SameHeaders(Formatted, Linked)
  BY <1>3, <1>7, <1>8, <1>9, UpdatePageLemma DEF IInv, Linked, tail
<1>11. Coherent(Linked, edited, held)
  BY <1>10, CoherentWeaken
<1>12. pager' = [frames |-> Linked.frames, header |-> Linked.header,
                 last_heap_page_id |-> pid,
                 disk |-> Linked.disk, disk_header |-> Linked.disk_header]
  BY <1>1, <1>11 DEF Coherent, WellFormed, PagerRecord
<1> QED BY <1>1, <1>3, <1>4, <1>5, <1>6, <1>7, <1>8, <1>9, <1>10, <1>11, <1>12 DEF pid, tail

LEMMA AppendStep ==
  ASSUME IInv, AppendHeapPage
  PROVE  IInv' /\ StoreStep
         /\ LET pid == AllocatedId(pager)
                tail == pager.last_heap_page_id
            IN  /\ pid \in PageIds /\ tail \in PageIds
                /\ Contents' = [Contents EXCEPT ![pid] = EmptyHeapPage, ![tail].link = pid]
                /\ pager'.header = HeaderAfterAlloc(pager)
                /\ pager'.last_heap_page_id = pid
<1> DEFINE pid == AllocatedId(pager)
           tail == pager.last_heap_page_id
           page == LinkedTail
           f == Formatted
           l == Linked
<1>1. /\ MayGrow(pager.header) /\ HeldPages = {}
      /\ pid \in PageIds /\ tail \in PageIds
      /\ ViewChanged(pager, Zeroed, pid, ZeroPage)
      /\ Zeroed.header = HeaderAfterAlloc(pager) /\ Zeroed.disk_header = pager.disk_header
      /\ Coherent(f, edited, held) /\ ViewChanged(Zeroed, f, pid, EmptyHeapPage)
      /\ SameHeaders(Zeroed, f)
      /\ Coherent(l, edited, held) /\ ViewChanged(f, l, tail, page)
      /\ SameHeaders(f, l)
      /\ pager' = [frames |-> l.frames, header |-> l.header, last_heap_page_id |-> pid,
                   disk |-> l.disk, disk_header |-> l.disk_header]
      /\ UNCHANGED <<phase, walk, held, edited>> /\ owned' = owned \cup {pid}
  BY AppendUpdates
<1>2. page = [View(f, tail) EXCEPT !.link = pid]
  BY DEF LinkedTail
<1> HIDE DEF pid, tail, page, f, l
<1>3. l \in PagerRecord /\ WellFormed(l)
  BY <1>1 DEF Coherent, WellFormed
<1>4. WellFormed(pager')
  BY <1>1, <1>3 DEF WellFormed, PagerRecord
<1>5. Coherent(pager', edited, held)
  BY <1>1, <1>4 DEF Coherent, CleanExcept, PinnedAs, Cached
<1>6. SameView(l, pager')
  BY <1>1, <1>3, <1>4, ViewFromFrames
<1>7. IInv'
  BY <1>1, <1>5 DEF IInv, HeldPages, SameHeaders, AppendHeapPage
<1>8. Contents' = [Contents EXCEPT ![pid] = EmptyHeapPage, ![tail].link = pid]
  <2>1. \A q \in PageIds : View(f, q) = IF q = pid THEN EmptyHeapPage ELSE View(pager, q)
    BY <1>1 DEF ViewChanged
  <2>2. \A q \in PageIds : View(pager', q) = IF q = tail THEN page ELSE View(f, q)
    BY <1>1, <1>6 DEF ViewChanged, SameView
  <2> DEFINE c == [Contents EXCEPT ![pid] = EmptyHeapPage]
  <2>3. \A q \in PageIds : c[q] = View(f, q)
    BY <2>1, <1>1 DEF Contents
  <2>4. c[tail] = View(f, tail)
    BY <2>3, <1>1
  <2>5. page = [c[tail] EXCEPT !.link = pid]
    BY <2>4, <1>2
  <2>6. DOMAIN c = PageIds /\ c = [q \in PageIds |-> c[q]]
    BY DEF Contents
  <2> HIDE DEF c
  <2>7. Contents' = [c EXCEPT ![tail] = page]
    <3>1. Contents' = [q \in PageIds |-> View(pager', q)]
      BY DEF Contents
    <3> QED BY <3>1, <2>2, <2>3, <2>6, <1>1
  <2>8. [c EXCEPT ![tail] = page] = [c EXCEPT ![tail].link = pid]
    BY <2>5
  <2> QED BY <2>7, <2>8 DEF c
<1>9. Store!StoreAppendHeap
  <2>1. Store!TakePage
    BY <1>1, StoreAllocation, StoreFormats
    DEF Store!TakePage, SameHeaders
  <2>2. Store!NextPage = pid
    BY <1>1, StoreAllocation DEF pid
  <2> QED BY <2>1, <2>2, <1>1, <1>8, StoreFormats DEF Store!StoreAppendHeap
<1>10. pager'.header = HeaderAfterAlloc(pager)
  BY <1>1 DEF SameHeaders
<1> QED BY <1>1, <1>7, <1>8, <1>9, <1>10 DEF StoreStep, Store!StoreNext, pid, tail

-----------------------------------------------------------------------------
(* The whole next-state relation *)

LEMMA NextStep ==
  ASSUME IInv, [Next]_vars
  PROVE  IInv' /\ StoreStep
<1>1. CASE \E p \in PageIds : Get(p) \/ Mark(p) \/ Release(p) \/ Free(p)
  BY <1>1, GetStep, MarkStep, ReleaseStep, FreeStep
<1>2. CASE \E p \in PageIds, v \in Vals : Edit(p, v)
  BY <1>2, EditStep
<1>3. CASE Alloc
  BY <1>3, AllocStep
<1>4. CASE AppendHeapPage
  BY <1>4, AppendStep
<1>5. CASE Flush
  BY <1>5, FlushStep
<1>6. CASE Close
  BY <1>6, CloseStep
<1>7. CASE Open
  BY <1>7, OpenStep
<1>8. CASE OpenWalk
  BY <1>8, OpenWalkStep
<1>9. CASE UNCHANGED vars
  <2>1. IInv'
    BY <1>9 DEF IInv, HeldPages, vars, client
  <2>2. SameView(pager, pager')
    BY <1>9 DEF SameView, vars
  <2> QED BY <1>9, <2>1, <2>2, SameContents DEF StoreStep, vars
<1> QED BY <1>1, <1>2, <1>3, <1>4, <1>5, <1>6, <1>7, <1>8, <1>9 DEF Next

LEMMA Invariance == Spec => []IInv
<1>1. Init => IInv
  BY InitIInv
<1>2. IInv /\ [Next]_vars => IInv'
  BY NextStep
<1> QED BY <1>1, <1>2, PTL DEF Spec

LEMMA PinsFromIInv == IInv => PinsAreTheClients
<1> SUFFICES ASSUME IInv, NEW p \in PageIds
             PROVE  IF Cached(pager, p)
                    THEN pager.frames[FrameOf(pager, p)].pin_count = held[p]
                    ELSE held[p] = 0
  BY DEF PinsAreTheClients
<1>1. CASE Cached(pager, p)
  <2>1. FrameOf(pager, p) \in Frames /\ Holds(pager.frames[FrameOf(pager, p)], p)
    BY <1>1, FrameOfCached
  <2> QED BY <1>1, <2>1 DEF IInv, Coherent, PinnedAs, Holds
<1>2. CASE ~Cached(pager, p)
  BY <1>2 DEF IInv, Coherent, PinnedAs
<1> QED BY <1>1, <1>2

(* Every variable of the pager keeps its type: in particular no pin count  *)
(* and no tick of a frame runs below zero, and no page id leaves the file. *)
THEOREM PagerTypes == Spec => []TypeOK
<1>1. IInv => TypeOK
  BY DEF IInv, Coherent, WellFormed, EditsHeld, TypeOK
<1> QED BY <1>1, Invariance, PTL

(* The cache is coherent: one frame per page, and a clean frame that no    *)
(* client is editing equals its page in the file.                          *)
THEOREM CacheCoherence == Spec => []Coherence
<1>1. IInv => Coherence
  BY DEF IInv, Coherent, WellFormed, CleanExcept, Coherence, OneFramePerPage,
         CleanFramesMatchFile, Holds
<1> QED BY <1>1, Invariance, PTL

(* Pins are exactly the clients': a held page is never evicted, and no     *)
(* call of the pager leaks or steals a pin.                                *)
THEOREM PinAccounting == Spec => []PinsAreTheClients
BY PinsFromIInv, Invariance, PTL

(* pager_get_page finds a frame as long as fewer than MaxPins pages are    *)
(* held.                                                                   *)
THEOREM FramesSuffice == Spec => []GetNeverFails
<1>1. IInv => GetNeverFails
  BY GetAlwaysSucceeds DEF GetNeverFails
<1> QED BY <1>1, Invariance, PTL

(* The pager implements PageStore: seen through its cache it is a plain    *)
(* array of pages with an allocator, whatever is evicted, written back,    *)
(* flushed, closed or opened.                                              *)
THEOREM PagerImplementsStore == Spec => ImplementsStore
<1>1. Init => Store!StoreInit
  BY InitIInv, StoreFormats DEF Init, Store!StoreInit
<1>2. IInv /\ [Next]_vars => [Store!StoreNext]_(Store!storeVars)
  BY NextStep DEF StoreStep, Store!storeVars
<1> QED BY <1>1, <1>2, Invariance, PTL DEF Spec, ImplementsStore, Store!StoreSpec
-----------------------------------------------------------------------------
(* The watermark *)

(* Every call leaves fewer dirty frames than the high watermark: where a   *)
(* page is marked, an unpinned dirty frame is there to be written.         *)
LEMMA BelowMarkStep ==
  ASSUME IInv, [Next]_vars, BelowMark(pager),
         HighWatermark > MaxPins, LowWatermark < HighWatermark
  PROVE  BelowMark(pager')
<1> DEFINE H == {q \in PageIds : held[q] > 0}
<1>0. /\ Coherent(pager, edited, held) /\ EditsHeld(edited, held)
      /\ held \in [PageIds -> Nat] /\ H = HeldPages
      /\ Cardinality(H) \in Nat /\ Cardinality(H) <= MaxPins
      /\ Cardinality(H) < HighWatermark
  <2>1. H \in SUBSET PageIds /\ H = HeldPages
    BY DEF HeldPages
  <2> QED BY <2>1, HeldPagesFinite, PinBound, CacheAssumption DEF IInv
<1>1. ASSUME NEW p \in PageIds, Get(p) PROVE BelowMark(pager')
  BY <1>0, <1>1, GetFindsFrame, GetPageDirty, BelowMarkShrinks DEF Get
<1>2. ASSUME NEW p \in PageIds, Mark(p) PROVE BelowMark(pager')
  <2>1. Cached(pager, p)
    BY <1>2 DEF Mark, IInv, EditsHeld, Coherent, PinnedAs
  <2> QED BY <1>0, <1>2, <2>1, MarkDirtyBelowMark DEF Mark
<1>3. ASSUME NEW p \in PageIds, Release(p) PROVE BelowMark(pager')
  BY <1>0, <1>3, UnpinFrames DEF Release, BelowMark
<1>4. ASSUME NEW p \in PageIds, NEW v \in Vals, Edit(p, v) PROVE BelowMark(pager')
  <2>1. Cached(pager, p)
    BY <1>4 DEF Edit, IInv, Coherent, PinnedAs
  <2> QED BY <1>0, <1>4, <2>1, SetDataFrames DEF Edit, BelowMark
<1>5. CASE Cardinality(HeldPages) < MaxPins /\ (Alloc \/ \E p \in PageIds : Free(p))
  <2>1. Cardinality(H) + 1 < HighWatermark
    BY <1>0, <1>5, PinBound, CacheAssumption
  <2> HIDE DEF H
  <2>2. CASE Alloc
    <3> DEFINE pid == AllocatedId(pager)
               u == UpdatePage(pager, pid, ZeroPage)
    <3>1. MayGrow(pager.header) /\ CanGet(pager, pid) /\ pid \in PageIds
      BY <2>2, <1>5, GetAlwaysSucceeds, StoreAllocation DEF Alloc
    <3>2. BelowMark(u) /\ Coherent(u, edited \ {pid}, held)
      BY <2>1, <3>1, <1>0, PageFacts, UpdatePageLemma, UpdatePageBelowMark DEF H
    <3>3. \E hd : pager' = [u EXCEPT !.header = hd]
      BY <2>2, <3>2 DEF Alloc, AllocPage, Coherent, WellFormed, PagerRecord
    <3> QED BY <3>2, <3>3 DEF BelowMark, Dirty, Coherent, WellFormed, PagerRecord
  <2>3. ASSUME NEW p \in PageIds, Free(p) PROVE BelowMark(pager')
    <3> DEFINE page == FreePage(pager.header.free_page_head)
               u == UpdatePage(pager, p, page)
    <3>1. CanGet(pager, p) /\ page \in Page
      BY <1>5, <1>0, GetAlwaysSucceeds, PageFacts DEF Coherent, WellFormed, PagerRecord, Header
    <3>2. BelowMark(u) /\ Coherent(u, edited \ {p}, held)
      BY <2>1, <3>1, <1>0, UpdatePageLemma, UpdatePageBelowMark DEF H
    <3>3. \E hd : pager' = [u EXCEPT !.header = hd]
      BY <2>3, <3>2 DEF Free, PushFreePage, Coherent, WellFormed, PagerRecord
    <3> QED BY <3>2, <3>3 DEF BelowMark, Dirty, Coherent, WellFormed, PagerRecord
  <2> QED BY <2>2, <2>3, <1>5
<1>6. CASE AppendHeapPage
  <2> DEFINE pid == AllocatedId(pager)
             u == UpdatePage(pager, pid, ZeroPage)
  <2>1. /\ HeldPages = {} /\ pid \in PageIds /\ pager.last_heap_page_id \in PageIds
        /\ CanGet(pager, pid) /\ CanGet(Zeroed, pid)
        /\ CanGet(Formatted, pager.last_heap_page_id) /\ LinkedTail \in Page
        /\ Coherent(Zeroed, edited, held) /\ Coherent(Formatted, edited, held)
        /\ Coherent(Linked, edited, held)
        /\ pager'.frames = Linked.frames
    BY <1>6, AppendUpdates
  <2>2. Cardinality(H) + 1 < HighWatermark
    BY <1>0, <2>1, FS_EmptySet, PinBound, CacheAssumption
  <2> HIDE DEF H
  <2>3. BelowMark(u) /\ Coherent(u, edited \ {pid}, held)
    BY <1>0, <2>1, <2>2, PageFacts, UpdatePageLemma, UpdatePageBelowMark DEF H
  <2>4. \E hd : Zeroed = [u EXCEPT !.header = hd]
    BY <2>3 DEF Zeroed, AllocPage, Coherent, WellFormed, PagerRecord
  <2>5. BelowMark(Zeroed)
    BY <2>3, <2>4 DEF BelowMark, Dirty, Coherent, WellFormed, PagerRecord
  <2>6. BelowMark(Formatted)
    BY <1>0, <2>1, <2>2, <2>5, PageFacts, UpdatePageBelowMark DEF H, Formatted
  <2>7. BelowMark(Linked)
    BY <1>0, <2>1, <2>2, <2>6, UpdatePageBelowMark DEF H, Linked
  <2> QED BY <2>1, <2>7 DEF BelowMark, Dirty
<1>7. CASE Flush \/ Close
  <2>1. Dirty(pager') = {}
    <3>1. pager \in PagerRecord /\ WellFormed(pager)
      BY <1>0 DEF Coherent, WellFormed
    <3>2. Dirty(WriteFrames(pager, Dirty(pager))) = {}
          /\ WriteFrames(pager, Dirty(pager)) \in PagerRecord
      BY <3>1, WriteFramesDirty, WriteFramesLemma DEF WellFormed
    <3>3. Dirty(FlushAll(pager)) = {} /\ FlushAll(pager) \in PagerRecord
      BY <3>1, <3>2 DEF FlushAll, Dirty, PagerRecord
    <3>4. Dirty(Forget(FlushAll(pager))) = {}
      BY <3>3 DEF Forget, Dirty, NoFrames, EmptyFrame, PagerRecord
    <3> QED BY <1>7, <3>3, <3>4 DEF Flush, Close
  <2> QED BY <2>1, BelowMarkShrinks
<1>8. CASE Open
  BY <1>8, <1>0 DEF Open, BelowMark, Dirty, Coherent, WellFormed, PagerRecord
<1>9. CASE OpenWalk
  <2> DEFINE g == GetPage(pager, walk)
             u == Unpin(g, walk)
  <2>1. walk \in PageIds /\ HeldPages = {}
    BY <1>9 DEF OpenWalk, IInv, Links, PageIds, NULL
  <2>2. CanGet(pager, walk)
    BY <2>1, FS_EmptySet, PinBound, GetAlwaysSucceeds
  <2>3. MorePins(held, walk) \in [PageIds -> Nat] /\ MorePins(held, walk)[walk] > 0
    BY <1>0, <2>1, PinsBalance
  <2>4. Coherent(g, edited, MorePins(held, walk)) /\ Cached(g, walk) /\ BelowMark(g)
    BY <1>0, <2>1, <2>2, GetPageLemma, GetPageDirty, BelowMarkShrinks
  <2>5. BelowMark(u)
    BY <2>1, <2>4, UnpinFrames DEF BelowMark
  <2>6. u \in PagerRecord
    BY <2>1, <2>3, <2>4, UnpinLemma DEF Coherent, WellFormed
  <2> QED BY <1>9, <2>5, <2>6 DEF OpenWalk, BelowMark, Dirty, PagerRecord
<1>10. CASE UNCHANGED vars
  BY <1>10 DEF vars
<1> HIDE DEF H
<1> QED BY <1>1, <1>2, <1>3, <1>4, <1>5, <1>6, <1>7, <1>8, <1>9, <1>10
        DEF Next, Alloc, Free

(* Where the high mark exceeds the pages a caller can hold, mark_dirty     *)
(* always finds a frame to write: the count of dirty frames stays below    *)
(* the mark, for every number of frames and every pair of watermarks.      *)
THEOREM WatermarkHolds == Spec => []DirtyBelowWatermark
<1> DEFINE Below == IInv /\ DirtyBelowWatermark
<1>1. Init => Below
  <2> SUFFICES ASSUME Init, HighWatermark > MaxPins PROVE BelowMark(pager)
    BY InitIInv DEF DirtyBelowWatermark, BelowMark
  <2>1. Dirty(pager) = {}
    BY DEF Init, NoFrames, EmptyFrame, Dirty
  <2> QED BY <2>1, FS_EmptySet, PinBound, CacheAssumption DEF BelowMark
<1>2. Below /\ [Next]_vars => Below'
  <2> SUFFICES ASSUME Below, [Next]_vars PROVE Below'
    OBVIOUS
  <2>1. IInv'
    BY NextStep
  <2>2. ASSUME HighWatermark > MaxPins, LowWatermark < HighWatermark
        PROVE  BelowMark(pager')
    BY <2>2, BelowMarkStep DEF DirtyBelowWatermark, BelowMark
  <2> QED BY <2>1, <2>2 DEF DirtyBelowWatermark, BelowMark
<1>3. Below => DirtyBelowWatermark
  OBVIOUS
<1> HIDE DEF Below
<1> QED BY <1>1, <1>2, <1>3, PTL DEF Spec

-----------------------------------------------------------------------------
(* What a crash does *)

(* The file a crash leaves is the one the process had written, down to the *)
(* write-back it was in.                                                   *)
CrashedFrom(pg) == WellFormed(pg) /\ CrashLeaving(pg)

LEMMA CrashKeepsIInv ==
  ASSUME IInv, NEW pg, CrashedFrom(pg)
  PROVE  IInv'
<1>1. /\ held' = [p \in PageIds |-> 0] /\ edited' = {} /\ walk' = NULL
      /\ phase' = "down" /\ owned' = owned /\ pager' = Forget(pg)
  BY DEF CrashedFrom, CrashLeaving
<1>2. /\ Coherent(pager', edited', held') /\ pager'.header = pager'.disk_header
  BY <1>1, DroppedFrames DEF CrashedFrom
<1>3. HeldPages' = {}
  BY <1>1 DEF HeldPages
<1> QED BY <1>1, <1>2, <1>3, FS_EmptySet, PinBound, ConstantFacts DEF IInv, EditsHeld

(* A crash is one of pager_t as it is, or of one with some dirty frames    *)
(* written back.                                                           *)
LEMMA CrashSources ==
  ASSUME IInv, Crash \/ CrashInFlush
  PROVE  \E W \in SUBSET Dirty(pager) :
           /\ CrashedFrom(WriteFrames(pager, W))
           /\ W = {} \/ edited = {}
<1>1. WellFormed(pager) /\ Coherent(pager, edited, held)
  BY DEF IInv, Coherent
<1>2. \A W \in SUBSET Dirty(pager) : WellFormed(WriteFrames(pager, W))
  BY <1>1, WriteFramesLemma
<1>3. CASE Crash
  <2>1. WriteFrames(pager, {}) = pager
    <3>1. Written(pager, {}) = pager.disk
      BY <1>1 DEF Written, WellFormed, PagerRecord
    <3>2. Cleaned(pager, {}) = pager.frames
      BY <1>1 DEF Cleaned, WellFormed, PagerRecord
    <3> QED BY <1>1, <3>1, <3>2 DEF WriteFrames, WellFormed, PagerRecord
  <2> QED BY <1>1, <1>3, <2>1 DEF Crash, CrashedFrom
<1>4. CASE CrashInFlush
  <2>1. PICK k \in Frames : CrashLeaving(WriteFrames(pager, {i \in Dirty(pager) : i <= k}))
    BY <1>4 DEF CrashInFlush
  <2>2. edited = {}
    BY <1>4, NothingHeldNothingEdited DEF CrashInFlush
  <2> QED BY <1>2, <2>1, <2>2 DEF CrashedFrom
<1> QED BY <1>3, <1>4

-----------------------------------------------------------------------------
(* The invariants of Pager survive crashes *)

LEMMA CrashStep ==
  ASSUME IInv, [CrashNext]_crashVars
  PROVE  IInv'
<1>1. CASE Run
  BY <1>1, NextStep DEF Run
<1>2. CASE OpenTorn
  BY <1>2, OpenStep, OpenWalkStep DEF OpenTorn
<1>3. CASE Crash \/ CrashInFlush
  BY <1>3, CrashSources, CrashKeepsIInv
<1>4. CASE UNCHANGED crashVars
  <2>1. UNCHANGED vars
    BY <1>4 DEF crashVars
  <2> QED BY <2>1, NextStep
<1> QED BY <1>1, <1>2, <1>3, <1>4 DEF CrashNext

LEMMA CrashInvariance == CrashSpec => []IInv
<1>1. CrashInit => IInv
  BY InitIInv DEF CrashInit
<1>2. IInv /\ [CrashNext]_crashVars => IInv'
  BY CrashStep
<1> QED BY <1>1, <1>2, PTL DEF CrashSpec

(* Crashes included, every variable of the pager keeps its type, also on a *)
(* torn file that is opened again.                                         *)
THEOREM CrashTypes == CrashSpec => []TypeOK
<1>1. IInv => TypeOK
  BY DEF IInv, Coherent, WellFormed, EditsHeld, TypeOK
<1> QED BY <1>1, CrashInvariance, PTL

(* Crashes included, no page sits in two frames and every clean frame      *)
(* equals the file.                                                        *)
THEOREM CrashCoherence == CrashSpec => []Coherence
<1>1. IInv => Coherence
  BY DEF IInv, Coherent, WellFormed, CleanExcept, Coherence, OneFramePerPage,
         CleanFramesMatchFile, Holds
<1> QED BY <1>1, CrashInvariance, PTL

(* Crashes included, the pins are the clients': none outlives the process. *)
THEOREM CrashPins == CrashSpec => []PinsAreTheClients
BY PinsFromIInv, CrashInvariance, PTL

(* Crashes included, pager_get_page finds a frame.                         *)
THEOREM CrashFrames == CrashSpec => []GetNeverFails
<1>1. IInv => GetNeverFails
  BY GetAlwaysSucceeds DEF GetNeverFails
<1> QED BY <1>1, CrashInvariance, PTL

-----------------------------------------------------------------------------
(* What reaches the file *)

(* The body of WritesWholePages. *)
WholePages ==
  \A p \in PageIds :
    pager'.disk[p] # pager.disk[p] =>
      /\ p \notin edited
      /\ \/ pager'.disk[p] = View(pager, p)
         \/ AppendHeapPage /\ p = AllocatedId(pager) /\ pager'.disk[p] = EmptyHeapPage

LEMMA WholeFromWritesBack ==
  ASSUME EditsHeld(edited, held), NEW pg, WritesBack(pager, pg, held), pager'.disk = pg.disk
  PROVE  WholePages
BY DEF WritesBack, WholePages, EditsHeld

LEMMA RunWritesWhole ==
  ASSUME IInv, [Next]_vars
  PROVE  WholePages
<1>0. /\ Coherent(pager, edited, held) /\ EditsHeld(edited, held)
      /\ held \in [PageIds -> Nat] /\ pager \in PagerRecord /\ WellFormed(pager)
  BY DEF IInv, Coherent, WellFormed
<1>1. ASSUME NEW p \in PageIds, Get(p) PROVE WholePages
  <2>1. WritesBack(pager, pager', held)
    BY <1>0, <1>1, GetFindsFrame, GetPageWritesBack DEF Get
  <2> QED BY <1>0, <2>1, WholeFromWritesBack
<1>2. ASSUME NEW p \in PageIds, Mark(p) PROVE WholePages
  <2>1. Cached(pager, p)
    BY <1>0, <1>2 DEF Mark, EditsHeld, Coherent, PinnedAs
  <2>2. WritesBack(pager, pager', held)
    BY <1>0, <1>2, <2>1, MarkDirtyWritesBack DEF Mark
  <2> QED BY <1>0, <2>2, WholeFromWritesBack
<1>3. ASSUME NEW p \in PageIds, Release(p) PROVE WholePages
  BY <1>0, <1>3, UnpinFrames DEF Release, WholePages
<1>4. ASSUME NEW p \in PageIds, NEW v \in Vals, Edit(p, v) PROVE WholePages
  <2>1. Cached(pager, p)
    BY <1>0, <1>4 DEF Edit, Coherent, PinnedAs
  <2> QED BY <1>0, <1>4, <2>1, SetDataFrames DEF Edit, WholePages
<1>5. CASE Alloc
  <2>1. MayGrow(pager.header) /\ CanGet(pager, AllocatedId(pager))
    BY <1>5, GetAlwaysSucceeds DEF Alloc
  <2>2. WritesBack(pager, pager', held)
    BY <1>0, <1>5, <2>1, AllocPageWritesBack DEF Alloc
  <2> QED BY <1>0, <2>2, WholeFromWritesBack
<1>6. ASSUME NEW p \in PageIds, Free(p) PROVE WholePages
  <2>1. CanGet(pager, p)
    BY <1>6, GetAlwaysSucceeds DEF Free
  <2>2. WritesBack(pager, pager', held)
    BY <1>0, <1>6, <2>1, PushFreePageWritesBack DEF Free
  <2> QED BY <1>0, <2>2, WholeFromWritesBack
<1>7. CASE AppendHeapPage
  (* The new page may be evicted, formatted, when the tail is fetched, or  *)
  (* written when the tail is marked.                                      *)
  <2> DEFINE pid == AllocatedId(pager)
             tail == pager.last_heap_page_id
  <2>1. /\ edited = {} /\ pid \in PageIds /\ tail \in PageIds
        /\ MayGrow(pager.header)
        /\ CanGet(pager, pid) /\ CanGet(Zeroed, pid) /\ CanGet(Formatted, tail)
        /\ LinkedTail \in Page
        /\ Coherent(Zeroed, edited, held) /\ Coherent(Formatted, edited, held)
        /\ Coherent(Linked, edited, held)
        /\ ViewChanged(pager, Zeroed, pid, ZeroPage)
        /\ ViewChanged(Zeroed, Formatted, pid, EmptyHeapPage)
        /\ ViewChanged(Formatted, Linked, tail, LinkedTail)
        /\ pager' = [frames |-> Linked.frames, header |-> Linked.header,
                     last_heap_page_id |-> pid,
                     disk |-> Linked.disk, disk_header |-> Linked.disk_header]
    BY <1>7, AppendUpdates
  <2> HIDE DEF pid, tail
  <2>2. WritesBack(pager, Zeroed, held) /\ Zeroed.disk[pid] = pager.disk[pid]
    BY <1>0, <2>1, AllocPageWritesBack DEF Zeroed, pid
  <2>3. WritesBack(Zeroed, Formatted, held) /\ Formatted.disk[pid] = Zeroed.disk[pid]
    BY <1>0, <2>1, PageFacts, UpdatePageWritesBack DEF Formatted, pid
  <2>4. WritesBack(Formatted, Linked, held) /\ Linked.disk[tail] = Formatted.disk[tail]
    BY <1>0, <2>1, UpdatePageWritesBack DEF Linked, tail
  <2>6. ASSUME NEW q \in PageIds, pager'.disk[q] # pager.disk[q]
        PROVE  \/ pager'.disk[q] = View(pager, q)
               \/ q = pid /\ pager'.disk[q] = EmptyHeapPage
    <3>1. CASE Linked.disk[q] # Formatted.disk[q]
      <4>1. Linked.disk[q] = View(Formatted, q)
        BY <3>1, <2>4 DEF WritesBack
      <4>2. View(Formatted, q) = IF q = pid THEN EmptyHeapPage ELSE View(pager, q)
        BY <2>1 DEF ViewChanged
      <4> QED BY <4>1, <4>2, <2>1
    <3>2. CASE Linked.disk[q] = Formatted.disk[q] /\ Formatted.disk[q] # Zeroed.disk[q]
      <4>1. Formatted.disk[q] = View(Zeroed, q) /\ q # pid
        BY <3>2, <2>3 DEF WritesBack
      <4>2. View(Zeroed, q) = View(pager, q)
        BY <4>1, <2>1 DEF ViewChanged
      <4> QED BY <3>2, <4>1, <4>2, <2>1
    <3>3. CASE Linked.disk[q] = Formatted.disk[q] /\ Formatted.disk[q] = Zeroed.disk[q]
      BY <3>3, <2>1, <2>2, <2>6 DEF WritesBack
    <3> QED BY <3>1, <3>2, <3>3
  <2> QED BY <1>7, <2>1, <2>6 DEF WholePages, pid
<1>8. CASE Flush \/ Close
  <2> DEFINE fl == FlushAll(pager)
  <2>1. edited = {}
    BY <1>8, NothingHeldNothingEdited DEF Flush, Close
  <2>2. Coherent(fl, {}, held) /\ \A p \in PageIds : fl.disk[p] = View(pager, p)
    BY <1>0, <2>1, FlushAllLemma
  <2> HIDE DEF fl
  <2>3. pager'.disk = fl.disk
    <3>1. pager' = fl \/ pager' = Forget(fl)
      BY <1>8 DEF Flush, Close, fl
    <3> QED BY <2>2, <3>1 DEF Forget, Coherent, WellFormed, PagerRecord
  <2> QED BY <2>1, <2>2, <2>3 DEF WholePages
<1>9. CASE Open
  BY <1>0, <1>9 DEF Open, WholePages, PagerRecord
<1>10. CASE OpenWalk
  <2> DEFINE g == GetPage(pager, walk)
             u == Unpin(g, walk)
  <2>1. walk \in PageIds /\ HeldPages = {}
    BY <1>10 DEF OpenWalk, IInv, Links, PageIds, NULL
  <2>2. CanGet(pager, walk)
    BY <2>1, FS_EmptySet, PinBound, GetAlwaysSucceeds
  <2>3. MorePins(held, walk) \in [PageIds -> Nat] /\ MorePins(held, walk)[walk] > 0
    BY <1>0, <2>1, PinsBalance
  <2>4. /\ Coherent(g, edited, MorePins(held, walk)) /\ Cached(g, walk)
        /\ WritesBack(pager, g, held)
    BY <1>0, <2>1, <2>2, GetPageLemma, GetPageWritesBack
  <2>5. u.disk = g.disk
    BY <2>1, <2>4, UnpinFrames
  <2>6. u \in PagerRecord
    BY <2>1, <2>3, <2>4, UnpinLemma DEF Coherent, WellFormed
  <2>7. pager'.disk = g.disk
    BY <1>10, <2>5, <2>6 DEF OpenWalk, PagerRecord
  <2> QED BY <1>0, <2>4, <2>7, WholeFromWritesBack
<1>11. CASE UNCHANGED vars
  BY <1>11 DEF vars, WholePages
<1> QED BY <1>1, <1>2, <1>3, <1>4, <1>5, <1>6, <1>7, <1>8, <1>9, <1>10, <1>11 DEF Next

LEMMA CrashWritesWhole ==
  ASSUME IInv, Crash \/ CrashInFlush
  PROVE  WholePages
<1>1. PICK W \in SUBSET Dirty(pager) :
        CrashedFrom(WriteFrames(pager, W)) /\ (W = {} \/ edited = {})
  BY CrashSources
<1> DEFINE w == WriteFrames(pager, W)
<1>2. WellFormed(pager) /\ W \subseteq Frames /\ W \in SUBSET Dirty(pager)
  BY DEF IInv, Coherent, Dirty
<1>3. /\ \A i \in W : w.disk[pager.frames[i].page_id] = pager.frames[i].data
      /\ \A p \in PageIds : (\A i \in W : pager.frames[i].page_id # p)
                               => w.disk[p] = pager.disk[p]
  BY <1>2, WriteFramesLemma
<1> HIDE DEF w
<1>4. pager'.disk = w.disk
  <2>1. WellFormed(w) /\ pager' = Forget(w)
    BY <1>1 DEF CrashedFrom, CrashLeaving, w
  <2> QED BY <2>1 DEF Forget, WellFormed, PagerRecord
<1>5. ASSUME NEW p \in PageIds, w.disk[p] # pager.disk[p]
      PROVE  p \notin edited /\ w.disk[p] = View(pager, p)
  <2>1. PICK i \in W : pager.frames[i].page_id = p
    BY <1>3, <1>5
  <2>2. i \in Frames /\ Holds(pager.frames[i], p)
    BY <2>1 DEF Dirty, Holds
  <2>3. View(pager, p) = pager.frames[i].data
    BY <1>2, <2>2, HolderIsFrameOf
  <2> QED BY <1>1, <1>3, <2>1, <2>3
<1> QED BY <1>4, <1>5 DEF WholePages

(* Whatever step writes a page into the file, an eviction, a flush or one  *)
(* a crash cuts short, writes what the callers saw in that page before the *)
(* step, or the heap page the step has just formatted.                     *)
THEOREM OnlyWholePagesReachTheFile == CrashSpec => WritesWholePages
<1>1. IInv /\ [CrashNext]_crashVars => WholePages
  <2> SUFFICES ASSUME IInv, [CrashNext]_crashVars PROVE WholePages
    OBVIOUS
  <2>1. CASE Run
    BY <2>1, RunWritesWhole DEF Run
  <2>2. CASE OpenTorn
    <3>1. Next
      BY <2>2 DEF OpenTorn, Next
    <3> QED BY <3>1, RunWritesWhole
  <2>3. CASE Crash \/ CrashInFlush
    BY <2>3, CrashWritesWhole
  <2>4. CASE UNCHANGED crashVars
    <3>1. UNCHANGED vars
      BY <2>4 DEF crashVars
    <3> QED BY <3>1, RunWritesWhole
  <2> QED BY <2>1, <2>2, <2>3, <2>4 DEF CrashNext
<1>2. WholePages <=> \A p \in PageIds :
        pager'.disk[p] # pager.disk[p] =>
          /\ p \notin edited
          /\ \/ pager'.disk[p] = View(pager, p)
             \/ /\ AppendHeapPage /\ p = AllocatedId(pager)
                /\ pager'.disk[p] = EmptyHeapPage
  BY DEF WholePages
<1> QED BY <1>1, <1>2, CrashInvariance, PTL DEF CrashSpec, WritesWholePages

(* After flush_all the file alone is enough: its header is the one in      *)
(* memory and every page reads as the callers saw it.                      *)
THEOREM FlushIsDurable == CrashSpec => FlushedSurvives
<1>1. IInv /\ [CrashNext]_crashVars =>
        (~torn /\ FlushOrClose =>
           /\ pager'.disk_header = pager.header
           /\ \A p \in PageIds : pager'.disk[p] = View(pager, p))
  <2> SUFFICES ASSUME IInv, FlushOrClose
               PROVE  /\ pager'.disk_header = pager.header
                      /\ \A p \in PageIds : pager'.disk[p] = View(pager, p)
    OBVIOUS
  <2> DEFINE fl == FlushAll(pager)
  <2>1. edited = {}
    BY NothingHeldNothingEdited DEF FlushOrClose, Flush, Close
  <2>2. /\ Coherent(fl, {}, held) /\ fl.disk_header = pager.header
        /\ \A p \in PageIds : fl.disk[p] = View(pager, p)
    BY <2>1, FlushAllLemma DEF IInv
  <2>3. pager' = fl \/ pager' = Forget(fl)
    BY DEF FlushOrClose, Flush, Close
  <2> HIDE DEF fl
  <2>4. pager'.disk = fl.disk /\ pager'.disk_header = fl.disk_header
    BY <2>2, <2>3 DEF Forget, Coherent, WellFormed, PagerRecord
  <2> QED BY <2>2, <2>4
<1> QED BY <1>1, CrashInvariance, PTL DEF CrashSpec, FlushedSurvives

-----------------------------------------------------------------------------
(* The lists in the file *)

(* The second word of every page. *)
LinkOf(m) == [p \in PageIds |-> m[p].link]

LEMMA LinkFacts ==
  ASSUME NEW m
  PROVE  /\ DOMAIN LinkOf(m) = PageIds /\ NULL = 0 /\ 0 \notin PageIds
         /\ \A p \in PageIds : LinkOf(m)[p] = m[p].link
BY ConstantFacts DEF LinkOf, NULL

-----------------------------------------------------------------------------
(* ChainFrom *)

LEMMA LinksOfPages ==
  ASSUME NEW m, NEW head, NEW c, NEW n, IsChain(LinkOf(m), head, c, n)
  PROVE  /\ n \in Nat /\ n <= MaxPage
         /\ ChainNodes(c, n) \subseteq PageIds
<1>1. IsFiniteSet(PageIds) /\ Cardinality(PageIds) = MaxPage
  BY ConstantFacts, FS_Interval DEF PageIds
<1>2. DOMAIN LinkOf(m) = PageIds
  BY DEF LinkOf
<1> QED BY <1>1, <1>2, ChainIsShort DEF IsChain, ChainNodes

LEMMA ChainFromWalksTheList ==
  ASSUME NEW head, NEW c, NEW n, IsChain(LinkOf(Contents), head, c, n)
  PROVE  LET chain == ChainFrom(head)
         IN  chain[MaxPage] = NULL /\ PagesOn(chain) = ChainNodes(c, n)
<1> DEFINE chain == ChainFrom(head)
<1>1. /\ n \in Nat /\ n <= MaxPage /\ MaxPage \in Nat /\ NULL = 0
      /\ \A k \in 0 .. n - 1 : c[k] # 0
  BY LinksOfPages, ConstantFacts DEF IsChain, NULL
<1>2. LinkOf(Contents) = [p \in PageIds |-> View(pager, p).link]
  BY DEF LinkOf, Contents
<1>3. chain = [k \in 0 .. MaxPage |-> IF k < n THEN c[k] ELSE 0]
  BY <1>1, <1>2, WalkFollowsTheChain DEF ChainFrom
<1> HIDE DEF chain
<1>4. MaxPage \in 0 .. MaxPage /\ ~(MaxPage < n)
  BY <1>1
<1>5. {chain[k] : k \in 0 .. MaxPage} \ {0} = {c[k] : k \in 0 .. n - 1}
  <2>1. \A k \in 0 .. MaxPage : chain[k] # 0 => k \in 0 .. n - 1 /\ chain[k] = c[k]
    BY <1>1, <1>3
  <2>2. \A k \in 0 .. n - 1 : k \in 0 .. MaxPage /\ chain[k] = c[k] /\ chain[k] # 0
    BY <1>1, <1>3
  <2> QED BY <2>1, <2>2
<1> QED BY <1>1, <1>3, <1>4, <1>5 DEF PagesOn, ChainNodes, chain

-----------------------------------------------------------------------------
(* The two lists of a file *)

(* c[0 .. n] is the free list of the pages m under the header hd, and it   *)
(* accounts for every page that own does not.                              *)
FreeList(m, hd, own, c, n) ==
  /\ IsChain(LinkOf(m), hd.free_page_head, c, n)
  /\ \A p \in ChainNodes(c, n) : m[p].type = "FREE"
  /\ ChainNodes(c, n) \cap own = {}
  /\ ChainNodes(c, n) \cup own = 1 .. hd.next_page_id - 1

(* c[0 .. n] is the heap chain, and holds exactly the heap pages in own.   *)
HeapList(m, own, c, n) ==
  /\ IsChain(LinkOf(m), FirstHeapPage, c, n) /\ n > 0
  /\ ChainNodes(c, n) = {p \in own : m[p].type = "HEAP"}

(* The inductive invariant.  Clients hold only pages they own, so nobody   *)
(* writes through a pointer into a page that is on the free list; and      *)
(* pager_open's walk stands on the heap chain, so it stops at its end.     *)
Lists ==
  /\ \A p \in PageIds : held[p] > 0 => p \in owned
  /\ \E c, n : FreeList(Contents, pager.header, owned, c, n)
  /\ \E c, n :
       /\ HeapList(Contents, owned, c, n)
       /\ phase = "open" => pager.last_heap_page_id = c[n - 1]
       /\ phase = "opening" => walk \in ChainNodes(c, n)

LEMMA ListsAreSound ==
  ASSUME IInv, Lists
  PROVE  FreeListSound /\ TailIsCached
<1>1. FreeListSound
  <2>1. PICK c, n : FreeList(Contents, pager.header, owned, c, n)
    BY DEF Lists
  <2> DEFINE chain == ChainFrom(pager.header.free_page_head)
  <2>2. chain[MaxPage] = NULL /\ PagesOn(chain) = ChainNodes(c, n)
    BY <2>1, ChainFromWalksTheList DEF FreeList
  <2>3. \A p \in ChainNodes(c, n) : View(pager, p).type = "FREE"
    BY <2>1, LinksOfPages DEF FreeList, Contents
  <2> HIDE DEF chain
  <2> QED BY <2>1, <2>2, <2>3 DEF FreeListSound, FreeList, chain
<1>2. TailIsCached
  <2> SUFFICES ASSUME phase = "open" PROVE TailIsCached
    BY DEF TailIsCached
  <2>1. PICK c, n : /\ HeapList(Contents, owned, c, n)
                    /\ pager.last_heap_page_id = c[n - 1]
    BY DEF Lists
  <2> DEFINE chain == ChainFrom(FirstHeapPage)
  <2>2. chain[MaxPage] = NULL /\ PagesOn(chain) = ChainNodes(c, n)
    BY <2>1, ChainFromWalksTheList DEF HeapList
  <2>3. n - 1 \in 0 .. n - 1 /\ (n - 1) + 1 = n
    BY <2>1 DEF HeapList, IsChain
  <2>4. /\ pager.last_heap_page_id \in ChainNodes(c, n)
        /\ View(pager, pager.last_heap_page_id).link = NULL
    BY <2>1, <2>3, LinkFacts DEF HeapList, IsChain, ChainNodes, Contents
  <2>5. ChainNodes(c, n) = {p \in owned : View(pager, p).type = "HEAP"}
    <3>1. \A p \in ChainNodes(c, n) : p \in PageIds
      BY <2>1, LinksOfPages DEF HeapList
    <3>2. owned \subseteq PageIds
      BY DEF IInv
    <3> QED BY <2>1, <3>1, <3>2 DEF HeapList, Contents
  <2> HIDE DEF chain
  <2> QED BY <2>2, <2>4, <2>5 DEF TailIsCached, chain
<1> QED BY <1>1, <1>2

-----------------------------------------------------------------------------
(* What the calls do to the lists *)

LEMMA ContentsType ==
  ASSUME IInv
  PROVE  Contents \in [PageIds -> Page] /\ owned \subseteq PageIds
<1>1. \A p \in PageIds : View(pager, p) \in Page
  BY ViewType DEF IInv, Coherent
<1> QED BY <1>1 DEF Contents, IInv

(* The links of other pages may change. *)
LEMMA PagesUndisturbed ==
  ASSUME NEW m, NEW m2, NEW head, NEW c, NEW n, IsChain(LinkOf(m), head, c, n),
         \A p \in ChainNodes(c, n) : m2[p].link = m[p].link
  PROVE  IsChain(LinkOf(m2), head, c, n)
<1>1. \A p \in ChainNodes(c, n) : p \in PageIds
  BY LinksOfPages
<1>2. \A p \in ChainNodes(c, n) : LinkOf(m2)[p] = LinkOf(m)[p]
  BY <1>1, LinkFacts
<1> QED BY <1>2, LinkFacts, ChainUndisturbed

(* Pages that are not on the free list may change. *)
LEMMA FreeListKept ==
  ASSUME NEW m, NEW m2, NEW hd, NEW own, NEW c, NEW n, FreeList(m, hd, own, c, n),
         \A p \in ChainNodes(c, n) : m2[p] = m[p]
  PROVE  FreeList(m2, hd, own, c, n)
<1>1. IsChain(LinkOf(m2), hd.free_page_head, c, n)
  BY PagesUndisturbed DEF FreeList
<1> QED BY <1>1 DEF FreeList

(* Pages that are no heap pages, and bodies of heap pages, may change.     *)
LEMMA HeapListKept ==
  ASSUME NEW m, NEW m2, NEW own, NEW own2, NEW c, NEW n, HeapList(m, own, c, n),
         \A p : p \in own2 /\ m2[p].type = "HEAP" <=> p \in own /\ m[p].type = "HEAP",
         \A p \in ChainNodes(c, n) : m2[p].link = m[p].link
  PROVE  HeapList(m2, own2, c, n)
<1>1. IsChain(LinkOf(m2), FirstHeapPage, c, n)
  BY PagesUndisturbed DEF HeapList
<1>2. {p \in own2 : m2[p].type = "HEAP"} = {p \in own : m[p].type = "HEAP"}
  OBVIOUS
<1> QED BY <1>1, <1>2 DEF HeapList

(* Reading, marking, unpinning and flushing are no concern of the lists.   *)
LEMMA UndisturbedLists ==
  ASSUME Lists, Contents' = Contents, pager'.header = pager.header, owned' = owned,
         \A p \in PageIds : held'[p] > 0 => p \in owned,
         \A c, n : /\ HeapList(Contents, owned, c, n)
                   /\ phase = "open" => pager.last_heap_page_id = c[n - 1]
                   /\ phase = "opening" => walk \in ChainNodes(c, n)
                   => /\ phase' = "open" => pager'.last_heap_page_id = c[n - 1]
                      /\ phase' = "opening" => walk' \in ChainNodes(c, n)
  PROVE  Lists'
<1>1. \E c, n : FreeList(Contents', pager'.header, owned', c, n)
  BY DEF Lists
<1>2. PICK c, n : /\ HeapList(Contents, owned, c, n)
                  /\ phase = "open" => pager.last_heap_page_id = c[n - 1]
                  /\ phase = "opening" => walk \in ChainNodes(c, n)
  BY DEF Lists
<1>3. /\ HeapList(Contents', owned', c, n)
      /\ phase' = "open" => pager'.last_heap_page_id = c[n - 1]
      /\ phase' = "opening" => walk' \in ChainNodes(c, n)
  BY <1>2
<1> QED BY <1>1, <1>3 DEF Lists

(* A client's edit reaches only pages it owns: none of the free list, and  *)
(* of a heap page only the body.                                           *)
LEMMA EditKeepsLists ==
  ASSUME IInv, Lists, NEW p \in PageIds, NEW v \in Vals, Edit(p, v)
  PROVE  Lists'
<1> DEFINE m == Contents
           page == WithBody(m[p], v)
           m2 == [m EXCEPT ![p] = page]
<1>1. /\ p \in owned /\ Contents' = m2 /\ SameHeaders(pager, pager')
      /\ UNCHANGED <<phase, walk, held, owned>>
  BY EditStep DEF Edit, Lists
<1>2. m \in [PageIds -> Page] /\ owned \subseteq PageIds
  BY ContentsType
<1>3. page.link = m[p].link /\ (page.type = "HEAP" <=> m[p].type = "HEAP")
  BY DEF WithBody
<1> HIDE DEF m, page
<1>4. /\ m2[p] = page /\ \A q \in PageIds : q # p => m2[q] = m[q]
  BY <1>2
<1> HIDE DEF m2
<1>5. PICK c, n : FreeList(m, pager.header, owned, c, n)
  BY DEF Lists, m
<1>6. FreeList(m2, pager.header, owned, c, n)
  <2>1. \A q \in ChainNodes(c, n) : q \in PageIds /\ q # p
    BY <1>1, <1>5, LinksOfPages DEF FreeList
  <2> QED BY <2>1, <1>4, <1>5, FreeListKept
<1>7. PICK d, k : /\ HeapList(m, owned, d, k)
                  /\ phase = "open" => pager.last_heap_page_id = d[k - 1]
                  /\ phase = "opening" => walk \in ChainNodes(d, k)
  BY DEF Lists, m
<1>8. HeapList(m2, owned, d, k)
  <2>1. \A q \in owned : m2[q].link = m[q].link /\ (m2[q].type = "HEAP" <=> m[q].type = "HEAP")
    BY <1>2, <1>3, <1>4
  <2>2. \A q \in ChainNodes(d, k) : q \in owned
    BY <1>7 DEF HeapList
  <2>3. /\ \A q : q \in owned /\ m2[q].type = "HEAP" <=> q \in owned /\ m[q].type = "HEAP"
        /\ \A q \in ChainNodes(d, k) : m2[q].link = m[q].link
    BY <2>1, <2>2
  <2> QED BY <2>3, <1>7, HeapListKept
<1> QED BY <1>1, <1>6, <1>7, <1>8 DEF Lists, SameHeaders

(* pager_alloc_page takes a page nobody owns: the head of the free list,   *)
(* or the first page behind the file.                                      *)
LEMMA AllocatedPage ==
  ASSUME IInv, Lists, MayGrow(pager.header)
  PROVE  LET pid == AllocatedId(pager)
         IN  /\ pid \in PageIds /\ pid \notin owned
             /\ \A m2 :
                  (\A q \in PageIds : q # pid /\ q \notin owned => m2[q] = Contents[q])
                    => \E c, n : FreeList(m2, HeaderAfterAlloc(pager), owned \cup {pid}, c, n)
<1> DEFINE pid == AllocatedId(pager)
           hd == pager.header
           hd2 == HeaderAfterAlloc(pager)
<1>1. PICK c, n : FreeList(Contents, hd, owned, c, n)
  BY DEF Lists
<1>2. /\ IsChain(LinkOf(Contents), hd.free_page_head, c, n)
      /\ \A q \in ChainNodes(c, n) : q \in PageIds /\ q \notin owned /\ Contents[q].type = "FREE"
      /\ ChainNodes(c, n) \cup owned = 1 .. hd.next_page_id - 1
  BY <1>1, LinksOfPages DEF FreeList
<1>3. pid \in PageIds /\ hd \in Header
  BY AllocatedIdType DEF IInv, Coherent, WellFormed, PagerRecord
<1>4. CASE hd.free_page_head # NULL
  <2>1. pid = hd.free_page_head /\ pid \in ChainNodes(c, n)
    BY <1>2, <1>4, LinkFacts, ChainPop DEF AllocatedId
  <2>2. hd2.free_page_head = Contents[pid].link /\ hd2.next_page_id = hd.next_page_id
    BY <1>3, <1>4 DEF HeaderAfterAlloc, Header, Contents
  <2>3. PICK d : /\ IsChain(LinkOf(Contents), Contents[pid].link, d, n - 1)
                 /\ ChainNodes(d, n - 1) = ChainNodes(c, n) \ {pid}
    BY <1>2, <1>3, <1>4, <2>1, LinkFacts, ChainPop
  <2> HIDE DEF pid, hd, hd2
  <2>4. FreeList(Contents, hd2, owned \cup {pid}, d, n - 1)
    BY <1>2, <2>1, <2>2, <2>3 DEF FreeList
  <2>5. ASSUME NEW m2, \A q \in PageIds : q # pid /\ q \notin owned => m2[q] = Contents[q]
        PROVE  FreeList(m2, hd2, owned \cup {pid}, d, n - 1)
    BY <1>2, <2>3, <2>4, <2>5, FreeListKept
  <2> QED BY <1>2, <1>3, <2>1, <2>5 DEF pid, hd2
<1>5. CASE hd.free_page_head = NULL
  <2>1. pid = hd.next_page_id /\ pid \in Nat
    BY <1>3, <1>5, ConstantFacts DEF AllocatedId
  <2>2. hd2.free_page_head = NULL /\ hd2.next_page_id = pid + 1
    BY <1>3, <1>5, <2>1 DEF HeaderAfterAlloc, Header
  <2> HIDE DEF pid, hd2
  <2>3. pid \notin ChainNodes(c, n) /\ pid \notin owned
    BY <1>2, <2>1
  <2>4. 1 .. (pid + 1) - 1 = (1 .. pid - 1) \cup {pid}
    BY <1>3, <2>1 DEF PageIds
  <2>5. FreeList(Contents, hd2, owned \cup {pid}, c, n)
    BY <1>2, <1>5, <2>1, <2>2, <2>3, <2>4 DEF FreeList
  <2>6. ASSUME NEW m2, \A q \in PageIds : q # pid /\ q \notin owned => m2[q] = Contents[q]
        PROVE  FreeList(m2, hd2, owned \cup {pid}, c, n)
    BY <1>2, <2>3, <2>5, <2>6, FreeListKept
  <2> QED BY <1>3, <2>3, <2>6 DEF pid, hd2
<1> QED BY <1>4, <1>5

LEMMA AllocKeepsLists ==
  ASSUME IInv, Lists, Alloc
  PROVE  Lists'
<1> DEFINE pid == AllocatedId(pager)
           m == Contents
           m2 == [m EXCEPT ![pid] = ZeroPage]
<1>1. /\ Contents' = m2 /\ pager'.header = HeaderAfterAlloc(pager)
      /\ pager'.last_heap_page_id = pager.last_heap_page_id
      /\ MayGrow(pager.header) /\ owned' = owned \cup {pid}
      /\ UNCHANGED <<phase, walk, held>> /\ phase = "open"
  BY AllocStep DEF Alloc
<1>2. m \in [PageIds -> Page] /\ owned \subseteq PageIds
  BY ContentsType
<1>3. pid \in PageIds /\ pid \notin owned
  BY <1>1, AllocatedPage
<1>4. m2[pid].type # "HEAP" /\ \A q \in PageIds : q # pid => m2[q] = m[q]
  BY <1>2, <1>3 DEF ZeroPage
<1>5. \E c, n : FreeList(m2, HeaderAfterAlloc(pager), owned \cup {pid}, c, n)
  <2> HIDE DEF m2
  <2> QED BY <1>1, <1>4, AllocatedPage
<1> HIDE DEF m2, m, pid
<1>6. PICK d, k : HeapList(m, owned, d, k) /\ pager.last_heap_page_id = d[k - 1]
  BY <1>1 DEF Lists, m
<1>7. HeapList(m2, owned \cup {pid}, d, k)
  <2>1. \A q \in ChainNodes(d, k) : q \in owned
    BY <1>6 DEF HeapList
  <2>2. \A q : q \in owned \cup {pid} /\ m2[q].type = "HEAP"
                <=> q \in owned /\ m[q].type = "HEAP"
    BY <1>2, <1>3, <1>4
  <2>3. \A q \in ChainNodes(d, k) : m2[q].link = m[q].link
    BY <2>1, <1>2, <1>3, <1>4
  <2> QED BY <2>2, <2>3, <1>6, HeapListKept
<1>8. \A p \in PageIds : held'[p] > 0 => p \in owned'
  BY <1>1 DEF Lists
<1> QED BY <1>1, <1>5, <1>6, <1>7, <1>8 DEF Lists

LEMMA FreeKeepsLists ==
  ASSUME IInv, Lists, NEW p \in PageIds, Free(p)
  PROVE  Lists'
<1> DEFINE m == Contents
           hd == pager.header
           hd2 == [hd EXCEPT !.free_page_head = p]
           page == FreePage(hd.free_page_head)
           m2 == [m EXCEPT ![p] = page]
           own2 == owned \ {p}
<1>1. /\ Contents' = m2 /\ pager'.header = hd2
      /\ pager'.last_heap_page_id = pager.last_heap_page_id /\ owned' = own2
      /\ UNCHANGED <<phase, walk, held>> /\ phase = "open"
      /\ p \in owned /\ held[p] = 0 /\ m[p].type # "HEAP"
  BY FreeStep DEF Free, Contents
<1>2. m \in [PageIds -> Page] /\ owned \subseteq PageIds
  BY ContentsType
<1>3. hd2.free_page_head = p /\ hd2.next_page_id = hd.next_page_id
  BY DEF IInv, Coherent, WellFormed, PagerRecord, Header
<1>4. page.type = "FREE" /\ page.link = hd.free_page_head
  BY DEF FreePage
<1> HIDE DEF m, hd, hd2, page
<1>5. m2[p] = page /\ \A q \in PageIds : q # p => m2[q] = m[q]
  BY <1>2
<1> HIDE DEF m2
<1>6. PICK c, n : FreeList(m, hd, owned, c, n)
  BY DEF Lists, m, hd
<1>7. /\ IsChain(LinkOf(m), hd.free_page_head, c, n)
      /\ \A q \in ChainNodes(c, n) : q \in PageIds /\ q # p /\ m[q].type = "FREE"
      /\ ChainNodes(c, n) \cap owned = {}
      /\ ChainNodes(c, n) \cup owned = 1 .. hd.next_page_id - 1
  BY <1>1, <1>6, LinksOfPages DEF FreeList
<1>8. PICK d : IsChain(LinkOf(m2), p, d, n + 1) /\ ChainNodes(d, n + 1) = ChainNodes(c, n) \cup {p}
  BY <1>4, <1>5, <1>7, LinkFacts, ChainPush
<1>9. FreeList(m2, hd2, own2, d, n + 1)
  BY <1>1, <1>3, <1>4, <1>5, <1>7, <1>8 DEF FreeList
<1>10. PICK e, k : HeapList(m, owned, e, k) /\ pager.last_heap_page_id = e[k - 1]
  BY <1>1 DEF Lists, m
<1>11. HeapList(m2, own2, e, k)
  <2>1. \A q \in ChainNodes(e, k) : q \in owned /\ q # p
    BY <1>1, <1>10 DEF HeapList
  <2>2. \A q : q \in own2 /\ m2[q].type = "HEAP" <=> q \in owned /\ m[q].type = "HEAP"
    BY <1>1, <1>2, <1>5
  <2>3. \A q \in ChainNodes(e, k) : m2[q].link = m[q].link
    BY <2>1, <1>2, <1>5
  <2> QED BY <2>2, <2>3, <1>10, HeapListKept
<1>12. \A q \in PageIds : held'[q] > 0 => q \in own2
  BY <1>1 DEF Lists
<1> QED BY <1>1, <1>9, <1>10, <1>11, <1>12 DEF Lists

LEMMA AppendKeepsLists ==
  ASSUME IInv, Lists, AppendHeapPage
  PROVE  Lists'
<1> DEFINE pid == AllocatedId(pager)
           tail == pager.last_heap_page_id
           m == Contents
           m2 == [m EXCEPT ![pid] = EmptyHeapPage, ![tail].link = pid]
<1>1. /\ Contents' = m2 /\ pager'.header = HeaderAfterAlloc(pager)
      /\ pager'.last_heap_page_id = pid
      /\ MayGrow(pager.header) /\ owned' = owned \cup {pid}
      /\ UNCHANGED <<phase, walk, held>> /\ phase = "open"
      /\ tail \in PageIds
  BY AppendStep DEF AppendHeapPage
<1>2. m \in [PageIds -> Page] /\ owned \subseteq PageIds
  BY ContentsType
<1>3. pid \in PageIds /\ pid \notin owned
  BY <1>1, AllocatedPage
<1> HIDE DEF m, pid
<1>4. PICK d, k : HeapList(m, owned, d, k) /\ tail = d[k - 1]
  BY <1>1 DEF Lists, m
<1>5. k - 1 \in 0 .. k - 1 /\ tail \in ChainNodes(d, k) /\ IsChain(LinkOf(m), FirstHeapPage, d, k) /\ k > 0
  BY <1>4 DEF HeapList, IsChain, ChainNodes
<1>6. tail \in owned /\ tail # pid /\ m[tail].type = "HEAP"
  BY <1>3, <1>4, <1>5 DEF HeapList
<1> HIDE DEF tail
<1>7. /\ m2[pid].type = "HEAP" /\ m2[pid].link = NULL
      /\ m2[tail].type = "HEAP" /\ m2[tail].link = pid
      /\ \A q \in PageIds : q # pid /\ q # tail => m2[q] = m[q]
  <2>1. m2[pid] = EmptyHeapPage /\ m2[tail] = [m[tail] EXCEPT !.link = pid]
        /\ \A q \in PageIds : q # pid /\ q # tail => m2[q] = m[q]
    BY <1>1, <1>2, <1>3, <1>6
  <2>2. m[tail] \in Page
    BY <1>1, <1>2
  <2>3. EmptyHeapPage.type = "HEAP" /\ EmptyHeapPage.link = NULL
    BY DEF EmptyHeapPage
  <2>4. \A page \in Page : /\ [page EXCEPT !.link = pid].type = page.type
                            /\ [page EXCEPT !.link = pid].link = pid
    BY DEF Page
  <2> HIDE DEF m2
  <2> QED BY <2>1, <2>2, <2>3, <2>4, <1>6
<1> HIDE DEF m2
<1>8. \E c, n : FreeList(m2, HeaderAfterAlloc(pager), owned \cup {pid}, c, n)
  <2>1. \A q \in PageIds : q # pid /\ q \notin owned => m2[q] = Contents[q]
    BY <1>6, <1>7 DEF m
  <2> QED BY <1>1, <2>1, AllocatedPage DEF pid
<1>9. \A q \in ChainNodes(d, k) : q \in owned /\ q \in PageIds /\ q # pid
  BY <1>2, <1>3, <1>4 DEF HeapList
<1>10. PICK e : /\ IsChain(LinkOf(m2), FirstHeapPage, e, k + 1) /\ e[k] = pid
                /\ ChainNodes(e, k + 1) = ChainNodes(d, k) \cup {pid}
  <2>1. m2[d[k - 1]].link = pid
    BY <1>4, <1>7
  <2>2. \A q \in ChainNodes(d, k) : q # d[k - 1] => m2[q].link = m[q].link
    BY <1>4, <1>7, <1>9
  <2>3. /\ LinkOf(m2)[d[k - 1]] = pid /\ LinkOf(m2)[pid] = 0
        /\ \A q \in ChainNodes(d, k) : q # d[k - 1] => LinkOf(m2)[q] = LinkOf(m)[q]
    BY <2>1, <2>2, <1>3, <1>4, <1>5, <1>7, <1>9, LinkFacts
  <2>4. DOMAIN LinkOf(m2) = DOMAIN LinkOf(m) /\ pid \in DOMAIN LinkOf(m)
        /\ pid \notin ChainNodes(d, k)
    BY <1>3, <1>9, LinkFacts
  <2> QED BY <2>3, <2>4, <1>5, ChainAppend
<1>11. ChainNodes(e, k + 1) = {q \in owned \cup {pid} : m2[q].type = "HEAP"}
  <2>1. ChainNodes(d, k) = {q \in owned : m[q].type = "HEAP"}
    BY <1>4 DEF HeapList
  <2>2. \A q \in owned : m2[q].type = "HEAP" <=> m[q].type = "HEAP"
    BY <1>2, <1>3, <1>6, <1>7
  <2> QED BY <2>1, <2>2, <1>3, <1>7, <1>10
<1>12. HeapList(m2, owned \cup {pid}, e, k + 1) /\ (k + 1) - 1 = k
  BY <1>5, <1>10, <1>11 DEF HeapList, IsChain
<1>13. \A p \in PageIds : held'[p] > 0 => p \in owned'
  BY <1>1 DEF Lists
<1> QED BY <1>1, <1>8, <1>10, <1>12, <1>13 DEF Lists

-----------------------------------------------------------------------------
(* The lists under Next, and under crashes *)

LEMMA InitLists == Init => Lists
<1> SUFFICES ASSUME Init PROVE Lists
  OBVIOUS
<1> DEFINE none == [k \in 0 .. 0 |-> NULL]
           first == [k \in 0 .. 1 |-> IF k = 0 THEN FirstHeapPage ELSE NULL]
<1>1. /\ Contents = NewFile /\ pager.header = NewHeader /\ pager.last_heap_page_id = FirstHeapPage
      /\ owned = {FirstHeapPage, FirstRootPage} /\ phase = "open"
      /\ \A p \in PageIds : held[p] = 0
  BY InitIInv DEF Init
<1>2. /\ NewHeader.free_page_head = NULL /\ NewHeader.next_page_id = 3
      /\ FirstHeapPage = 1 /\ FirstRootPage = 2 /\ NULL = 0
  BY DEF NewHeader, FirstHeapPage, FirstRootPage, NULL
<1>3. /\ 1 \in PageIds /\ 2 \in PageIds
      /\ NewFile[1] = EmptyHeapPage /\ NewFile[2] = EmptyLeafPage
  BY ConstantFacts DEF NewFile, FirstHeapPage, FirstRootPage
<1>4. EmptyHeapPage.type = "HEAP" /\ EmptyHeapPage.link = NULL /\ EmptyLeafPage.type # "HEAP"
  BY DEF EmptyHeapPage, EmptyLeafPage
<1>5. FreeList(NewFile, NewHeader, {1, 2}, none, 0)
  <2>1. IsChain(LinkOf(NewFile), NULL, none, 0) /\ ChainNodes(none, 0) = {}
    BY ConstantFacts, LinkFacts DEF IsChain, ChainNodes
  <2>2. 1 .. 3 - 1 = {1, 2}
    OBVIOUS
  <2> HIDE DEF none
  <2> QED BY <2>1, <2>2, <1>2 DEF FreeList
<1>6. HeapList(NewFile, {1, 2}, first, 1) /\ first[1 - 1] = 1
  <2>1. 0 .. 1 - 1 = {0} /\ first[0] = 1 /\ first[1] = 0 /\ first \in [0 .. 1 -> Links]
    BY <1>2, ConstantFacts
  <2> HIDE DEF first
  <2>2. IsChain(LinkOf(NewFile), 1, first, 1) /\ ChainNodes(first, 1) = {1}
    BY <2>1, <1>2, <1>3, <1>4, LinkFacts DEF IsChain, ChainNodes
  <2>3. {p \in {1, 2} : NewFile[p].type = "HEAP"} = {1}
    BY <1>3, <1>4
  <2> QED BY <2>1, <2>2, <2>3, <1>2 DEF HeapList
<1> HIDE DEF none, first
<1> QED BY <1>1, <1>2, <1>5, <1>6 DEF Lists

LEMMA NextLists ==
  ASSUME IInv, Lists, [Next]_vars
  PROVE  Lists'
<1>1. ASSUME NEW p \in PageIds, Get(p) \/ Mark(p) \/ Release(p) PROVE Lists'
  <2>1. Undisturbed
    BY <1>1, GetStep, MarkStep, ReleaseStep
  <2>2. \A q \in PageIds : held'[q] > 0 => q \in owned
    BY <1>1 DEF Get, Mark, Release, IInv, Lists
  <2> QED BY <1>1, <2>1, <2>2, UndisturbedLists DEF Undisturbed, Get, Mark, Release
<1>2. CASE Flush
  <2>1. Undisturbed /\ UNCHANGED <<phase, walk, held, owned>>
    BY <1>2, FlushStep DEF Flush, client
  <2> QED BY <2>1, UndisturbedLists DEF Undisturbed, Lists
<1>3. CASE Close
  <2>1. /\ Contents' = Contents /\ pager'.header = pager.header
        /\ UNCHANGED <<walk, held, owned>> /\ phase' = "down"
    BY <1>3, CloseStep DEF Close, client
  <2> QED BY <2>1, UndisturbedLists DEF Lists
<1>4. CASE Open
  <2>1. /\ Contents' = Contents /\ pager'.header = pager.header
        /\ UNCHANGED <<held, owned>> /\ phase' = "opening" /\ walk' = FirstHeapPage
    BY <1>4, OpenStep DEF Open, client
  <2>2. ASSUME NEW c, NEW n, HeapList(Contents, owned, c, n)
        PROVE  FirstHeapPage \in ChainNodes(c, n)
    <3>1. 0 \in 0 .. n - 1 /\ c[0] = FirstHeapPage
      BY <2>2 DEF HeapList, IsChain
    <3> QED BY <3>1 DEF ChainNodes
  <2> QED BY <2>1, <2>2, UndisturbedLists DEF Lists
<1>5. CASE OpenWalk
  <2>1. /\ Contents' = Contents /\ pager'.header = pager.header
        /\ pager'.last_heap_page_id = walk /\ phase = "opening"
        /\ walk' = View(pager, walk).link
        /\ phase' = IF walk' = NULL THEN "open" ELSE "opening"
        /\ UNCHANGED <<held, owned>>
    BY <1>5, OpenWalkStep DEF OpenWalk, client
  <2>2. ASSUME NEW c, NEW n, HeapList(Contents, owned, c, n), walk \in ChainNodes(c, n)
        PROVE  /\ walk' = NULL => walk = c[n - 1]
               /\ walk' # NULL => walk' \in ChainNodes(c, n)
    <3>1. IsChain(LinkOf(Contents), FirstHeapPage, c, n)
      BY <2>2 DEF HeapList
    <3>2. walk \in PageIds
      BY <2>2, <3>1, LinkFacts, ChainSuccessor
    <3>3. walk' = Contents[walk].link
      BY <2>1, <3>2 DEF Contents
    <3> QED BY <2>2, <3>1, <3>2, <3>3, LinkFacts, ChainSuccessor
  <2> QED BY <2>1, <2>2, UndisturbedLists DEF Lists
<1>6. CASE UNCHANGED vars
  <2>1. UNCHANGED <<pager, phase, walk, held, owned>> /\ Contents' = Contents
    BY <1>6 DEF vars, client, Contents
  <2> QED BY <2>1, UndisturbedLists DEF Lists
<1> QED BY <1>1, <1>2, <1>3, <1>4, <1>5, <1>6, EditKeepsLists, AllocKeepsLists,
           FreeKeepsLists, AppendKeepsLists DEF Next

(* The free list holds exactly the pages that are not in use, each once,   *)
(* and the cached tail is the last page of the heap chain: for every file  *)
(* size, every cache size, and also after the file was closed and opened.  *)
THEOREM ListsAreAlwaysSound == Spec => [](FreeListSound /\ TailIsCached)
<1>1. Init => IInv /\ Lists
  BY InitIInv, InitLists
<1>2. IInv /\ Lists /\ [Next]_vars => IInv' /\ Lists'
  BY NextStep, NextLists
<1>3. IInv /\ Lists => FreeListSound /\ TailIsCached
  BY ListsAreSound
<1> QED BY <1>1, <1>2, <1>3, PTL DEF Spec

(* A crash that leaves all the process knew in the file leaves the lists.  *)
LEMMA LosslessCrashKeepsLists ==
  ASSUME IInv, Lists, Crash \/ CrashInFlush, ~torn'
  PROVE  Lists'
<1>1. PICK W \in SUBSET Dirty(pager) : CrashedFrom(WriteFrames(pager, W))
  BY CrashSources
<1> DEFINE w == WriteFrames(pager, W)
<1>2. WellFormed(pager) /\ W \in SUBSET Dirty(pager)
  BY DEF IInv, Coherent
<1>3. SameView(pager, w) /\ w.header = pager.header
  BY <1>2, WriteFramesLemma
<1> HIDE DEF w
<1>4. /\ WellFormed(w) /\ pager' = Forget(w) /\ torn' = ~Lossless(w)
      /\ held' = [p \in PageIds |-> 0] /\ owned' = owned /\ phase' = "down"
  BY <1>1 DEF CrashedFrom, CrashLeaving, w
<1>5. Lossless(w)
  BY <1>4
<1>6. pager'.header = pager.header
  BY <1>3, <1>4, <1>5, DroppedFrames DEF Lossless
<1>7. \A p \in PageIds : View(pager', p) = View(pager, p)
  BY <1>3, <1>4, <1>5, DroppedFrames DEF Lossless, SameView
<1>8. Contents' = Contents
  BY <1>7, SameContents DEF SameView
<1> QED BY <1>4, <1>6, <1>8, UndisturbedLists

(* Until a crash tears the file, both lists are sound, through closing,    *)
(* dying with nothing unflushed, and reopening.                            *)
THEOREM UntornFileIsSound == CrashSpec => []UntornIsSound
<1> DEFINE Inv == IInv /\ (~torn => Lists)
<1>1. CrashInit => Inv
  BY InitIInv, InitLists DEF CrashInit
<1>2. Inv /\ [CrashNext]_crashVars => Inv'
  <2> SUFFICES ASSUME Inv, [CrashNext]_crashVars, ~torn' PROVE Lists'
    BY CrashStep
  <2>1. CASE Run
    BY <2>1, NextLists DEF Run
  <2>2. CASE OpenTorn
    BY <2>2 DEF OpenTorn
  <2>3. CASE Crash \/ CrashInFlush
    <3>1. ~torn
      BY <2>3 DEF Crash, CrashInFlush, CrashLeaving
    <3> QED BY <2>3, <3>1, LosslessCrashKeepsLists
  <2>4. CASE UNCHANGED crashVars
    <3>1. UNCHANGED vars /\ ~torn
      BY <2>4 DEF crashVars
    <3> QED BY <3>1, NextLists
  <2> QED BY <2>1, <2>2, <2>3, <2>4 DEF CrashNext
<1>3. Inv => UntornIsSound
  BY ListsAreSound DEF UntornIsSound
<1> HIDE DEF Inv
<1> QED BY <1>1, <1>2, <1>3, PTL DEF CrashSpec
=============================================================================
