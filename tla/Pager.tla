------------------------------- MODULE Pager -------------------------------
(***************************************************************************)
(* The pager (src/storage/pager.c) driven by one client that stands for    *)
(* the heap and the B+ tree: it pins a page, edits it through the pointer, *)
(* marks it dirty and unpins it, holding several pages at once; it         *)
(* allocates and frees pages and appends pages to the heap chain.  The     *)
(* file may be closed and opened again, and pager_open walks the heap      *)
(* chain to find its tail.  Crashes are added by PagerCrash.               *)
(*                                                                         *)
(* The program is single-threaded: one call of pager.c is one action.      *)
(***************************************************************************)
EXTENDS PagerCore, LinkedLists

CONSTANTS
  MaxPins,      \* bound: pages the client holds pinned at the same time
  MaxHold       \* bound: pins it takes on one page

ASSUME ClientAssumption ==
  /\ MaxPins \in 1 .. NumFrames
  /\ MaxHold \in Nat \ {0}

VARIABLES
  pager,    \* pager_t and the file
  phase,    \* "open" | "opening" (pager_open walks the chain) | "down"
  walk,     \* pager_open's local pid
  held,     \* client: pins it has taken on each page
  edited,   \* client: pages written through the pointer, not yet marked
  owned     \* client: pages it allocated (or found in a new file) and not freed

client == <<held, edited, owned>>
vars == <<pager, phase, walk, client>>

HeldPages == {p \in PageIds : held[p] > 0}

NoFrames == [i \in Frames |-> EmptyFrame]

Init ==
  /\ pager = [frames |-> NoFrames, header |-> NewHeader,
              last_heap_page_id |-> FirstHeapPage,
              disk |-> NewFile, disk_header |-> NewHeader]
  /\ phase = "open" /\ walk = NULL
  /\ held = [p \in PageIds |-> 0] /\ edited = {}
  /\ owned = {FirstHeapPage, FirstRootPage}

-----------------------------------------------------------------------------
(* Calls of a running client *)

Get(p) ==
  /\ phase = "open" /\ p \in owned
  /\ Cardinality(HeldPages \cup {p}) <= MaxPins /\ held[p] < MaxHold
  /\ pager' = GetPage(pager, p)
  /\ held' = [held EXCEPT ![p] = @ + 1]
  /\ UNCHANGED <<phase, walk, edited, owned>>

Edit(p, v) ==
  /\ phase = "open" /\ held[p] > 0
  /\ pager' = SetData(pager, p, WithBody(View(pager, p), v))
  /\ edited' = edited \cup {p}
  /\ UNCHANGED <<phase, walk, held, owned>>

Mark(p) ==
  /\ phase = "open" /\ p \in edited
  /\ pager' = MarkDirty(pager, p)
  /\ edited' = edited \ {p}
  /\ UNCHANGED <<phase, walk, held, owned>>

Release(p) ==
  /\ phase = "open" /\ held[p] > 0 /\ p \notin edited
  /\ pager' = Unpin(pager, p)
  /\ held' = [held EXCEPT ![p] = @ - 1]
  /\ UNCHANGED <<phase, walk, edited, owned>>

Alloc ==
  LET pid == AllocatedId(pager)
  IN  /\ phase = "open" /\ MayGrow(pager.header)
      /\ Cardinality(HeldPages) < MaxPins
      /\ pager' = AllocPage(pager)
      /\ owned' = owned \cup {pid}
      /\ UNCHANGED <<phase, walk, held, edited>>

(* Only the B+ tree gives pages back, and only pages it no longer holds. *)
Free(p) ==
  /\ phase = "open" /\ p \in owned /\ held[p] = 0 /\ View(pager, p).type # "HEAP"
  /\ Cardinality(HeldPages) < MaxPins
  /\ pager' = PushFreePage(pager, p)
  /\ owned' = owned \ {p}
  /\ UNCHANGED <<phase, walk, held, edited>>

(* Mutant: last_heap_page_id is not moved to the new page. *)
AppendHeapPageKeepingTail ==
  LET pid == AllocatedId(pager)
      tail == pager.last_heap_page_id
      formatted == UpdatePage(AllocPage(pager), pid, EmptyHeapPage)
  IN  /\ phase = "open" /\ HeldPages = {} /\ MayGrow(pager.header)
      /\ pager' = UpdatePage(formatted, tail, [View(formatted, tail) EXCEPT !.link = pid])
      /\ owned' = owned \cup {pid}
      /\ UNCHANGED <<phase, walk, held, edited>>

(* heap_insert's branch for a full chain: format a new page, link it after *)
(* the tail, and make it the tail.  heap_insert holds no page here.        *)
AppendHeapPage ==
  LET pid == AllocatedId(pager)
      tail == pager.last_heap_page_id
      allocated == AllocPage(pager)
      formatted == UpdatePage(allocated, pid, EmptyHeapPage)
      linked == UpdatePage(formatted, tail, [View(formatted, tail) EXCEPT !.link = pid])
  IN  /\ phase = "open" /\ HeldPages = {} /\ MayGrow(pager.header)
      /\ pager' = [linked EXCEPT !.last_heap_page_id = pid]
      /\ owned' = owned \cup {pid}
      /\ UNCHANGED <<phase, walk, held, edited>>

(* .flush, between two statements. *)
Flush ==
  /\ phase = "open" /\ HeldPages = {}
  /\ pager' = FlushAll(pager)
  /\ UNCHANGED <<phase, walk, client>>

-----------------------------------------------------------------------------
(* The life of the process *)

Forget(pg) == [pg EXCEPT !.frames = NoFrames, !.header = pg.disk_header]

(* pager_close: flush_all, then the frames go. *)
Close ==
  /\ phase = "open" /\ HeldPages = {}
  /\ pager' = Forget(FlushAll(pager))
  /\ phase' = "down"
  /\ UNCHANGED <<walk, client>>

(* pager_open on an existing file: read the header, then walk the chain.   *)
Open ==
  /\ phase = "down"
  /\ pager' = [pager EXCEPT !.header = pager.disk_header,
                            !.last_heap_page_id = FirstHeapPage]
  /\ phase' = "opening" /\ walk' = FirstHeapPage
  /\ UNCHANGED <<client>>

(* Mutant: the walk does not advance. *)
OpenWalkInPlace ==
  /\ phase = "opening" /\ walk # NULL
  /\ pager' = [Unpin(GetPage(pager, walk), walk) EXCEPT !.last_heap_page_id = walk]
  /\ phase' = IF View(pager, walk).link = NULL THEN "open" ELSE "opening"
  /\ UNCHANGED <<walk, client>>

OpenWalk ==
  /\ phase = "opening" /\ walk # NULL
  /\ pager' = [Unpin(GetPage(pager, walk), walk) EXCEPT !.last_heap_page_id = walk]
  /\ walk' = View(pager, walk).link
  /\ phase' = IF View(pager, walk).link = NULL THEN "open" ELSE "opening"
  /\ UNCHANGED <<client>>

-----------------------------------------------------------------------------
Next ==
  \/ \E p \in PageIds : Get(p) \/ Mark(p) \/ Release(p) \/ Free(p)
  \/ \E p \in PageIds, v \in Vals : Edit(p, v)
  \/ Alloc \/ AppendHeapPage \/ Flush
  \/ Close \/ Open \/ OpenWalk

Spec == Init /\ [][Next]_vars
FairSpec == Spec /\ WF_vars(OpenWalk)

-----------------------------------------------------------------------------
(* Properties *)

(* Every variable keeps its type: in particular used_tick and pin_count    *)
(* never run below zero and no link leaves the file.                       *)
TypeOK ==
  /\ pager \in PagerRecord
  /\ phase \in {"open", "opening", "down"}
  /\ walk \in Links
  /\ held \in [PageIds -> Nat]
  /\ edited \in SUBSET PageIds
  /\ owned \in SUBSET PageIds

(* The cache is coherent: no page sits in two frames, and a frame that is  *)
(* not dirty (and not being edited right now) equals the page in the file, *)
(* so dropping it loses nothing.                                           *)
OneFramePerPage ==
  \A i, j \in Frames :
    /\ pager.frames[i].is_valid /\ pager.frames[j].is_valid
    /\ pager.frames[i].page_id = pager.frames[j].page_id
    => i = j
CleanFramesMatchFile ==
  \A i \in Frames :
    LET f == pager.frames[i]
    IN  f.is_valid /\ ~f.is_dirty /\ f.page_id \notin edited
          => f.data = pager.disk[f.page_id]
Coherence == OneFramePerPage /\ CleanFramesMatchFile

(* A page a client holds stays in its frame with exactly the client's pins *)
(* on it, whatever eviction and flushing happen in between, and no call of *)
(* the pager leaks or steals a pin (alloc, free, append and open pin       *)
(* pages of their own).                                                    *)
PinsAreTheClients ==
  \A p \in PageIds :
    IF Cached(pager, p) THEN pager.frames[FrameOf(pager, p)].pin_count = held[p]
                        ELSE held[p] = 0

(* While the client holds fewer than MaxPins pages, pager_get_page has a   *)
(* frame for the next one: the callers never test for NULL.                *)
GetNeverFails ==
  Cardinality(HeldPages) < MaxPins => \A p \in PageIds : CanGet(pager, p)

(* Where the high mark exceeds the pages a caller can hold, as it does in  *)
(* the program, mark_dirty never gives up on its flush with the mark still *)
(* reached: there is always an unpinned dirty frame to write.              *)
DirtyBelowWatermark ==
  HighWatermark > MaxPins /\ LowWatermark < HighWatermark
    => Cardinality(Dirty(pager)) < HighWatermark

(* The chain of pages that starts at head: its n-th page, then NULL.       *)
ChainFrom(head) == Walk([p \in PageIds |-> View(pager, p).link], head, MaxPage)
PagesOn(chain) == {chain[n] : n \in 0 .. MaxPage} \ {NULL}

(* The free list ends, holds only pages formatted as free, and together    *)
(* with the pages the client owns it accounts for every page of the file   *)
(* exactly once: no page is handed out twice and none is lost.             *)
FreeListSound ==
  LET chain == ChainFrom(pager.header.free_page_head)
  IN  /\ chain[MaxPage] = NULL
      /\ \A p \in PagesOn(chain) : View(pager, p).type = "FREE"
      /\ PagesOn(chain) \cap owned = {}
      /\ PagesOn(chain) \cup owned = 1 .. pager.header.next_page_id - 1

(* last_heap_page_id, which is not stored in the file, is the tail of the  *)
(* heap chain, also after the file was closed and pager_open walked the    *)
(* chain again; and the chain misses no heap page.                         *)
TailIsCached ==
  phase = "open" =>
    LET chain == ChainFrom(FirstHeapPage)
    IN  /\ chain[MaxPage] = NULL
        /\ pager.last_heap_page_id \in PagesOn(chain)
        /\ View(pager, pager.last_heap_page_id).link = NULL
        /\ PagesOn(chain) = {p \in owned : View(pager, p).type = "HEAP"}

(* Through its cache the pager behaves as the plain array of pages: every  *)
(* call, whatever it evicts or writes back on the way, is one step of      *)
(* PageStore or none; flushing, closing and reopening are none.            *)
Contents == [p \in PageIds |-> View(pager, p)]
Store == INSTANCE PageStore WITH mem <- Contents, header <- pager.header
ImplementsStore == Store!StoreSpec

(* pager_open's walk over the heap chain of an untorn file ends.           *)
OpenEnds == (phase = "opening") ~> (phase = "open")
=============================================================================
