------------------------------ MODULE FrameUse ------------------------------
(***************************************************************************)
(* How bptree.c, table.c, executor.c and main.c use the frames of the      *)
(* pager.  A C function is the sequence of its calls of pager.c and of its *)
(* accesses through the pointers they returned, in the order of the source *)
(* text; what it computes from the bytes is left out.  A pointer is the    *)
(* frame pager_get_page answered with, and goes on pointing there after    *)
(* pager_unpin, whatever page the frame holds by then.                     *)
(*                                                                         *)
(* One function runs, from a cache that holds any pages of the file in any *)
(* order of use: pages are alike to the cache, so the parts they play can  *)
(* be fixed (FirstHeapPage .. Fresh below).                                *)
(***************************************************************************)
EXTENDS PagerCore, SequencesExt

CONSTANTS
  MaxPins,      \* pages a function may have pinned at the same time
  MaxHold       \* pins it may have on one page

ASSUME UseAssumption == MaxPage = 7 /\ MaxPins \in 1 .. NumFrames /\ MaxHold \in Nat \ {0}

(* The parts: an internal node with three leaves side by side, a heap      *)
(* chain of two pages, and the page the allocator gives out next.          *)
Parent == FirstRootPage
Leaf == 3
Sibling == 4
Neighbour == 5
TailPage == 6
Fresh == 7

VARIABLES
  pager,     \* pager_t and the file
  todo,      \* what the function has still to do
  local,     \* its pointers: page id -> the frame last got for it
  held,      \* pins it has taken on each page
  edited,    \* pages it has written and not yet marked dirty
  owned      \* pages in use by tree and heap

vars == <<pager, todo, local, held, edited, owned>>

-----------------------------------------------------------------------------
(* Calls and accesses *)

Op(op, p) == [op |-> op, pid |-> p]
Get(p) == Op("get", p)
Read(p) == Op("read", p)
Write(p) == Op("write", p)
Mark(p) == Op("mark", p)
Release(p) == Op("unpin", p)
Alloc == Op("alloc", Fresh)
Free(p) == Op("free", p)
AppendPage == Op("append", Fresh)

Peek(p) == <<Get(p), Read(p), Release(p)>>
Put(p) == <<Write(p), Mark(p)>>
Update(p) == <<Get(p), Read(p)>> \o Put(p) \o <<Release(p)>>

-----------------------------------------------------------------------------
(* bptree.c: find, insert *)

Find == Peek(Parent) \o Peek(Leaf)
Search == Find \o Peek(Leaf)
InsertInLeaf == Find \o Update(Leaf)

(* The neighbour's back link; the mutant leaves it to the cache to notice. *)
LinkNeighbourUnmarked == <<Get(Neighbour), Read(Neighbour), Write(Neighbour), Release(Neighbour)>>
LinkNeighbour == Update(Neighbour)

SplitLeaf(linked) ==
  <<Get(Leaf), Read(Leaf), Alloc, Get(Fresh)>> \o Put(Fresh)
  \o (IF linked THEN LinkNeighbour ELSE <<>>)
  \o Put(Leaf) \o <<Release(Fresh), Release(Leaf)>>

(* Mutant: the moved children stay pinned until all have their parent.     *)
AdoptTogether == 
  <<Get(Sibling)>> \o Put(Sibling) \o <<Get(Neighbour)>> \o Put(Neighbour)
  \o <<Release(Sibling), Release(Neighbour)>>
Adopt ==
  <<Get(Sibling)>> \o Put(Sibling) \o <<Release(Sibling), Read(Fresh), Get(Neighbour)>>
  \o Put(Neighbour) \o <<Release(Neighbour)>>

SplitInternal ==
  <<Get(Parent), Read(Parent), Alloc, Get(Fresh)>> \o Put(Fresh) \o Adopt
  \o Put(Parent) \o <<Release(Fresh), Release(Parent)>>

(* insert_into_parent of Leaf and its new right neighbour Sibling. *)
SetParent(p) == <<Get(p)>> \o Put(p) \o <<Release(p)>>
GrowRoot ==
  Peek(Leaf) \o <<Alloc>> \o SetParent(Fresh) \o SetParent(Leaf) \o SetParent(Sibling)
InsertSeparator == Peek(Leaf) \o Update(Parent) \o SetParent(Sibling)
PassOn == Peek(Leaf) \o Peek(Parent) \o SetParent(Sibling)   \* then SplitInternal

-----------------------------------------------------------------------------
(* bptree.c: delete *)

DeleteFromLeaf == Find \o Update(Leaf)

(* fix_leaf_after_delete keeps pentries, the pointer into the parent, when *)
(* it unpins the parent, and reads each sibling's page id through it.      *)
LookAtParent == Peek(Leaf) \o Peek(Parent)
ChooseSibling(p) == <<Read(Parent), Get(p), Read(p)>>
ProbeRight(hasRight) ==
  IF hasRight THEN ChooseSibling(Neighbour) \o <<Release(Neighbour)>> ELSE <<>>

(* The new separator is the first key of p; the mutant leaves the parent   *)
(* pinned.                                                                 *)
SetSeparatorHolding(p) ==
  <<Get(Parent), Read(Parent), Get(p), Read(p), Write(Parent), Release(p), Mark(Parent)>>
SetSeparator(p) ==
  <<Get(Parent), Read(Parent), Get(p), Read(p), Write(Parent), Release(p),
    Mark(Parent), Release(Parent)>>

BorrowRight ==
  LookAtParent \o ChooseSibling(Sibling) \o Put(Sibling) \o <<Release(Sibling)>>
  \o Update(Leaf) \o SetSeparator(Sibling)
BorrowLeft(hasRight) ==
  LookAtParent \o ProbeRight(hasRight)
  \o ChooseSibling(Sibling) \o Put(Sibling) \o <<Release(Sibling)>>
  \o Update(Leaf) \o SetSeparator(Leaf)

(* Page gone is merged away, page kept has both halves. *)
Unlink(gone, linked) ==
  (IF linked THEN LinkNeighbour ELSE <<>>) \o <<Free(gone)>> \o Update(Parent)

MergeIntoLeft(hasRight, linked) ==
  LookAtParent \o ProbeRight(hasRight) \o ChooseSibling(Sibling) \o <<Release(Sibling)>>
  \o ChooseSibling(Sibling) \o <<Get(Leaf), Read(Leaf)>> \o Put(Sibling)
  \o <<Release(Sibling), Release(Leaf)>> \o Unlink(Leaf, linked)
MergeRight(linked) ==
  LookAtParent \o ChooseSibling(Sibling) \o <<Release(Sibling), Read(Parent), Get(Leaf), Read(Leaf)>>
  \o <<Get(Sibling), Read(Sibling)>> \o Put(Leaf) \o <<Release(Leaf), Release(Sibling)>>
  \o Unlink(Sibling, linked)

LeaveInternal == Peek(Parent)
ShrinkRoot == Peek(Parent) \o <<Free(Parent)>> \o SetParent(Leaf)

(* print_node and bptree_height over a root and two leaves; cmd_pages.     *)
PrintTree ==
  Peek(Parent) \o <<Get(Parent), Read(Parent)>> \o Peek(Leaf)
  \o <<Read(Parent)>> \o Peek(Sibling) \o <<Release(Parent)>>
Height == Peek(Parent) \o Peek(Leaf)
CountPages == FlattenSeq([p \in 1 .. TailPage |-> Peek(p)])

-----------------------------------------------------------------------------
(* table.c, and the executor around it *)

WalkChain == Peek(FirstHeapPage) \o Peek(TailPage)
InsertInTail == Peek(TailPage) \o Update(TailPage)
InsertInChain == Peek(TailPage) \o Peek(FirstHeapPage) \o Update(FirstHeapPage)
InsertInNewPage == Peek(TailPage) \o WalkChain \o <<AppendPage>> \o Update(Fresh)

(* heap_fetch returns with the page pinned; exec_index_lookup copies the   *)
(* row and unpins.                                                         *)
Fetch == <<Get(TailPage), Read(TailPage), Read(TailPage), Release(TailPage)>>
IndexLookup == Search \o Fetch
DeleteRow == Update(TailPage)

(* heap_scan hands the callback a pointer into the pinned page. *)
Scan ==
  FlattenSeq([i \in 1 .. 2 |->
    LET p == IF i = 1 THEN FirstHeapPage ELSE TailPage
    IN  <<Get(p), Read(p), Read(p), Release(p)>>])

Functions ==
  {Search, InsertInLeaf, SplitInternal, GrowRoot, InsertSeparator, PassOn,
   DeleteFromLeaf, BorrowRight, LeaveInternal, ShrinkRoot, PrintTree, Height, CountPages,
   InsertInTail, InsertInChain, InsertInNewPage, IndexLookup, DeleteRow, Scan}
  \cup {SplitLeaf(linked) : linked \in BOOLEAN}
  \cup {BorrowLeft(hasRight) : hasRight \in BOOLEAN}
  \cup {MergeRight(linked) : linked \in BOOLEAN}
  \cup {MergeIntoLeft(FALSE, linked) : linked \in BOOLEAN} \cup {MergeIntoLeft(TRUE, TRUE)}

-----------------------------------------------------------------------------
(* The cache a function finds: any pages, the older the lower the frame.   *)

InUse == 1 .. TailPage
FileContents(recycled) ==
  [p \in PageIds |->
     CASE p = FirstHeapPage -> [EmptyHeapPage EXCEPT !.link = TailPage]
       [] p = TailPage -> EmptyHeapPage
       [] p = Fresh -> IF recycled THEN FreePage(NULL) ELSE ZeroPage
       [] OTHER -> EmptyLeafPage]
HeaderAtStart(recycled) ==
  IF recycled THEN [free_page_head |-> Fresh, next_page_id |-> Fresh + 1]
              ELSE [free_page_head |-> NULL, next_page_id |-> Fresh]

LoadedAtStart(recycled, loaded, dirty) ==
  [i \in Frames |->
     IF i \in DOMAIN loaded
     THEN [page_id |-> loaded[i], is_valid |-> TRUE, is_dirty |-> i \in dirty,
           pin_count |-> 0, used_tick |-> NumFrames - Len(loaded) + i,
           data |-> FileContents(recycled)[loaded[i]]]
     ELSE EmptyFrame]

Init ==
  /\ \E recycled \in BOOLEAN, n \in 0 .. NumFrames :
       \E loaded \in [1 .. n -> InUse \cup IF recycled THEN {Fresh} ELSE {}] :
         \E dirty \in SUBSET (1 .. n) :
           /\ IsInjective(loaded)
           /\ pager = [frames |-> LoadedAtStart(recycled, loaded, dirty),
                       header |-> HeaderAtStart(recycled), last_heap_page_id |-> TailPage,
                       disk |-> FileContents(recycled), disk_header |-> NewHeader]
  /\ todo \in Functions
  /\ local = [p \in PageIds |-> NULL]
  /\ held = [p \in PageIds |-> 0] /\ edited = {} /\ owned = InUse

-----------------------------------------------------------------------------
(* Steps *)

Now(op) == todo # <<>> /\ todo[1].op = op /\ todo' = Tail(todo)
Pid == todo[1].pid

DoGet ==
  /\ Now("get") /\ CanGet(pager, Pid)
  /\ pager' = GetPage(pager, Pid)
  /\ local' = [local EXCEPT ![Pid] = FrameOf(pager', Pid)]
  /\ held' = [held EXCEPT ![Pid] = @ + 1]
  /\ UNCHANGED <<edited, owned>>

DoRead == Now("read") /\ UNCHANGED <<pager, local, held, edited, owned>>

DoWrite ==
  /\ Now("write")
  /\ pager' = [pager EXCEPT !.frames[local[Pid]].data = WithBody(@, NoVal)]
  /\ edited' = edited \cup {Pid}
  /\ UNCHANGED <<local, held, owned>>

DoMark ==
  /\ Now("mark")
  /\ pager' = MarkDirty(pager, Pid)
  /\ edited' = edited \ {Pid}
  /\ UNCHANGED <<local, held, owned>>

DoUnpin ==
  /\ Now("unpin")
  /\ pager' = Unpin(pager, Pid)
  /\ held' = [held EXCEPT ![Pid] = @ - 1]
  /\ UNCHANGED <<local, edited, owned>>

DoAlloc ==
  /\ Now("alloc") /\ CanGet(pager, Pid)
  /\ pager' = AllocPage(pager)
  /\ owned' = owned \cup {Pid}
  /\ UNCHANGED <<local, held, edited>>

DoFree ==
  /\ Now("free") /\ CanGet(pager, Pid)
  /\ pager' = PushFreePage(pager, Pid)
  /\ owned' = owned \ {Pid}
  /\ UNCHANGED <<local, held, edited>>

(* heap_insert's new page, formatted, linked after the tail and unpinned.  *)
DoAppend ==
  LET formatted == UpdatePage(AllocPage(pager), Pid, EmptyHeapPage)
      linked == UpdatePage(formatted, TailPage, [View(formatted, TailPage) EXCEPT !.link = Pid])
  IN  /\ Now("append") /\ CanGet(pager, Pid)
      /\ pager' = [linked EXCEPT !.last_heap_page_id = Pid]
      /\ owned' = owned \cup {Pid}
      /\ UNCHANGED <<local, held, edited>>

Next == DoGet \/ DoRead \/ DoWrite \/ DoMark \/ DoUnpin \/ DoAlloc \/ DoFree \/ DoAppend

Spec == Init /\ [][Next]_vars

-----------------------------------------------------------------------------
(* Properties *)

(* No function reads or writes through a pointer into a frame that has     *)
(* been given to another page, not even fix_leaf_after_delete, which reads *)
(* the parent's entries after unpinning it and after loading both siblings.*)
NoStaleAccess ==
  todo # <<>> /\ todo[1].op \in {"read", "write"} =>
    Holds(pager.frames[local[Pid]], Pid)

(* pager_get_page, which no caller tests for NULL, always finds a frame,   *)
(* for the function itself and for the page alloc and free get inside.     *)
FramesAreEnough ==
  todo # <<>> /\ todo[1].op \in {"get", "alloc", "free", "append"} => CanGet(pager, Pid)

(* Every path through every function gives back the pins it took, so that  *)
(* statement after statement finds all frames replaceable.                 *)
PinsGivenBack ==
  todo = <<>> =>
    /\ edited = {}
    /\ \A p \in PageIds : held[p] = 0
    /\ \A i \in Frames : pager.frames[i].pin_count = 0

(* The functions are clients as module Pager assumes them: every step is   *)
(* one of its calls or an access that changes nothing; pages are got only  *)
(* while in use and within MaxPins and MaxHold, unpinned only after an     *)
(* edit was marked, freed only when not held.                              *)
Client == INSTANCE Pager WITH phase <- "open", walk <- NULL
KeepsContract == [][Client!Next]_<<pager, held, edited, owned>>
=============================================================================
