----------------------------- MODULE PageStore -----------------------------
(***************************************************************************)
(* What the pager promises to the heap and the B+ tree: an array of pages  *)
(* in memory, with no cache, no frames and no write-back.  A page reads as *)
(* it was last written; allocation is a stack of freed pages over a        *)
(* counter.  Flushing, closing and opening the file change nothing.        *)
(***************************************************************************)
EXTENDS Pages

VARIABLES
  mem,       \* page id -> the page
  header     \* the allocator's part of the database header

storeVars == <<mem, header>>

StoreInit ==
  /\ mem = NewFile
  /\ header = NewHeader

(* A client changes the body of a page. *)
StoreWrite ==
  /\ \E p \in PageIds, v \in Vals : mem' = [mem EXCEPT ![p] = WithBody(mem[p], v)]
  /\ UNCHANGED header

NextPage == IF header.free_page_head # NULL THEN header.free_page_head
                                            ELSE header.next_page_id

TakePage ==
  /\ MayGrow(header)
  /\ header' = IF header.free_page_head # NULL
               THEN [header EXCEPT !.free_page_head = mem[header.free_page_head].link]
               ELSE [header EXCEPT !.next_page_id = @ + 1]

StoreAlloc ==
  /\ TakePage
  /\ mem' = [mem EXCEPT ![NextPage] = ZeroPage]

StoreFree ==
  \E p \in PageIds :
    /\ header' = [header EXCEPT !.free_page_head = p]
    /\ mem' = [mem EXCEPT ![p] = FreePage(header.free_page_head)]

(* A page from the allocator becomes the page after "tail" of the chain.   *)
StoreAppendHeap ==
  \E tail \in PageIds :
    /\ TakePage
    /\ mem' = [mem EXCEPT ![NextPage] = EmptyHeapPage, ![tail].link = NextPage]

StoreNext == StoreWrite \/ StoreAlloc \/ StoreFree \/ StoreAppendHeap

StoreSpec == StoreInit /\ [][StoreNext]_storeVars
=============================================================================
