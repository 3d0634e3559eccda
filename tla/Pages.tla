------------------------------- MODULE Pages -------------------------------
(***************************************************************************)
(* Pages of a MiniDB file, as the pager sees them (page_format.h).         *)
(*                                                                         *)
(* Page 0 is the database header and never travels through the page cache: *)
(* it is kept apart as a Header record.  Every other page starts with two  *)
(* words: its type and one page id.  That second word is the next pointer  *)
(* of the heap chain in a heap page and the next pointer of the free list  *)
(* in a free page, so the model has a single field "link" for it; "val"    *)
(* stands for everything behind the two words.                             *)
(***************************************************************************)
EXTENDS PageNumbers, FiniteSets

CONSTANTS
  Vals,      \* what a client can store behind the first two words
  NoVal      \* an all-zero body

ASSUME PagesAssumption == NoVal \in Vals

Page == [type : {"ZERO", "FREE", "HEAP", "INDEX"}, link : Links, val : Vals]

ZeroPage == [type |-> "ZERO", link |-> NULL, val |-> NoVal]
FreePage(next) == [type |-> "FREE", link |-> next, val |-> NoVal]
EmptyHeapPage == [type |-> "HEAP", link |-> NULL, val |-> NoVal]
EmptyLeafPage == [type |-> "INDEX", link |-> NULL, val |-> NoVal]

(* What a client's memcpy of a new body does: a page fresh from the        *)
(* allocator gets its type with the first write.                           *)
WithBody(page, v) ==
  [type |-> IF page.type = "ZERO" THEN "INDEX" ELSE page.type,
   link |-> page.link, val |-> v]

(* The part of db_header_t the pager itself reads and writes.              *)
Header == [free_page_head : Links, next_page_id : 1 .. MaxPage + 1]

NewHeader == [free_page_head |-> NULL, next_page_id |-> 3]
NewFile == [p \in PageIds |-> CASE p = FirstHeapPage -> EmptyHeapPage
                                [] p = FirstRootPage -> EmptyLeafPage
                                [] OTHER -> ZeroPage]

(* The file still has room below the bound for one more page.              *)
MayGrow(header) == header.free_page_head # NULL \/ header.next_page_id <= MaxPage
=============================================================================
