---------------------------- MODULE PageNumbers ----------------------------
(* The page numbers of a MiniDB file (page_format.h, pager_open). *)
EXTENDS Integers

CONSTANT MaxPage   \* bound: highest page id the file may grow to

ASSUME FileAssumption == MaxPage \in Nat \ {0, 1}

NULL == 0                       \* page id 0 in a link field: "none"
PageIds == 1 .. MaxPage
Links == 0 .. MaxPage

FirstHeapPage == 1              \* header.first_heap_page_id of a new file
FirstRootPage == 2              \* header.root_index_page_id of a new file
=============================================================================
