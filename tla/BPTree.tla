------------------------------- MODULE BPTree -------------------------------
(***************************************************************************)
(* The B+ tree index of src/storage/bptree.c over an array of pages (what  *)
(* the pager implements, see PageStore).  bptree_insert and bptree_delete  *)
(* change one leaf and then climb: every function they call on the way up  *)
(* is a step of its own, and "call" is the call in progress, so that the   *)
(* recursion split_internal / insert_into_parent needs no recursion here.  *)
(* The program is single-threaded: no call starts before the last returns. *)
(*                                                                         *)
(* A node is a page: entries holds the first key_count entries of the      *)
(* page's array, what lies behind them is not kept.  Row references are    *)
(* opaque.                                                                 *)
(***************************************************************************)
EXTENDS PageNumbers, LinkedLists, SequencesExt

CONSTANTS
  MaxLeaf,       \* max_leaf_keys      (291 in a page of 4096 bytes)
  MaxInternal,   \* max_internal_keys  (340)
  MaxKey,        \* bound: keys are 1 .. MaxKey
  Refs           \* row references

ASSUME TreeAssumption ==
  /\ MaxLeaf \in Nat \ {0, 1}
  /\ MaxInternal \in Nat \ {0, 1}
  /\ MaxKey \in Nat

MinLeaf == MaxLeaf \div 2
MinInternal == MaxInternal \div 2

Keys == 1 .. MaxKey

VARIABLES
  pages,     \* page id -> the page
  header,    \* root_index_page_id and the allocator's two words
  call       \* the function of bptree.c in progress, with its arguments

vars == <<pages, header, call>>

LeafEntry == [key : Keys, row_ref : Refs]
InternalEntry == [key : Keys, right_child : PageIds]

Node == [type : {"ZERO", "FREE", "HEAP", "LEAF", "INTERNAL"}, parent : Links,
         left : Links, next : Links, prev : Links,
         entries : Seq(LeafEntry) \cup Seq(InternalEntry)]

ZeroNode == [type |-> "ZERO", parent |-> NULL, left |-> NULL,
             next |-> NULL, prev |-> NULL, entries |-> <<>>]
FreeNodeAlone(next) == [ZeroNode EXCEPT !.type = "FREE"]   \* mutant: drops the list
FreeNode(next) == [ZeroNode EXCEPT !.type = "FREE", !.next = next]
LeafNode(parent, next, prev, entries) ==
  [type |-> "LEAF", parent |-> parent, left |-> NULL,
   next |-> next, prev |-> prev, entries |-> entries]
InternalNode(parent, left, entries) ==
  [type |-> "INTERNAL", parent |-> parent, left |-> left,
   next |-> NULL, prev |-> NULL, entries |-> entries]

Call(fn, pid, key, right) == [fn |-> fn, pid |-> pid, key |-> key, right |-> right]
Idle == Call("idle", NULL, 0, NULL)

(* pager_open of a new file leaves an empty heap page and an empty root.   *)
Init ==
  /\ pages = [p \in PageIds |->
                CASE p = FirstHeapPage -> [ZeroNode EXCEPT !.type = "HEAP"]
                  [] p = FirstRootPage -> LeafNode(NULL, NULL, NULL, <<>>)
                  [] OTHER -> ZeroNode]
  /\ header = [root |-> FirstRootPage, free |-> NULL, next |-> 3]
  /\ call = Idle

-----------------------------------------------------------------------------
(* Reading the tree *)

(* leaf_find and internal_find: how many keys lie before, or not after, k. *)
LeafFind(node, k) == Cardinality({i \in DOMAIN node.entries : node.entries[i].key < k})
InternalFindBefore(node, k) == LeafFind(node, k)           \* mutant: < for <=
InternalFind(node, k) == Cardinality({i \in DOMAIN node.entries : node.entries[i].key <= k})

(* All children of an internal node: leftmost_child, then right_child s.   *)
Kids(node) == <<node.left>> \o [i \in DOMAIN node.entries |-> node.entries[i].right_child]

ChildFor(node, k) == Kids(node)[InternalFind(node, k) + 1]

FindLeaf(k) ==
  LET down == [p \in PageIds |-> IF pages[p].type = "LEAF" THEN p ELSE ChildFor(pages[p], k)]
      at[depth \in 0 .. MaxPage] ==
        IF depth = 0 THEN header.root ELSE down[at[depth - 1]]
  IN  at[MaxPage]

Matches(node, k) == {i \in DOMAIN node.entries : node.entries[i].key = k}

(* bptree_search: the row reference of k, as a set of at most one.         *)
Search(k) ==
  LET leaf == pages[FindLeaf(k)]
      i == LeafFind(leaf, k) + 1
  IN  {leaf.entries[j].row_ref : j \in Matches(leaf, k) \cap {i}}

-----------------------------------------------------------------------------
(* Writing pages *)

WithLeafEntry(node, e) ==
  [node EXCEPT !.entries = InsertAt(@, LeafFind(node, e.key) + 1, e)]
WithInternalEntry(node, e) ==
  [node EXCEPT !.entries = InsertAt(@, InternalFind(node, e.key) + 1, e)]
WithoutEntry(node, i) == [node EXCEPT !.entries = RemoveAt(@, i)]

(* The neighbour p of a leaf gets a new prev pointer, if there is one.     *)
LinkBackNever(pgs, p, prev) == pgs                         \* mutant
LinkBack(pgs, p, prev) == IF p = NULL THEN pgs ELSE [pgs EXCEPT ![p].prev = prev]

SetParents(pgs, S, parent) ==
  [p \in PageIds |-> IF p \in S THEN [pgs[p] EXCEPT !.parent = parent] ELSE pgs[p]]

(* pager_alloc_page and pager_free_page *)
MayAlloc == header.free # NULL \/ header.next <= MaxPage
NewPage == IF header.free # NULL THEN header.free ELSE header.next
HeaderKeepingFree == IF header.free # NULL THEN header      \* mutant: page not taken off
                                          ELSE [header EXCEPT !.next = @ + 1]
HeaderAfterAlloc ==
  IF header.free # NULL THEN [header EXCEPT !.free = pages[header.free].next]
                        ELSE [header EXCEPT !.next = @ + 1]

-----------------------------------------------------------------------------
(* bptree_insert *)

(* Mutants: one entry too many; a key that is there already. *)
InsertInFullLeaf(k, r) ==
  LET leaf == FindLeaf(k)
  IN  /\ call = Idle
      /\ Matches(pages[leaf], k) = {}
      /\ Len(pages[leaf].entries) <= MaxLeaf
      /\ pages' = [pages EXCEPT ![leaf] = WithLeafEntry(@, [key |-> k, row_ref |-> r])]
      /\ UNCHANGED <<header, call>>
InsertInLeafTwice(k, r) ==
  LET leaf == FindLeaf(k)
  IN  /\ call = Idle
      /\ Len(pages[leaf].entries) < MaxLeaf
      /\ pages' = [pages EXCEPT ![leaf] = WithLeafEntry(@, [key |-> k, row_ref |-> r])]
      /\ UNCHANGED <<header, call>>

(* The leaf has room: leaf_insert_entry. *)
InsertInLeaf(k, r) ==
  LET leaf == FindLeaf(k)
  IN  /\ call = Idle
      /\ Matches(pages[leaf], k) = {}
      /\ Len(pages[leaf].entries) < MaxLeaf
      /\ pages' = [pages EXCEPT ![leaf] = WithLeafEntry(@, [key |-> k, row_ref |-> r])]
      /\ UNCHANGED <<header, call>>

(* The leaf is full: split_leaf, which passes the first key of the right   *)
(* half to insert_into_parent.                                             *)
SplitLeaf(k, r) ==
  LET leaf == FindLeaf(k)
      node == pages[leaf]
      all == WithLeafEntry(node, [key |-> k, row_ref |-> r]).entries
      split == Len(all) \div 2
      new == NewPage
      rightHalf == LeafNode(node.parent, node.next, leaf, SubSeq(all, split + 1, Len(all)))
  IN  /\ call = Idle
      /\ Matches(node, k) = {}
      /\ Len(node.entries) >= MaxLeaf
      /\ MayAlloc
      /\ pages' = [LinkBack(pages, node.next, new) EXCEPT
                     ![new] = rightHalf,
                     ![leaf].entries = SubSeq(all, 1, split),
                     ![leaf].next = new]
      /\ header' = HeaderAfterAlloc
      /\ call' = Call("insert_into_parent", leaf, all[split + 1].key, new)

(* insert_into_parent of the left page, the separator and the right page.  *)
GrowRoot ==
  LET new == NewPage
      separator == [key |-> call.key, right_child |-> call.right]
  IN  /\ call.fn = "insert_into_parent"
      /\ pages[call.pid].parent = NULL /\ call.pid = header.root
      /\ MayAlloc
      /\ pages' = [SetParents(pages, {call.pid, call.right}, new) EXCEPT
                     ![new] = InternalNode(NULL, call.pid, <<separator>>)]
      /\ header' = [HeaderAfterAlloc EXCEPT !.root = new]
      /\ call' = Idle

HasParent == ~(pages[call.pid].parent = NULL /\ call.pid = header.root)

InsertSeparator ==
  LET parent == pages[call.pid].parent
      separator == [key |-> call.key, right_child |-> call.right]
  IN  /\ call.fn = "insert_into_parent" /\ HasParent
      /\ Len(pages[parent].entries) < MaxInternal
      /\ pages' = [pages EXCEPT ![parent] = WithInternalEntry(@, separator),
                                ![call.right].parent = parent]
      /\ call' = Idle
      /\ UNCHANGED header

(* The children of the new right half; the mutant overlooks the leftmost.  *)
MovedChildrenButLeftmost(node) == {node.entries[i].right_child : i \in DOMAIN node.entries}
MovedChildren(node) == Range(Kids(node))

(* The parent is full: split_internal.  The middle key moves up, and the   *)
(* children that move to the right half get their new parent.              *)
SplitInternal ==
  LET parent == pages[call.pid].parent
      node == pages[parent]
      all == WithInternalEntry(node, [key |-> call.key, right_child |-> call.right]).entries
      split == Len(all) \div 2
      middle == all[split + 1]
      new == NewPage
      rightHalf == InternalNode(node.parent, middle.right_child, SubSeq(all, split + 2, Len(all)))
      adopted == SetParents(pages, {call.right}, parent)
  IN  /\ call.fn = "insert_into_parent" /\ HasParent
      /\ Len(node.entries) >= MaxInternal
      /\ MayAlloc
      /\ pages' = [SetParents(adopted, MovedChildren(rightHalf), new) EXCEPT
                     ![new] = rightHalf,
                     ![parent].entries = SubSeq(all, 1, split)]
      /\ header' = HeaderAfterAlloc
      /\ call' = Call("insert_into_parent", parent, middle.key, new)

-----------------------------------------------------------------------------
(* bptree_delete *)

(* Mutant: the entry behind that of the key goes, where there is one. *)
DeleteNext(k) ==
  LET leaf == FindLeaf(k)
      i == LeafFind(pages[leaf], k) + 1
      last == Len(pages[leaf].entries)
  IN  /\ call = Idle
      /\ i \in Matches(pages[leaf], k)
      /\ pages' = [pages EXCEPT ![leaf] = WithoutEntry(@, IF i < last THEN i + 1 ELSE i)]
      /\ call' = Call("fix_leaf_after_delete", leaf, 0, NULL)
      /\ UNCHANGED header

Delete(k) ==
  LET leaf == FindLeaf(k)
      i == LeafFind(pages[leaf], k) + 1
  IN  /\ call = Idle
      /\ i \in Matches(pages[leaf], k)
      /\ pages' = [pages EXCEPT ![leaf] = WithoutEntry(@, i)]
      /\ call' = Call("fix_leaf_after_delete", leaf, 0, NULL)
      /\ UNCHANGED header

(* fix_leaf_after_delete works on the leaf, its parent and the leaf's      *)
(* position among the parent's children (child_idx + 1; 0 when absent).    *)
Leaf == call.pid
Parent == pages[Leaf].parent
Siblings == Kids(pages[Parent])
Position == SelectInSeq(Siblings, LAMBDA p : p = Leaf)

NeedsRepair ==
  /\ Leaf # header.root
  /\ Len(pages[Leaf].entries) < MinLeaf
  /\ Position # 0

LeaveLeaf ==
  /\ call.fn = "fix_leaf_after_delete" /\ ~NeedsRepair
  /\ call' = Idle
  /\ UNCHANGED <<pages, header>>

Repair == call.fn = "fix_leaf_after_delete" /\ NeedsRepair

HasRight == Position < Len(Siblings)
HasLeft == Position > 1
Right == Siblings[Position + 1]
Left == Siblings[Position - 1]
CanLendLast(p) == Len(pages[p].entries) >= MinLeaf         \* mutant: >= for >
CanLend(p) == Len(pages[p].entries) > MinLeaf

(* Mutant: the separator becomes the borrowed key. *)
BorrowRightSeparatorBehind ==
  /\ Repair /\ HasRight /\ CanLend(Right)
  /\ pages' = [pages EXCEPT
                 ![Right] = WithoutEntry(@, 1),
                 ![Leaf] = WithLeafEntry(@, pages[Right].entries[1]),
                 ![Parent].entries[Position].key = pages[Right].entries[1].key]
  /\ call' = Idle
  /\ UNCHANGED header

(* First choice: the right sibling's first entry.  The separator becomes   *)
(* the sibling's new first key.                                            *)
BorrowRight ==
  /\ Repair /\ HasRight /\ CanLend(Right)
  /\ pages' = [pages EXCEPT
                 ![Right] = WithoutEntry(@, 1),
                 ![Leaf] = WithLeafEntry(@, pages[Right].entries[1]),
                 ![Parent].entries[Position].key = pages[Right].entries[2].key]
  /\ call' = Idle
  /\ UNCHANGED header

(* Second choice: the left sibling's last entry.  The separator becomes    *)
(* the leaf's new first key.                                               *)
BorrowLeft ==
  LET last == Len(pages[Left].entries)
      filled == WithLeafEntry(pages[Leaf], pages[Left].entries[last])
  IN  /\ Repair /\ ~(HasRight /\ CanLend(Right)) /\ HasLeft /\ CanLend(Left)
      /\ pages' = [pages EXCEPT
                     ![Left] = WithoutEntry(@, last),
                     ![Leaf] = filled,
                     ![Parent].entries[Position - 1].key = filled.entries[1].key]
      /\ call' = Idle
      /\ UNCHANGED header

MustMerge == Repair /\ ~(HasRight /\ CanLend(Right)) /\ ~(HasLeft /\ CanLend(Left))

(* Mutant: the entries of b go in front. *)
MergeInFront(a, b, separator) ==
  LET parent == Parent
  IN  /\ pages' = [LinkBack(pages, pages[b].next, a) EXCEPT
                     ![a].entries = pages[b].entries \o pages[a].entries,
                     ![a].next = pages[b].next,
                     ![b] = FreeNode(header.free),
                     ![parent] = WithoutEntry(@, separator)]
      /\ header' = [header EXCEPT !.free = b]
      /\ call' = Call("fix_internal_after_delete", parent, 0, NULL)

(* Mutant: the copy of b starts behind its first entry. *)
MergeButFirst(a, b, separator) ==
  LET parent == Parent
      moved == SubSeq(pages[b].entries, 2, Len(pages[b].entries))
  IN  /\ pages' = [LinkBack(pages, pages[b].next, a) EXCEPT
                     ![a].entries = pages[a].entries \o moved,
                     ![a].next = pages[b].next,
                     ![b] = FreeNode(header.free),
                     ![parent] = WithoutEntry(@, separator)]
      /\ header' = [header EXCEPT !.free = b]
      /\ call' = Call("fix_internal_after_delete", parent, 0, NULL)

(* Leaf b is appended to leaf a and freed, its separator leaves the parent *)
(* and fix_internal_after_delete looks at the parent.                      *)
Merge(a, b, separator) ==
  LET parent == Parent
  IN  /\ pages' = [LinkBack(pages, pages[b].next, a) EXCEPT
                     ![a].entries = pages[a].entries \o pages[b].entries,
                     ![a].next = pages[b].next,
                     ![b] = FreeNode(header.free),
                     ![parent] = WithoutEntry(@, separator)]
      /\ header' = [header EXCEPT !.free = b]
      /\ call' = Call("fix_internal_after_delete", parent, 0, NULL)

MergeIntoLeft == MustMerge /\ HasLeft /\ Merge(Left, Leaf, Position - 1)
MergeRight == MustMerge /\ ~HasLeft /\ HasRight /\ Merge(Leaf, Right, 1)

(* The leaf is its parent's only child.  The code takes the merge branch   *)
(* for child_idx 0 all the same: it reads entries[0] beyond key_count as   *)
(* its right sibling, frees that page, and delete_entry_from_internal,     *)
(* whose bound key_count - 1 wraps to 2^32 - 1, shifts entries through all *)
(* of memory.  The process does not survive it.                            *)
MergeMissingSibling ==
  /\ MustMerge /\ ~HasLeft /\ ~HasRight
  /\ call' = Call("aborted", Leaf, 0, NULL)
  /\ UNCHANGED <<pages, header>>

(* fix_internal_after_delete: an empty root gives way to its only child.   *)
ShrinkRoot ==
  LET root == header.root
      child == pages[root].left
  IN  /\ call.fn = "fix_internal_after_delete"
      /\ call.pid = root /\ pages[root].entries = <<>>
      /\ pages' = [pages EXCEPT ![root] = FreeNode(header.free), ![child].parent = NULL]
      /\ header' = [header EXCEPT !.free = root, !.root = child]
      /\ call' = Idle

(* Mutant: an underfull node is waited for. *)
LeaveInternalHalfFull ==
  /\ call.fn = "fix_internal_after_delete"
  /\ ~(call.pid = header.root /\ pages[call.pid].entries = <<>>)
  /\ Len(pages[call.pid].entries) >= MinInternal
  /\ call' = Idle
  /\ UNCHANGED <<pages, header>>

(* Any other node is left as it is, also below min_internal_keys. *)
LeaveInternal ==
  /\ call.fn = "fix_internal_after_delete"
  /\ ~(call.pid = header.root /\ pages[call.pid].entries = <<>>)
  /\ call' = Idle
  /\ UNCHANGED <<pages, header>>

-----------------------------------------------------------------------------
Continue ==
  \/ GrowRoot \/ InsertSeparator \/ SplitInternal
  \/ LeaveLeaf \/ BorrowRight \/ BorrowLeft
  \/ MergeIntoLeft \/ MergeRight \/ MergeMissingSibling
  \/ ShrinkRoot \/ LeaveInternal

Next ==
  \/ \E k \in Keys, r \in Refs : InsertInLeaf(k, r) \/ SplitLeaf(k, r)
  \/ \E k \in Keys : Delete(k)
  \/ Continue

Spec == Init /\ [][Next]_vars

(* A call, once started, runs to its end: nothing else runs meanwhile.     *)
FairSpec == Spec /\ WF_vars(Continue)

-----------------------------------------------------------------------------
(* The tree as a whole *)

(* The nodes at each depth, from left to right. *)
Levels ==
  LET level[depth \in 0 .. MaxPage] ==
        IF depth = 0 THEN <<header.root>>
        ELSE LET above == level[depth - 1]
             IN  FlattenSeq([i \in DOMAIN above |->
                   IF pages[above[i]].type = "INTERNAL" THEN Kids(pages[above[i]])
                                                        ELSE <<>>])
  IN  level

(* Everything that can be reached from the root. *)
TreeNodes ==
  LET reached[depth \in 0 .. MaxPage] ==
        IF depth = 0 THEN {header.root}
        ELSE LET above == reached[depth - 1]
             IN  above \cup UNION {Range(Kids(pages[p])) :
                                     p \in {q \in above : pages[q].type = "INTERNAL"}}
  IN  reached[MaxPage]

(* Every child pointer of the tree, as parent and position. *)
ChildPointers ==
  UNION {{<<p, i>> : i \in DOMAIN Kids(pages[p])} :
           p \in {q \in TreeNodes : pages[q].type = "INTERNAL"}}
Child(pointer) == Kids(pages[pointer[1]])[pointer[2]]

(* The pages from p on along their next pointers. *)
Following(p) == NodesFrom([q \in PageIds |-> pages[q].next], p, MaxPage)

(* The leaves along their next pointers, starting with the leftmost one.   *)
(* Between a split and the insertion of its separator this is the only way *)
(* to the new leaf.                                                        *)
LeafChain == Following(FindLeaf(0))

ChainedEntries ==
  LET chain == LeafChain
  IN  FlattenSeq([i \in DOMAIN chain |-> pages[chain[i]].entries])

(* What the index holds: the entries of every page formatted as a leaf.    *)
LeafPages == {p \in PageIds : pages[p].type = "LEAF"}
Dictionary ==
  UNION {{<<e.key, e.row_ref>> : e \in Range(pages[p].entries)} : p \in LeafPages}

FreePages == Range(Following(header.free))

-----------------------------------------------------------------------------
(* Properties *)

(* Every page is a node within the bounds of its array, and the argument   *)
(* of a pending call is a page of the file.                                *)
TypeOK ==
  /\ pages \in [PageIds -> Node]
  /\ \A p \in PageIds : Len(pages[p].entries) <=
       IF pages[p].type = "LEAF" THEN MaxLeaf ELSE MaxInternal
  /\ header \in [root : PageIds, free : Links, next : 1 .. MaxPage + 1]
  /\ call \in [fn : {"idle", "insert_into_parent", "fix_leaf_after_delete",
                     "fix_internal_after_delete", "aborted"},
               pid : Links, key : 0 .. MaxKey, right : Links]

(* bptree_search finds every key the leaves hold, with its own row         *)
(* reference, and no other: separators route to the right leaf through     *)
(* every split, borrow and merge.                                          *)
SearchIsExact ==
  call = Idle =>
    LET dictionary == Dictionary
    IN  \A k \in Keys : Search(k) = {r \in Refs : <<k, r>> \in dictionary}

(* Along the leaf chain keys ascend strictly, at every step of every call: *)
(* the binary searches are entitled to sorted arrays and no key is there   *)
(* twice.                                                                  *)
KeysAscend ==
  LET entries == ChainedEntries
  IN  \A i \in 1 .. Len(entries) - 1 : entries[i].key < entries[i + 1].key

(* The chain of leaves is the bottom level of the tree read from left to   *)
(* right, forwards and backwards, and all leaves are equally deep.         *)
LeavesAreLinked ==
  call = Idle =>
    LET levels == Levels
        chain == LeafChain
    IN  /\ \E depth \in 0 .. MaxPage :
             /\ levels[depth] = chain
             /\ \A d \in 0 .. depth - 1 :
                  \A p \in Range(levels[d]) : pages[p].type = "INTERNAL"
        /\ Range(chain) = LeafPages
        /\ \A i \in DOMAIN chain :
             pages[chain[i]].prev = IF i = 1 THEN NULL ELSE chain[i - 1]

(* Parent pointers are the inverse of the child pointers. *)
ParentsMatchChildren ==
  call = Idle =>
    /\ pages[header.root].parent = NULL
    /\ \A p \in TreeNodes : pages[p].type = "INTERNAL" =>
         \A c \in Range(Kids(pages[p])) : pages[c].parent = p

(* After every call the three kinds of pointer agree: child, parent and    *)
(* sibling.  Splits and merges relink the leaves on both sides and across  *)
(* parents; split_internal and root changes redirect parent pointers one   *)
(* by one; insert_into_parent and fix_leaf_after_delete climb by them.     *)
TreeIsLinked == LeavesAreLinked /\ ParentsMatchChildren

(* The tree, the free list and the heap's page share the file without      *)
(* overlap and without loss: no node is freed while it is still referenced *)
(* or referenced twice, and no page is leaked by a merge.                  *)
PagesAccounted ==
  call = Idle =>
    LET nodes == TreeNodes
        pointers == ChildPointers
    IN  /\ nodes \cap FreePages = {}
        /\ nodes \cup FreePages \cup {FirstHeapPage} = 1 .. header.next - 1
        /\ \A p \in FreePages : pages[p].type = "FREE"
        /\ \A p \in nodes : pages[p].type \in {"LEAF", "INTERNAL"}
        /\ \A one \in pointers :
             /\ Child(one) # header.root
             /\ \A other \in pointers : Child(one) = Child(other) => one = other

(* A leaf other than the root is at least half full after every call.      *)
LeavesHalfFull ==
  call = Idle =>
    \A p \in TreeNodes \ {header.root} :
      pages[p].type = "LEAF" => Len(pages[p].entries) >= MinLeaf

(* Seen through its leaves the tree is the dictionary Index: it changes by *)
(* one pair when a call starts, and splits, borrows, merges and root       *)
(* changes neither lose nor add an entry.  And the pair is the one that    *)
(* was asked for: bptree_insert(k, r) adds <<k, r>>, bptree_delete(k)      *)
(* takes the pair of k, and neither leaves the dictionary as it was.       *)
Dict == INSTANCE Index WITH index <- Dictionary, busy <- (call # Idle)
StepsAsCalled ==
  call = Idle =>
    LET added == Dictionary' \ Dictionary
        taken == Dictionary \ Dictionary'
    IN  \/ \E pair \in added : InsertInLeaf(pair[1], pair[2]) \/ SplitLeaf(pair[1], pair[2])
        \/ \E pair \in taken : Delete(pair[1])
ImplementsIndex == Dict!IndexSpec /\ [][StepsAsCalled]_vars

(* Every call returns, unless the process dies in it. *)
CallsReturn == (call # Idle) ~> (call = Idle \/ call.fn = "aborted")

(* Claim of the comments in fix_internal_after_delete: leaving an internal *)
(* node underfull does not affect search, insertion or deletion.           *)
NeverAborts == call.fn # "aborted"
=============================================================================
