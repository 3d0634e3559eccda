---------------------------- MODULE BPTreeProofs ----------------------------
(***************************************************************************)
(* Theorems about BPTree, for every fan-out, key range and file size: its  *)
(* types, that search is exact, that leaves stay half full, that the       *)
(* pointers to parents, children and neighbours agree, that keys ascend    *)
(* along the leaves, that every page of the file is used once, and that    *)
(* the tree implements the dictionary Index.                               *)
(***************************************************************************)
EXTENDS BPTreeCoreProofs

-----------------------------------------------------------------------------
(* The inductive invariant *)

(* No array overflows: a leaf holds MaxLeaf entries, an internal node      *)
(* MaxInternal, any other page none worth counting.                        *)
Sized(pg) ==
  \A p \in PageIds :
    Len(pg[p].entries) <= IF pg[p].type = "LEAF" THEN MaxLeaf ELSE MaxInternal

CallType == [fn : {"idle", "insert_into_parent", "fix_leaf_after_delete",
                   "fix_internal_after_delete", "aborted"},
             pid : Links, key : 0 .. MaxKey, right : Links]

(* The arguments of the call in progress name nodes of the right kind. *)
CallIsSound(pg, c) ==
  /\ c \in CallType
  /\ c.fn = "fix_leaf_after_delete" => c.pid \in LeavesOf(pg)
  /\ c.fn = "fix_internal_after_delete" => c.pid \in InnersOf(pg)
  /\ c.fn = "insert_into_parent" => c.pid \in NodesOf(pg) /\ c.right \in PageIds /\ c.key \in Keys

(* A leaf is half full unless it is the root or the one a delete left with *)
(* one entry too few.  While a separator is on its way up there is no      *)
(* exception for the root: it may be about to get a parent.                *)
Exempt(pg, root, c, p) ==
  \/ p = root /\ c.fn # "insert_into_parent"
  \/ /\ p = c.pid /\ c.fn \in {"fix_leaf_after_delete", "aborted"}
     /\ Len(pg[p].entries) + 1 >= MinLeaf
Filled(pg, root, c) ==
  \A p \in LeavesOf(pg) : Len(pg[p].entries) >= MinLeaf \/ Exempt(pg, root, c, p)

(* The two halves of a split node whose separator has not been inserted.   *)
LeftHalf(c) == IF c.fn = "insert_into_parent" THEN c.pid ELSE NULL
RightHalf(c) == IF c.fn = "insert_into_parent" THEN c.right ELSE NULL

(* The leaves form a list in the order of their intervals: the next leaf   *)
(* begins where its predecessor ends, and points back to it.               *)
Before(pg, lo, hi, p, q) == q \in LeavesOf(pg) /\ lo[q] = hi[p] /\ pg[q].prev = p
LinkedLeaf(pg, lo, hi, p) ==
  /\ hi[p] <= MaxKey + 1
  /\ lo[p] = 0 => pg[p].prev = NULL
  /\ hi[p] = MaxKey + 1 => pg[p].next = NULL
  /\ hi[p] # MaxKey + 1 => Before(pg, lo, hi, p, pg[p].next)
Linked(pg, lo, hi) == \A p \in LeavesOf(pg) : LinkedLeaf(pg, lo, hi, p)

IsTree(pg, root, c) ==
  \E lo, hi, ht :
    /\ Tree(pg, root, LeftHalf(c), RightHalf(c), lo, hi, ht) /\ Linked(pg, lo, hi)
    /\ c.fn = "insert_into_parent" => lo[c.right] = c.key

Good(hp, pg, hd, c) ==
  Allocated(pg, hd, hp) /\ Sized(pg) /\ CallIsSound(pg, c) /\ Filled(pg, hd.root, c)
  /\ IsTree(pg, hd.root, c)

(* hp: the pages that belong to the row heap.                              *)
TreeInv(hp) == Good(hp, pages, header, call)
IInv == TreeInv({FirstHeapPage})

(* Arithmetic on the sizes of nodes: the halves of a full node are neither *)
(* too small nor too large.                                                *)
LEMMA SizeFacts == /\ MinLeaf \in Nat /\ MinLeaf >= 1 /\ 2 * MinLeaf <= MaxLeaf
                   /\ MaxLeaf \in Nat /\ MaxInternal \in Nat /\ MaxInternal >= 2
                   /\ MaxKey \in Nat /\ MaxLeaf >= 2
                   /\ MinLeaf <= (MaxLeaf + 1) \div 2
                   /\ (MaxLeaf + 1) \div 2 + MinLeaf <= MaxLeaf + 1
                   /\ (MaxLeaf + 1) \div 2 \in 1 .. MaxLeaf
                   /\ (MaxInternal + 1) \div 2 \in 1 .. MaxInternal
BY TreeAssumption DEF MinLeaf

(* Outside of insert_into_parent the tree is whole. *)
LEMMA WholeTree ==
  ASSUME NEW pg, NEW root, NEW c, c.fn # "insert_into_parent"
  PROVE  IsTree(pg, root, c) <=>
           \E lo, hi, ht : Tree(pg, root, NULL, NULL, lo, hi, ht) /\ Linked(pg, lo, hi)
BY DEF IsTree, LeftHalf, RightHalf

(* What a tree says of its leaves, spelled out. *)
LEMMA LeafFacts ==
  ASSUME NEW pg, NEW root, NEW a, NEW b, NEW lo, NEW hi, NEW ht,
         Tree(pg, root, a, b, lo, hi, ht), NEW p \in LeavesOf(pg)
  PROVE  /\ p \in PageIds /\ p \in NodesOf(pg) /\ pg[p].type = "LEAF" /\ pg[p] \in Node
         /\ LeafCovers(pg[p], lo[p], hi[p]) /\ lo[p] < hi[p] /\ ht[p] = 0
         /\ pg[p].entries \in Seq(LeafEntry) /\ Ascending(pg[p].entries)
         /\ lo[p] \in Int /\ hi[p] \in Int /\ lo[p] \in Nat /\ hi[p] \in Nat
<1>1. p \in PageIds /\ p \in NodesOf(pg) /\ pg[p].type = "LEAF"
  BY DEF LeavesOf, NodesOf
<1>2. LeafCovers(pg[p], lo[p], hi[p]) /\ lo[p] < hi[p] /\ ht[p] = 0
  BY <1>1 DEF Tree, Ranges
<1>3. pg[p] \in Node /\ lo[p] \in Nat /\ hi[p] \in Nat
  BY <1>1 DEF Tree, Typed
<1> QED BY <1>1, <1>2, <1>3 DEF LeafCovers

-----------------------------------------------------------------------------
(* The list of leaves *)

(* Where no interval and no link of a leaf changes, the list stays.        *)
LEMMA LinksKept ==
  ASSUME NEW pg, NEW lo, NEW hi, Linked(pg, lo, hi), NEW pg2, NEW lo2, NEW hi2,
         LeavesOf(pg2) = LeavesOf(pg),
         \A q \in LeavesOf(pg) :
           /\ pg2[q].next = pg[q].next /\ pg2[q].prev = pg[q].prev
           /\ lo2[q] = lo[q] /\ hi2[q] = hi[q]
  PROVE  Linked(pg2, lo2, hi2)
BY DEF Linked, LinkedLeaf, Before

(* The leaf that begins where another ends is its next leaf. *)
LEMMA NextLeaf ==
  ASSUME NEW lo, NEW hi, NEW ht, Tree(pages, header.root, NULL, NULL, lo, hi, ht),
         Linked(pages, lo, hi), NEW x \in LeavesOf(pages), NEW y \in LeavesOf(pages), hi[x] = lo[y]
  PROVE  pages[x].next = y /\ pages[y].prev = x
<1>1. lo[y] < hi[y] /\ lo[y] \in Nat /\ hi[y] \in Nat
  BY LeafFacts
<1>2. hi[y] <= MaxKey + 1
  BY DEF Linked, LinkedLeaf
<1>3. lo[y] \in 0 .. MaxKey /\ hi[x] # MaxKey + 1
  BY <1>1, <1>2, SizeFacts
<1> DEFINE z == pages[x].next
<1>4. z \in LeavesOf(pages) /\ lo[z] = lo[y] /\ pages[z].prev = x
  BY <1>3 DEF Linked, LinkedLeaf, Before
<1> HIDE DEF z
<1>5. lo[z] < hi[z]
  BY <1>4, LeafFacts
<1>6. lo[y] <= lo[y] /\ lo[z] <= lo[y] /\ lo[y] < hi[z]
  BY <1>1, <1>4, <1>5
<1>7. y = FindLeaf(lo[y])
  BY <1>1, <1>3, <1>6, FindLeafFacts
<1>8. z = FindLeaf(lo[y])
  BY <1>3, <1>4, <1>6, FindLeafFacts
<1> QED BY <1>4, <1>7, <1>8 DEF z

(* The intervals of a set of leaves are those of a tree. *)
Intervals(pg, lo, hi) ==
  \A q \in LeavesOf(pg) : lo[q] \in Nat /\ hi[q] \in Nat /\ lo[q] < hi[q] /\ q # NULL

(* Every tree gives its leaves proper intervals. *)
LEMMA LeavesHaveIntervals ==
  ASSUME NEW pg, NEW root, NEW a, NEW b, NEW lo, NEW hi, NEW ht, Tree(pg, root, a, b, lo, hi, ht)
  PROVE  Intervals(pg, lo, hi)
BY LeafFacts, NullIsNoPage DEF Intervals

LimitMoved(pg, lo, hi, pg2, lo2, hi2, x, y, k) ==
  /\ x \in LeavesOf(pg) /\ y \in LeavesOf(pg) /\ x # y /\ k \in Keys
  /\ pg[x].next = y /\ pg[y].prev = x /\ LeavesOf(pg2) = LeavesOf(pg)
  /\ \A q \in LeavesOf(pg) :
       /\ pg2[q].next = pg[q].next /\ pg2[q].prev = pg[q].prev
       /\ q = y => lo2[q] = k
       /\ q # y => lo2[q] = lo[q]
       /\ q = x => hi2[q] = k
       /\ q # x => hi2[q] = hi[q]

(* Two neighbours move the limit between them. *)
LEMMA LinksMoved ==
  ASSUME NEW pg, NEW lo, NEW hi, Linked(pg, lo, hi), Intervals(pg, lo, hi),
         NEW pg2, NEW lo2, NEW hi2, NEW x, NEW y, NEW k,
         LimitMoved(pg, lo, hi, pg2, lo2, hi2, x, y, k)
  PROVE  Linked(pg2, lo2, hi2)
<1> x \in LeavesOf(pg) /\ y \in LeavesOf(pg) /\ x # y /\ k \in Keys
  BY DEF LimitMoved
<1> pg[x].next = y /\ pg[y].prev = x /\ LeavesOf(pg2) = LeavesOf(pg)
  BY DEF LimitMoved
<1> \A q \in LeavesOf(pg) :
      /\ pg2[q].next = pg[q].next /\ pg2[q].prev = pg[q].prev
      /\ q = y => lo2[q] = k
      /\ q # y => lo2[q] = lo[q]
      /\ q = x => hi2[q] = k
      /\ q # x => hi2[q] = hi[q]
  BY DEF LimitMoved
<1> SUFFICES ASSUME NEW p \in LeavesOf(pg) PROVE LinkedLeaf(pg2, lo2, hi2, p)
  BY DEF Linked
<1>1. k # 0 /\ k # MaxKey + 1 /\ k <= MaxKey + 1
  BY SizeFacts DEF Keys
<1>2. LinkedLeaf(pg, lo, hi, p)
  BY DEF Linked
<1>5. /\ pg2[p].next = pg[p].next /\ pg2[p].prev = pg[p].prev
      /\ p = y => lo2[p] = k
      /\ p # y => lo2[p] = lo[p]
      /\ p = x => hi2[p] = k
      /\ p # x => hi2[p] = hi[p]
  OBVIOUS
<1>6. pg2[y].prev = x /\ lo2[y] = k
  OBVIOUS
<1>3. /\ hi2[p] <= MaxKey + 1
      /\ lo2[p] = 0 => pg2[p].prev = NULL
      /\ hi2[p] = MaxKey + 1 => pg2[p].next = NULL
  <2>1. hi2[p] <= MaxKey + 1 /\ (hi2[p] = MaxKey + 1 => pg2[p].next = NULL)
    BY <1>1, <1>2, <1>5 DEF LinkedLeaf
  <2>2. lo2[p] = 0 => pg2[p].prev = NULL
    BY <1>1, <1>2, <1>5 DEF LinkedLeaf
  <2> QED BY <2>1, <2>2
<1>4. ASSUME hi2[p] # MaxKey + 1 PROVE Before(pg2, lo2, hi2, p, pg2[p].next)
  <2>1. CASE p = x
    <3>1. pg2[p].next = y /\ hi2[p] = k
      BY <2>1, <1>5
    <3> QED BY <3>1, <2>1, <1>6 DEF Before
  <2>2. CASE p # x
    <3> DEFINE z == pg[p].next
    <3>3. hi2[p] = hi[p] /\ pg2[p].next = z
      BY <1>5, <2>2
    <3>4. Before(pg, lo, hi, p, z)
      BY <3>3, <1>2, <1>4 DEF LinkedLeaf
    <3>1. z \in LeavesOf(pg) /\ lo[z] = hi[p] /\ pg[z].prev = p
      BY <3>4 DEF Before
    <3>2. z # y
      BY <3>1, <2>2
    <3> HIDE DEF z
    <3>5. lo2[z] = lo[z] /\ pg2[z].prev = pg[z].prev
      BY <3>1, <3>2
    <3> QED BY <3>1, <3>3, <3>5 DEF Before
  <2> QED BY <2>1, <2>2
<1> QED BY <1>3, <1>4 DEF LinkedLeaf

LeafAdded(pg, lo, hi, pg2, lo2, hi2, x, y, mid) ==
  /\ x \in LeavesOf(pg) /\ y \notin LeavesOf(pg) /\ LeavesOf(pg2) = LeavesOf(pg) \cup {y}
  /\ mid \in Keys /\ lo[x] < mid /\ mid < hi[x] /\ lo2[y] = mid /\ hi2[y] = hi[x]
  /\ pg2[x].next = y /\ pg2[y].next = pg[x].next /\ pg2[y].prev = x
  /\ \A q \in LeavesOf(pg) :
       /\ q # x => pg2[q].next = pg[q].next
       /\ q = pg[x].next => pg2[q].prev = y
       /\ q # pg[x].next => pg2[q].prev = pg[q].prev
       /\ lo2[q] = lo[q]
       /\ q = x => hi2[q] = mid
       /\ q # x => hi2[q] = hi[q]

(* A new leaf y takes over the end of the interval of x. *)
LEMMA LinksSplit ==
  ASSUME NEW pg, NEW lo, NEW hi, Linked(pg, lo, hi), Intervals(pg, lo, hi),
         NEW pg2, NEW lo2, NEW hi2, NEW x, NEW y, NEW mid,
         LeafAdded(pg, lo, hi, pg2, lo2, hi2, x, y, mid)
  PROVE  Linked(pg2, lo2, hi2)
<1> x \in LeavesOf(pg) /\ y \notin LeavesOf(pg) /\ LeavesOf(pg2) = LeavesOf(pg) \cup {y}
  BY DEF LeafAdded
<1> mid \in Keys /\ lo[x] < mid /\ mid < hi[x] /\ lo2[y] = mid /\ hi2[y] = hi[x]
  BY DEF LeafAdded
<1> pg2[x].next = y /\ pg2[y].next = pg[x].next /\ pg2[y].prev = x
  BY DEF LeafAdded
<1> \A q \in LeavesOf(pg) :
      /\ q # x => pg2[q].next = pg[q].next
      /\ q = pg[x].next => pg2[q].prev = y
      /\ q # pg[x].next => pg2[q].prev = pg[q].prev
      /\ lo2[q] = lo[q]
      /\ q = x => hi2[q] = mid
      /\ q # x => hi2[q] = hi[q]
  BY DEF LeafAdded
<1>0. mid \in Nat /\ mid # 0 /\ mid # MaxKey + 1 /\ mid <= MaxKey + 1 /\ x # y
  BY SizeFacts DEF Keys
<1>1. /\ lo[x] \in Nat /\ hi[x] \in Nat /\ LinkedLeaf(pg, lo, hi, x)
      /\ \A q \in LeavesOf(pg) : q # NULL
  BY DEF Linked, Intervals
<1>2. \A q \in LeavesOf(pg) : q = pg[x].next => lo[q] = hi[x] /\ pg[q].prev = x
  BY <1>1 DEF LinkedLeaf, Before
<1>3. hi[x] # 0 /\ hi[x] # lo[x]
  BY <1>0, <1>1
<1>4. \A q \in LeavesOf(pg) : q = pg[x].next => lo[q] # 0 /\ q # x
  BY <1>2, <1>3
<1>5. LinkedLeaf(pg2, lo2, hi2, x)
  <2>3. lo2[x] = lo[x] /\ hi2[x] = mid /\ pg2[x].prev = pg[x].prev
    BY <1>4
  <2>1. Before(pg2, lo2, hi2, x, pg2[x].next)
    BY <2>3 DEF Before
  <2>2. lo2[x] = 0 => pg2[x].prev = NULL
    BY <2>3, <1>1 DEF LinkedLeaf
  <2>4. hi2[x] <= MaxKey + 1 /\ hi2[x] # MaxKey + 1
    BY <2>3, <1>0
  <2> QED BY <2>1, <2>2, <2>4 DEF LinkedLeaf
<1>6. LinkedLeaf(pg2, lo2, hi2, y)
  <2>1. ASSUME hi2[y] # MaxKey + 1 PROVE Before(pg2, lo2, hi2, y, pg2[y].next)
    <3> DEFINE z == pg[x].next
    <3>1. Before(pg, lo, hi, x, z)
      BY <2>1, <1>1 DEF LinkedLeaf
    <3>2. z \in LeavesOf(pg) /\ lo[z] = hi[x]
      BY <3>1 DEF Before
    <3>3. pg2[z].prev = y /\ lo2[z] = lo[z] /\ pg2[y].next = z
      BY <3>2
    <3> HIDE DEF z
    <3> QED BY <3>2, <3>3 DEF Before
  <2>2. /\ hi2[y] <= MaxKey + 1 /\ lo2[y] # 0
        /\ hi2[y] = MaxKey + 1 => pg2[y].next = NULL
    BY <1>0, <1>1 DEF LinkedLeaf
  <2> QED BY <2>1, <2>2 DEF LinkedLeaf
<1>7. ASSUME NEW p \in LeavesOf(pg), p # x PROVE LinkedLeaf(pg2, lo2, hi2, p)
  <2>0. LinkedLeaf(pg, lo, hi, p)
    BY DEF Linked
  <2>1. LinkedLeaf(pg, lo, hi, p) /\ lo2[p] = lo[p] /\ hi2[p] = hi[p] /\ pg2[p].next = pg[p].next
    BY <2>0, <1>7
  <2>4. lo[p] = 0 => pg2[p].prev = pg[p].prev
    BY <1>4
  <2>2. lo[p] = 0 => pg2[p].prev = NULL
    BY <2>0, <2>4 DEF LinkedLeaf
  <2>3. ASSUME hi[p] # MaxKey + 1 PROVE Before(pg2, lo2, hi2, p, pg2[p].next)
    <3> DEFINE z == pg[p].next
    <3>1. z \in LeavesOf(pg) /\ lo[z] = hi[p] /\ pg[z].prev = p
      BY <2>1, <2>3 DEF LinkedLeaf, Before
    <3>2. z # pg[x].next
      BY <3>1, <1>2, <1>7
    <3>3. pg2[p].next = z
      BY <2>1
    <3> HIDE DEF z
    <3>4. pg2[z].prev = pg[z].prev /\ lo2[z] = lo[z] /\ z \in LeavesOf(pg2)
      BY <3>1, <3>2
    <3> QED BY <3>1, <3>3, <3>4, <2>1 DEF Before
  <2> QED BY <2>1, <2>2, <2>3 DEF LinkedLeaf
<1> QED BY <1>5, <1>6, <1>7 DEF Linked

LeafAbsorbed(pg, lo, hi, pg2, lo2, hi2, x, y) ==
  /\ x \in LeavesOf(pg) /\ y \in LeavesOf(pg) /\ x # y /\ hi[x] = lo[y]
  /\ pg[x].next = y /\ pg[y].prev = x
  /\ LeavesOf(pg2) = LeavesOf(pg) \ {y} /\ pg2[x].next = pg[y].next
  /\ \A q \in LeavesOf(pg) \ {y} :
       /\ q # x => pg2[q].next = pg[q].next
       /\ q = pg[y].next => pg2[q].prev = x
       /\ q # pg[y].next => pg2[q].prev = pg[q].prev
       /\ lo2[q] = lo[q]
       /\ q = x => hi2[q] = hi[y]
       /\ q # x => hi2[q] = hi[q]

(* A leaf x takes over the interval of its next leaf y. *)
LEMMA LinksJoined ==
  ASSUME NEW pg, NEW lo, NEW hi, Linked(pg, lo, hi), Intervals(pg, lo, hi),
         NEW pg2, NEW lo2, NEW hi2, NEW x, NEW y,
         LeafAbsorbed(pg, lo, hi, pg2, lo2, hi2, x, y)
  PROVE  Linked(pg2, lo2, hi2)
<1> x \in LeavesOf(pg) /\ y \in LeavesOf(pg) /\ x # y /\ hi[x] = lo[y]
  BY DEF LeafAbsorbed
<1> pg[x].next = y /\ pg[y].prev = x
  BY DEF LeafAbsorbed
<1> LeavesOf(pg2) = LeavesOf(pg) \ {y} /\ pg2[x].next = pg[y].next
  BY DEF LeafAbsorbed
<1> \A q \in LeavesOf(pg) \ {y} :
      /\ q # x => pg2[q].next = pg[q].next
      /\ q = pg[y].next => pg2[q].prev = x
      /\ q # pg[y].next => pg2[q].prev = pg[q].prev
      /\ lo2[q] = lo[q]
      /\ q = x => hi2[q] = hi[y]
      /\ q # x => hi2[q] = hi[q]
  BY DEF LeafAbsorbed
<1>1. /\ lo[x] \in Nat /\ hi[x] \in Nat /\ lo[y] \in Nat /\ hi[y] \in Nat
      /\ lo[x] < hi[x] /\ lo[y] < hi[y]
      /\ LinkedLeaf(pg, lo, hi, x) /\ LinkedLeaf(pg, lo, hi, y)
      /\ \A q \in LeavesOf(pg) : q # NULL
  BY DEF Linked, Intervals
<1>2. \A q \in LeavesOf(pg) : q = pg[y].next => lo[q] = hi[y] /\ pg[q].prev = y
  BY <1>1 DEF LinkedLeaf, Before
<1>3. hi[y] # 0 /\ hi[y] # lo[x] /\ hi[y] # lo[y]
  BY <1>1
<1>4. \A q \in LeavesOf(pg) : q = pg[y].next => lo[q] # 0 /\ q # x /\ q # y
  BY <1>2, <1>3
<1>5. LinkedLeaf(pg2, lo2, hi2, x)
  <2>4. hi2[x] = hi[y] /\ lo2[x] = lo[x] /\ pg2[x].prev = pg[x].prev
    BY <1>4
  <2>1. ASSUME hi[y] # MaxKey + 1 PROVE Before(pg2, lo2, hi2, x, pg2[x].next)
    <3> DEFINE z == pg[y].next
    <3>1. z \in LeavesOf(pg) /\ lo[z] = hi[y] /\ z # y
      BY <2>1, <1>1, <1>4 DEF LinkedLeaf, Before
    <3>2. pg2[z].prev = x /\ lo2[z] = lo[z] /\ z \in LeavesOf(pg2) /\ pg2[x].next = z
      BY <3>1
    <3> HIDE DEF z
    <3> QED BY <3>1, <3>2, <2>4 DEF Before
  <2>2. lo2[x] = 0 => pg2[x].prev = NULL
    BY <2>4, <1>1 DEF LinkedLeaf
  <2>3. hi2[x] = hi[y] /\ hi[y] <= MaxKey + 1 /\ (hi[y] = MaxKey + 1 => pg2[x].next = NULL)
    BY <2>4, <1>1 DEF LinkedLeaf
  <2> QED BY <2>1, <2>2, <2>3 DEF LinkedLeaf
<1>6. ASSUME NEW p \in LeavesOf(pg), p # x, p # y PROVE LinkedLeaf(pg2, lo2, hi2, p)
  <2>0. LinkedLeaf(pg, lo, hi, p)
    BY DEF Linked
  <2>1. LinkedLeaf(pg, lo, hi, p) /\ lo2[p] = lo[p] /\ hi2[p] = hi[p] /\ pg2[p].next = pg[p].next
    BY <2>0, <1>6
  <2>4. lo[p] = 0 => pg2[p].prev = pg[p].prev
    BY <1>4, <1>6
  <2>2. lo[p] = 0 => pg2[p].prev = NULL
    BY <2>0, <2>4 DEF LinkedLeaf
  <2>3. ASSUME hi[p] # MaxKey + 1 PROVE Before(pg2, lo2, hi2, p, pg2[p].next)
    <3> DEFINE z == pg[p].next
    <3>1. z \in LeavesOf(pg) /\ lo[z] = hi[p] /\ pg[z].prev = p
      BY <2>1, <2>3 DEF LinkedLeaf, Before
    <3>2. z # pg[y].next /\ z # y
      BY <3>1, <1>2, <1>6
    <3>3. pg2[p].next = z
      BY <2>1
    <3> HIDE DEF z
    <3>4. pg2[z].prev = pg[z].prev /\ lo2[z] = lo[z] /\ z \in LeavesOf(pg2)
      BY <3>1, <3>2
    <3> QED BY <3>1, <3>3, <3>4, <2>1 DEF Before
  <2> QED BY <2>1, <2>2, <2>3 DEF LinkedLeaf
<1> QED BY <1>5, <1>6 DEF Linked

-----------------------------------------------------------------------------
(* What the index holds *)

DictOf(pg) == UNION {Pairs(pg[p]) : p \in LeavesOf(pg)}

(* Dictionary is the union of what the leaves hold. *)
LEMMA DictionaryIsDictOf == Dictionary = DictOf(pages) /\ Dictionary' = DictOf(pages')
BY DEF Dictionary, DictOf, Pairs, LeavesOf, LeafPages

(* A pair of a leaf is the key and the reference of one of its entries. *)
LEMMA KeyOfPair ==
  ASSUME NEW node, node.entries \in Seq(LeafEntry), NEW pair \in Pairs(node)
  PROVE  /\ pair[1] \in Keys /\ pair[2] \in Refs /\ pair = <<pair[1], pair[2]>>
         /\ \E i \in 1 .. Len(node.entries) : /\ node.entries[i].key = pair[1]
                                              /\ node.entries[i].row_ref = pair[2]
<1>1. PICK i \in 1 .. Len(node.entries) : pair = <<node.entries[i].key, node.entries[i].row_ref>>
  BY PairsByPosition
<1>2. pair \in Keys \X Refs
  BY PairsByPosition
<1> QED BY <1>1, <1>2

(* A pair is held by one leaf only, the one find_leaf finds. *)
LEMMA InItsLeaf ==
  ASSUME NEW lo, NEW hi, NEW ht, Tree(pages, header.root, NULL, NULL, lo, hi, ht),
         NEW p \in LeavesOf(pages), NEW pair \in Pairs(pages[p])
  PROVE  p = FindLeaf(pair[1])
<1>1. pages[p].entries \in Seq(LeafEntry) /\ LeafCovers(pages[p], lo[p], hi[p])
  BY LeafFacts
<1>2. /\ pair[1] \in Keys
      /\ \E i \in 1 .. Len(pages[p].entries) : pages[p].entries[i].key = pair[1]
  BY <1>1, KeyOfPair
<1>3. lo[p] <= pair[1] /\ pair[1] < hi[p]
  BY <1>1, <1>2 DEF LeafCovers
<1>4. pair[1] \in 0 .. MaxKey
  BY <1>2, TreeAssumption DEF Keys
<1> QED BY <1>3, <1>4, FindLeafFacts

(* A key that its leaf does not hold is nowhere in the tree. *)
LEMMA NoMatchNoPair ==
  ASSUME NEW lo, NEW hi, NEW ht, Tree(pages, header.root, NULL, NULL, lo, hi, ht),
         NEW k \in Keys, Matches(pages[FindLeaf(k)], k) = {}
  PROVE  \A pair \in DictOf(pages) : pair[1] # k
<1> SUFFICES ASSUME NEW pair \in DictOf(pages), pair[1] = k PROVE FALSE
  OBVIOUS
<1>1. PICK p \in LeavesOf(pages) : pair \in Pairs(pages[p])
  BY DEF DictOf
<1>2. p = FindLeaf(k)
  BY <1>1, InItsLeaf
<1>3. pages[p].entries \in Seq(LeafEntry)
  BY LeafFacts
<1>4. PICK i \in 1 .. Len(pages[p].entries) : pages[p].entries[i].key = k
  BY <1>1, <1>3, KeyOfPair
<1>5. i \in Matches(pages[p], k)
  BY <1>3, <1>4, EntryFacts DEF Matches
<1> QED BY <1>2, <1>5

(* Two pages change their entries, or become a leaf, or stop being one.    *)
Held(pg, p) == IF p \in LeavesOf(pg) THEN Pairs(pg[p]) ELSE {}

(* Two pages change, and what they hold together grows by E: so does the   *)
(* whole.                                                                  *)
LEMMA DictGrows ==
  ASSUME NEW pg, NEW pg2, NEW x, NEW y, NEW E,
         LeavesOf(pg2) \ {x, y} = LeavesOf(pg) \ {x, y},
         \A p \in LeavesOf(pg) : p # x /\ p # y => pg2[p].entries = pg[p].entries,
         Held(pg2, x) \cup Held(pg2, y) = Held(pg, x) \cup Held(pg, y) \cup E
  PROVE  DictOf(pg2) = DictOf(pg) \cup E
<1>1. \A p \in LeavesOf(pg) : p # x /\ p # y => Pairs(pg2[p]) = Pairs(pg[p])
  BY DEF Pairs
<1>2. ASSUME NEW v \in DictOf(pg2) PROVE v \in DictOf(pg) \cup E
  <2>1. PICK p \in LeavesOf(pg2) : v \in Pairs(pg2[p])
    BY <1>2 DEF DictOf
  <2>2. CASE p \in {x, y}
    <3>1. v \in Held(pg, x) \cup Held(pg, y) \cup E
      BY <2>1, <2>2 DEF Held
    <3> QED BY <3>1 DEF Held, DictOf
  <2>3. CASE p \notin {x, y}
    <3>1. p \in LeavesOf(pg) /\ v \in Pairs(pg[p])
      BY <2>1, <2>3, <1>1
    <3> QED BY <3>1 DEF DictOf
  <2> QED BY <2>2, <2>3
<1>3. ASSUME NEW v \in DictOf(pg) \cup E PROVE v \in DictOf(pg2)
  <2>1. CASE v \in E
    <3>1. v \in Held(pg2, x) \cup Held(pg2, y)
      BY <2>1
    <3> QED BY <3>1 DEF Held, DictOf
  <2>2. CASE v \in DictOf(pg)
    <3>1. PICK p \in LeavesOf(pg) : v \in Pairs(pg[p])
      BY <2>2 DEF DictOf
    <3>2. CASE p \in {x, y}
      <4>1. v \in Held(pg2, x) \cup Held(pg2, y)
        BY <3>1, <3>2 DEF Held
      <4> QED BY <4>1 DEF Held, DictOf
    <3>3. CASE p \notin {x, y}
      <4>1. p \in LeavesOf(pg2) /\ v \in Pairs(pg2[p])
        BY <3>1, <3>3, <1>1
      <4> QED BY <4>1 DEF DictOf
    <3> QED BY <3>2, <3>3
  <2> QED BY <1>3, <2>1, <2>2
<1> QED BY <1>2, <1>3

(* The same leaves with the same entries. *)
LEMMA DictStays ==
  ASSUME NEW pg, NEW pg2, LeavesOf(pg2) = LeavesOf(pg),
         \A p \in LeavesOf(pg) : pg2[p].entries = pg[p].entries
  PROVE  DictOf(pg2) = DictOf(pg)
<1>1. \A p \in LeavesOf(pg) : Pairs(pg2[p]) = Pairs(pg[p])
  BY DEF Pairs
<1> QED BY <1>1 DEF DictOf

-----------------------------------------------------------------------------
(* The steps within one leaf *)

(* One leaf gets other entries. *)
LeafChanged(pg, pg2, x, s) ==
  /\ pg2 \in [PageIds -> Node]
  /\ pg2[x].entries = s
  /\ \A p \in PageIds :
       /\ pg2[p].type = pg[p].type /\ pg2[p].parent = pg[p].parent /\ pg2[p].left = pg[p].left
       /\ pg2[p].next = pg[p].next /\ pg2[p].prev = pg[p].prev
       /\ p # x => pg2[p] = pg[p]

(* Writing one leaf's entries changes nothing else. *)
LEMMA ChangeLeaf ==
  ASSUME NEW pg \in [PageIds -> Node], NEW x \in PageIds, NEW s \in Seq(LeafEntry)
  PROVE  LeafChanged(pg, [pg EXCEPT ![x] = [@ EXCEPT !.entries = s]], x, s)
<1> DEFINE m == [pg[x] EXCEPT !.entries = s]
           pg2 == [pg EXCEPT ![x] = m]
<1>1. pg[x] \in Node /\ s \in Entries
  BY DEF Entries
<1>2. /\ m \in Node /\ m.entries = s /\ m.type = pg[x].type /\ m.parent = pg[x].parent
      /\ m.left = pg[x].left /\ m.next = pg[x].next /\ m.prev = pg[x].prev
  BY <1>1, NewEntries
<1> HIDE DEF m
<1>3. /\ pg2 \in [PageIds -> Node] /\ pg2[x] = m
      /\ \A p \in PageIds : p # x => pg2[p] = pg[p]
  BY <1>2
<1> HIDE DEF pg2
<1>4. LeafChanged(pg, pg2, x, s)
  BY <1>2, <1>3 DEF LeafChanged
<1> QED BY <1>4 DEF pg2, m

(* Rewriting a leaf within its interval and its size keeps allocator, tree *)
(* and sizes.                                                              *)
LEMMA LeafChangeKeeps ==
  ASSUME NEW hp, NEW pg, NEW hd, Allocated(pg, hd, hp), NEW root, NEW lo, NEW hi, NEW ht,
         Tree(pg, root, NULL, NULL, lo, hi, ht), Linked(pg, lo, hi), NEW x \in LeavesOf(pg),
         NEW pg2, NEW s, LeafChanged(pg, pg2, x, s), LeafCovers(pg2[x], lo[x], hi[x]),
         Sized(pg), Len(s) <= MaxLeaf
  PROVE  /\ Allocated(pg2, hd, hp) /\ Tree(pg2, root, NULL, NULL, lo, hi, ht) /\ Sized(pg2)
         /\ LeavesOf(pg2) = LeavesOf(pg) /\ Linked(pg2, lo, hi)
<1>1. /\ pg2 \in [PageIds -> Node] /\ x \in PageIds /\ pg[x].type = "LEAF" /\ x \in NodesOf(pg)
      /\ hd \in HeaderType
  BY DEF LeafChanged, LeavesOf, NodesOf, Allocated
<1>2. \A p \in PageIds : p # x => SameNode(pg[p], pg2[p])
  BY DEF LeafChanged, SameNode
<1>3. pg2[x].type = "LEAF" /\ pg2[x].parent = pg[x].parent
  BY <1>1 DEF LeafChanged
<1>4. Tree(pg2, root, NULL, NULL, lo, hi, ht)
  BY <1>1, <1>2, <1>3, LeafRewrite
<1>5. \A p \in PageIds :
           /\ pg2[p].type = pg[p].type
           /\ p \notin NodesOf(pg) => pg2[p].next = pg[p].next /\ pg2[p].entries = pg[p].entries
  BY <1>1 DEF LeafChanged
<1>6. Allocated(pg2, hd, hp)
  BY <1>1, <1>5, AllocationKept
<1>7. Sized(pg2)
  <2> SUFFICES ASSUME NEW p \in PageIds
               PROVE  Len(pg2[p].entries) <= IF pg2[p].type = "LEAF" THEN MaxLeaf ELSE MaxInternal
    BY DEF Sized
  <2>1. CASE p = x
    BY <2>1, <1>3 DEF LeafChanged
  <2>2. CASE p # x
    BY <2>2 DEF LeafChanged, Sized
  <2> QED BY <2>1, <2>2
<1>8. LeavesOf(pg2) = LeavesOf(pg)
  BY DEF LeafChanged, LeavesOf
<1>9. Linked(pg2, lo, hi)
  <2>1. \A q \in LeavesOf(pg) : pg2[q].next = pg[q].next /\ pg2[q].prev = pg[q].prev
    BY DEF LeafChanged, LeavesOf
  <2> QED BY <2>1, <1>8, LinksKept
<1> QED BY <1>4, <1>6, <1>7, <1>8, <1>9

(* Between two calls there is a whole tree. *)
LEMMA IdleFacts ==
  ASSUME NEW hp, TreeInv(hp), call = Idle
  PROVE  /\ Allocated(pages, header, hp) /\ Sized(pages) /\ Filled(pages, header.root, call)
         /\ pages \in [PageIds -> Node] /\ header \in HeaderType
         /\ \E lo, hi, ht : Tree(pages, header.root, NULL, NULL, lo, hi, ht) /\ Linked(pages, lo, hi)
BY WholeTree DEF TreeInv, Good, Idle, Call, Allocated

(* bptree_insert into a leaf with room adds its pair, for a key that has   *)
(* none.                                                                   *)
LEMMA InsertInLeafKeeps ==
  ASSUME NEW hp, TreeInv(hp), NEW k \in Keys, NEW r \in Refs, InsertInLeaf(k, r)
  PROVE  /\ TreeInv(hp)' /\ Dictionary' = Dictionary \cup {<<k, r>>}
         /\ \A pair \in Dictionary : pair[1] # k
<1> DEFINE x == FindLeaf(k)
           e == [key |-> k, row_ref |-> r]
           s == InsertAt(pages[x].entries, LeafFind(pages[x], e.key) + 1, e)
<1>1. /\ call = Idle /\ Matches(pages[x], k) = {} /\ Len(pages[x].entries) < MaxLeaf
      /\ pages' = [pages EXCEPT ![x] = [@ EXCEPT !.entries = s]]
      /\ header' = header /\ call' = call
  BY DEF InsertInLeaf, WithLeafEntry
<1>2. /\ Allocated(pages, header, hp) /\ Sized(pages) /\ Filled(pages, header.root, call)
      /\ pages \in [PageIds -> Node]
  BY <1>1, IdleFacts
<1>3. PICK lo, hi, ht : Tree(pages, header.root, NULL, NULL, lo, hi, ht) /\ Linked(pages, lo, hi)
  BY <1>1, IdleFacts
<1>4. k \in 0 .. MaxKey
  BY SizeFacts DEF Keys
<1>5. x \in LeavesOf(pages) /\ lo[x] <= k /\ k < hi[x]
  BY <1>3, <1>4, FindLeafFacts
<1>6. e \in LeafEntry /\ e.key = k /\ e.row_ref = r
  BY DEF LeafEntry
<1>7. /\ LeafCovers(pages[x], lo[x], hi[x]) /\ lo[x] \in Int /\ hi[x] \in Int /\ x \in PageIds
      /\ pages[x].entries \in Seq(LeafEntry) /\ Ascending(pages[x].entries)
  BY <1>3, <1>5, LeafFacts
<1> HIDE DEF x, e
<1>8. s \in Seq(LeafEntry)
  <2>1. LeafFind(pages[x], e.key) \in 0 .. Len(pages[x].entries) /\ Len(pages[x].entries) \in Nat
    BY <1>4, <1>6, <1>7, LeafFindFacts, EntryFacts
  <2>2. LeafFind(pages[x], e.key) + 1 \in 1 .. Len(pages[x].entries) + 1
    BY <2>1
  <2> QED BY <2>2, <1>6, <1>7, Insertion
<1>9. LeafChanged(pages, pages', x, s)
  BY <1>1, <1>2, <1>7, <1>8, ChangeLeaf
<1>10. pages'[x].entries = InsertAt(pages[x].entries, LeafFind(pages[x], e.key) + 1, e)
  BY <1>9 DEF LeafChanged
<1>11. /\ LeafCovers(pages'[x], lo[x], hi[x])
       /\ Len(pages'[x].entries) = Len(pages[x].entries) + 1
       /\ Pairs(pages'[x]) = Pairs(pages[x]) \cup {<<k, r>>}
  <2>1. lo[x] <= e.key /\ e.key < hi[x] /\ Matches(pages[x], e.key) = {}
    BY <1>1, <1>5, <1>6
  <2>2. /\ LeafCovers(pages'[x], lo[x], hi[x])
        /\ Len(pages'[x].entries) = Len(pages[x].entries) + 1
        /\ Pairs(pages'[x]) = Pairs(pages[x]) \cup {<<e.key, e.row_ref>>}
    BY SMTT(30), <2>1, <1>6, <1>7, <1>10, LeafInsert
  <2> QED BY <2>2, <1>6
<1> HIDE DEF s
<1>12. Len(pages[x].entries) \in Nat /\ Len(s) <= MaxLeaf
  BY SMTT(30), <1>1, <1>7, <1>9, <1>11, SizeFacts, EntryFacts DEF LeafChanged
<1>13. /\ Allocated(pages', header, hp) /\ Tree(pages', header.root, NULL, NULL, lo, hi, ht)
       /\ Sized(pages') /\ LeavesOf(pages') = LeavesOf(pages) /\ Linked(pages', lo, hi)
  BY <1>2, <1>3, <1>5, <1>9, <1>11, <1>12, LeafChangeKeeps
<1>14. Filled(pages', header.root, call)
  <2> SUFFICES ASSUME NEW p \in LeavesOf(pages)
               PROVE  Len(pages'[p].entries) >= MinLeaf \/ Exempt(pages', header.root, call, p)
    BY <1>13 DEF Filled
  <2>1. Len(pages[p].entries) >= MinLeaf \/ p = header.root
    BY <1>1, <1>2 DEF Filled, Exempt, Idle, Call
  <2>2. p = header.root => Exempt(pages', header.root, call, p)
    BY <1>1 DEF Exempt, Idle, Call
  <2>3. CASE p = x
    BY SMTT(30), <2>1, <2>2, <2>3, <1>11, <1>12, SizeFacts
  <2>4. CASE p # x
    BY <2>1, <2>2, <2>4, <1>9 DEF LeafChanged, LeavesOf
  <2> QED BY <2>3, <2>4
<1>15. CallIsSound(pages', call')
  BY <1>1 DEF TreeInv, Good, CallIsSound, Idle, Call
<1>16. IsTree(pages', header.root, call')
  BY <1>1, <1>13, WholeTree DEF Idle, Call
<1>17. TreeInv(hp)'
  BY <1>1, <1>13, <1>14, <1>15, <1>16 DEF TreeInv, Good
<1>18. DictOf(pages') = DictOf(pages) \cup {<<k, r>>}
  <2>1. Held(pages', x) \cup Held(pages', x) = Held(pages, x) \cup Held(pages, x) \cup {<<k, r>>}
    BY <1>5, <1>11, <1>13 DEF Held
  <2>2. \A p \in LeavesOf(pages) : p # x => pages'[p].entries = pages[p].entries
    BY <1>9 DEF LeafChanged, LeavesOf
  <2> QED BY <2>1, <2>2, <1>13, DictGrows
<1>19. \A pair \in DictOf(pages) : pair[1] # k
  BY <1>1, <1>3, NoMatchNoPair DEF x
<1> QED BY <1>17, <1>18, <1>19, DictionaryIsDictOf

(* bptree_delete takes away one pair; its leaf may now be one entry short. *)
LEMMA DeleteKeeps ==
  ASSUME NEW hp, TreeInv(hp), NEW k \in Keys, Delete(k)
  PROVE  TreeInv(hp)' /\ \E pair \in Dictionary : pair[1] = k /\ Dictionary' = Dictionary \ {pair}
<1> DEFINE x == FindLeaf(k)
           i == LeafFind(pages[x], k) + 1
           s == RemoveAt(pages[x].entries, i)
           pair == <<pages[x].entries[i].key, pages[x].entries[i].row_ref>>
<1>1. /\ call = Idle /\ i \in Matches(pages[x], k)
      /\ pages' = [pages EXCEPT ![x] = [@ EXCEPT !.entries = s]]
      /\ call' = Call("fix_leaf_after_delete", x, 0, NULL)
      /\ header' = header
  BY DEF Delete, WithoutEntry
<1>2. /\ Allocated(pages, header, hp) /\ Sized(pages) /\ Filled(pages, header.root, call)
      /\ pages \in [PageIds -> Node]
  BY <1>1, IdleFacts
<1>3. PICK lo, hi, ht : Tree(pages, header.root, NULL, NULL, lo, hi, ht) /\ Linked(pages, lo, hi)
  BY <1>1, IdleFacts
<1>4. k \in 0 .. MaxKey
  BY SizeFacts DEF Keys
<1>5. x \in LeavesOf(pages) /\ lo[x] <= k /\ k < hi[x]
  BY <1>3, <1>4, FindLeafFacts
<1>7. /\ LeafCovers(pages[x], lo[x], hi[x]) /\ lo[x] \in Int /\ hi[x] \in Int /\ x \in PageIds
      /\ pages[x].entries \in Seq(LeafEntry) /\ Ascending(pages[x].entries)
  BY <1>3, <1>5, LeafFacts
<1>6. i \in 1 .. Len(pages[x].entries) /\ Len(pages[x].entries) \in Nat
  BY <1>1, <1>7, EntryFacts DEF Matches
<1>20. pair \in Pairs(pages[x]) /\ pair[1] = k
  <2>1. pages[x].entries[i].key = k
    BY <1>1 DEF Matches
  <2> QED BY <2>1, <1>6, <1>7, PairsByPosition
<1> HIDE DEF x, i, pair
<1>8. s \in Seq(LeafEntry)
  BY <1>6, <1>7, Removal
<1>9. LeafChanged(pages, pages', x, s)
  BY <1>1, <1>2, <1>7, <1>8, ChangeLeaf
<1>10. pages'[x].entries = RemoveAt(pages[x].entries, i)
  BY <1>9 DEF LeafChanged
<1>11. /\ LeafCovers(pages'[x], lo[x], hi[x])
       /\ Len(pages'[x].entries) = Len(pages[x].entries) - 1
       /\ Pairs(pages'[x]) = Pairs(pages[x]) \ {pair}
  BY <1>6, <1>7, <1>10, LeafRemove DEF pair
<1> HIDE DEF s
<1>12. Len(s) <= MaxLeaf
  <2>1. Len(pages[x].entries) <= MaxLeaf
    BY <1>2, <1>5, <1>7 DEF Sized, LeavesOf
  <2> QED BY <2>1, <1>6, <1>9, <1>11, SizeFacts DEF LeafChanged
<1>13. /\ Allocated(pages', header, hp) /\ Tree(pages', header.root, NULL, NULL, lo, hi, ht)
       /\ Sized(pages') /\ LeavesOf(pages') = LeavesOf(pages) /\ Linked(pages', lo, hi)
  BY <1>2, <1>3, <1>5, <1>9, <1>11, <1>12, LeafChangeKeeps
<1>21. /\ call'.fn = "fix_leaf_after_delete" /\ call'.pid = x /\ call' \in CallType
  BY <1>1, <1>7, PageFacts, SizeFacts DEF Call, CallType
<1>14. Filled(pages', header.root, call')
  <2> SUFFICES ASSUME NEW p \in LeavesOf(pages)
               PROVE  Len(pages'[p].entries) >= MinLeaf \/ Exempt(pages', header.root, call', p)
    BY <1>13 DEF Filled
  <2>1. Len(pages[p].entries) >= MinLeaf \/ p = header.root
    BY <1>1, <1>2 DEF Filled, Exempt, Idle, Call
  <2>2. p = header.root => Exempt(pages', header.root, call', p)
    BY <1>21 DEF Exempt
  <2>3. CASE p = x
    <3>1. Len(pages[p].entries) >= MinLeaf => Len(pages'[p].entries) + 1 >= MinLeaf
      BY <2>3, <1>11, <1>6, SizeFacts
    <3> QED BY <3>1, <2>1, <2>2, <2>3, <1>21 DEF Exempt
  <2>4. CASE p # x
    BY <2>1, <2>2, <2>4, <1>9 DEF LeafChanged, LeavesOf
  <2> QED BY <2>3, <2>4
<1>15. CallIsSound(pages', call')
  BY <1>21, <1>13, <1>5 DEF CallIsSound
<1>16. IsTree(pages', header.root, call')
  BY <1>21, <1>13, WholeTree
<1>17. TreeInv(hp)'
  BY <1>1, <1>13, <1>14, <1>15, <1>16 DEF TreeInv, Good
<1>18. DictOf(pages') = DictOf(pages) \ {pair}
  <2>1. \A p \in LeavesOf(pages) : p # x => pair \notin Pairs(pages[p])
    BY <1>20, <1>3, InItsLeaf DEF x
  <2>2. \A p \in LeavesOf(pages) : p # x => pages'[p].entries = pages[p].entries
    BY <1>9 DEF LeafChanged, LeavesOf
  <2>3. \A p \in LeavesOf(pages) : p # x => Pairs(pages'[p]) = Pairs(pages[p])
    BY <2>2 DEF Pairs
  <2>4. \A p \in LeavesOf(pages) : Pairs(pages'[p]) = Pairs(pages[p]) \ {pair}
    BY <2>1, <2>3, <1>11
  <2> QED BY <2>4, <1>13 DEF DictOf
<1>19. pair \in DictOf(pages)
  BY <1>20, <1>5 DEF DictOf
<1> QED BY <1>17, <1>18, <1>19, <1>20, DictionaryIsDictOf

-----------------------------------------------------------------------------
(* A leaf that a delete has left too small *)

(* The search for child_idx finds the leaf among its parent's children.    *)
LEMMA Found ==
  ASSUME NEW s, NEW v, NEW n \in Nat, Len(s) = n, \E i \in 1 .. n : s[i] = v
  PROVE  LET i == SelectInSeq(s, LAMBDA w : w = v) IN i \in 1 .. n /\ s[i] = v
<1> DEFINE I == {i \in 1 .. n : s[i] = v}
<1>1. I \in SUBSET Nat /\ I # {}
  OBVIOUS
<1>2. \E m \in I : \A i \in I : m <= i
  <2> HIDE DEF I
  <2> QED BY <1>1, LeastElement
<1>3. Min(I) \in I
  BY <1>2 DEF Min
<1>4. SelectInSeq(s, LAMBDA w : w = v) = Min(I)
  BY <1>1 DEF SelectInSeq
<1> QED BY <1>3, <1>4

RepairSound(pg, root, lo, hi, ht, p, m, x) ==
  /\ p \in InnersOf(pg) /\ pg[x].parent = p /\ x # root
  /\ m \in 1 .. Len(pg[p].entries) + 1 /\ Kid(pg[p], m) = x
  /\ \A i \in Positions(pg[p]) : Kid(pg[p], i) \in LeavesOf(pg) /\ Kid(pg[p], i) # root

(* fix_leaf_after_delete finds the leaf among its parent's children, which *)
(* are all leaves.                                                         *)
LEMMA RepairFacts ==
  ASSUME NEW lo, NEW hi, NEW ht, Tree(pages, header.root, NULL, NULL, lo, hi, ht),
         Leaf \in LeavesOf(pages), Leaf # header.root
  PROVE  /\ RepairSound(pages, header.root, lo, hi, ht, Parent, Position, Leaf)
         /\ Siblings = Kids(pages[Parent]) /\ Len(Siblings) = Len(pages[Parent].entries) + 1
         /\ Len(pages[Parent].entries) \in Nat
         /\ \A i \in 1 .. Len(Siblings) : Siblings[i] = Kid(pages[Parent], i)
<1>1. Leaf \in NodesOf(pages) /\ Leaf \in PageIds /\ Leaf # NULL /\ ht[Leaf] = 0
  BY LeafFacts, NullIsNoPage
<1> DEFINE p == pages[Leaf].parent
<1>2. p \in InnersOf(pages) /\ \E i \in Positions(pages[p]) : Kid(pages[p], i) = Leaf
  BY <1>1, PlaceFacts
<1>3. pages[p].entries \in Seq(InternalEntry)
  BY <1>2, SoundFacts
<1>4. /\ DOMAIN Siblings = Positions(pages[p]) /\ Len(Siblings) = Len(pages[p].entries) + 1
      /\ \A i \in Positions(pages[p]) : Siblings[i] = Kid(pages[p], i)
      /\ Len(pages[p].entries) \in Nat
  BY <1>3, KidsByPosition, EntryFacts DEF Siblings, Parent
<1>5. \E i \in 1 .. Len(Siblings) : Siblings[i] = Leaf
  BY <1>2, <1>4 DEF Positions
<1>6. Position \in 1 .. Len(Siblings) /\ Siblings[Position] = Leaf
  <2>1. Len(Siblings) \in Nat
    BY <1>4
  <2> QED BY <2>1, <1>5, Found DEF Position
<1> HIDE DEF p
<1>7. \A i \in Positions(pages[p]) : Kid(pages[p], i) \in LeavesOf(pages) /\ Kid(pages[p], i) # header.root
  <2> SUFFICES ASSUME NEW i \in Positions(pages[p])
               PROVE  Kid(pages[p], i) \in LeavesOf(pages) /\ Kid(pages[p], i) # header.root
    OBVIOUS
  <2>0. \A j \in Positions(pages[p]) : KidSound(pages, header.root, NULL, NULL, lo, hi, ht, p, j)
    BY <1>2 DEF Tree, AllKidsSound
  <2>1. /\ Kid(pages[p], i) \in NodesOf(pages) /\ Kid(pages[p], i) # header.root
        /\ ht[p] = ht[Kid(pages[p], i)] + 1
    BY <2>0 DEF KidSound
  <2>2. PICK j \in Positions(pages[p]) : Kid(pages[p], j) = Leaf
    BY <1>2
  <2>3. ht[p] = ht[Leaf] + 1
    BY <2>2, <2>0 DEF KidSound
  <2> DEFINE c == Kid(pages[p], i)
  <2> HIDE DEF c
  <2>4. c \in PageIds /\ ht[c] \in Nat
    BY <2>1 DEF Tree, Typed, NodesOf, LeavesOf, InnersOf, c
  <2>5. ht[c] = 0
    BY <2>1, <2>3, <2>4, <1>1 DEF c
  <2>6. ~(ht[c] > 0)
    BY <2>5
  <2>7. c \in NodesOf(pages)
    BY <2>1 DEF c
  <2>8. pages[c].type = "INTERNAL" => ht[c] > 0
    BY <2>7 DEF Tree, Ranges
  <2>9. c \in LeavesOf(pages)
    BY <2>6, <2>7, <2>8 DEF NodesOf, LeavesOf, InnersOf
  <2> QED BY <2>1, <2>9 DEF c
<1>8. RepairSound(pages, header.root, lo, hi, ht, Parent, Position, Leaf)
  BY <1>2, <1>4, <1>6, <1>7 DEF RepairSound, Parent, Positions, p
<1> QED BY <1>4, <1>8 DEF Siblings, Parent, Positions, p

(* Steps that change nothing but the call. *)
LEMMA CallEnds ==
  ASSUME NEW hp, TreeInv(hp), call.fn # "insert_into_parent", NEW c, CallIsSound(pages, c),
         c.fn # "insert_into_parent", Filled(pages, header.root, c)
  PROVE  Good(hp, pages, header, c)
<1>1. \E lo, hi, ht : Tree(pages, header.root, NULL, NULL, lo, hi, ht) /\ Linked(pages, lo, hi)
  BY WholeTree DEF TreeInv, Good
<1> QED BY <1>1, WholeTree DEF TreeInv, Good

(* No call in progress is a sound state of the call. *)
LEMMA IdleIsSound ==
  ASSUME NEW pg
  PROVE  CallIsSound(pg, Idle) /\ Idle.fn = "idle" /\ Idle.fn # "insert_into_parent"
BY PageFacts, SizeFacts DEF CallIsSound, Idle, Call, CallType

(* fix_leaf_after_delete returns at once when the leaf is the root or full *)
(* enough.                                                                 *)
LEMMA LeaveLeafKeeps ==
  ASSUME NEW hp, TreeInv(hp), LeaveLeaf
  PROVE  TreeInv(hp)' /\ Dictionary' = Dictionary
<1>1. /\ call.fn = "fix_leaf_after_delete" /\ ~NeedsRepair /\ call' = Idle
      /\ pages' = pages /\ header' = header
  BY DEF LeaveLeaf
<1>2. Leaf \in LeavesOf(pages)
  BY <1>1 DEF TreeInv, Good, CallIsSound, Leaf
<1>3. Leaf = header.root \/ ~(Len(pages[Leaf].entries) < MinLeaf)
  <2> SUFFICES ASSUME Leaf # header.root PROVE ~(Len(pages[Leaf].entries) < MinLeaf)
    OBVIOUS
  <2>1. PICK lo, hi, ht : Tree(pages, header.root, NULL, NULL, lo, hi, ht)
    BY <1>1, WholeTree DEF TreeInv, Good
  <2>2. /\ RepairSound(pages, header.root, lo, hi, ht, Parent, Position, Leaf)
        /\ Len(pages[Parent].entries) \in Nat
    BY <2>1, <1>2, RepairFacts
  <2>3. Position # 0
    BY <2>2 DEF RepairSound
  <2> QED BY <2>3, <1>1 DEF NeedsRepair
<1>4. Filled(pages, header.root, Idle)
  <2> SUFFICES ASSUME NEW p \in LeavesOf(pages)
               PROVE  Len(pages[p].entries) >= MinLeaf \/ p = header.root
    BY IdleIsSound DEF Filled, Exempt
  <2>1. Len(pages[p].entries) >= MinLeaf \/ p = header.root \/ p = Leaf
    BY DEF TreeInv, Good, Filled, Exempt, Leaf
  <2>2. Len(pages[p].entries) \in Nat
    BY <1>1, WholeTree, LeafFacts, EntryFacts DEF TreeInv, Good
  <2> QED BY <2>1, <2>2, <1>3, SizeFacts
<1>5. Good(hp, pages, header, Idle)
  BY <1>1, <1>4, IdleIsSound, CallEnds
<1> QED BY <1>1, <1>5, DictionaryIsDictOf DEF TreeInv

(* The step in which the process dies leaves the pages as they are. *)
LEMMA MergeMissingSiblingKeeps ==
  ASSUME NEW hp, TreeInv(hp), MergeMissingSibling
  PROVE  TreeInv(hp)' /\ Dictionary' = Dictionary
<1> DEFINE c == Call("aborted", Leaf, 0, NULL)
<1>1. /\ call.fn = "fix_leaf_after_delete" /\ call' = c /\ pages' = pages /\ header' = header
  BY DEF MergeMissingSibling, MustMerge, Repair
<1>2. Leaf \in Links
  BY DEF TreeInv, Good, CallIsSound, CallType, Leaf
<1>3. c.fn = "aborted" /\ c.pid = Leaf /\ CallIsSound(pages, c)
  BY <1>2, PageFacts, SizeFacts DEF Call, CallIsSound, CallType
<1> HIDE DEF c
<1>4. Filled(pages, header.root, c)
  BY <1>1, <1>3 DEF TreeInv, Good, Filled, Exempt, Leaf
<1>5. Good(hp, pages, header, c)
  BY <1>1, <1>3, <1>4, CallEnds
<1> QED BY <1>1, <1>5, DictionaryIsDictOf DEF TreeInv

(* fix_internal_after_delete returns without a change for any node but an  *)
(* empty root.                                                             *)
LEMMA LeaveInternalKeeps ==
  ASSUME NEW hp, TreeInv(hp), LeaveInternal
  PROVE  TreeInv(hp)' /\ Dictionary' = Dictionary
<1>1. /\ call.fn = "fix_internal_after_delete" /\ call' = Idle
      /\ pages' = pages /\ header' = header
  BY DEF LeaveInternal
<1>2. Filled(pages, header.root, Idle)
  BY <1>1, IdleIsSound DEF TreeInv, Good, Filled, Exempt
<1>3. Good(hp, pages, header, Idle)
  BY <1>1, <1>2, IdleIsSound, CallEnds
<1> QED BY <1>1, <1>3, DictionaryIsDictOf DEF TreeInv

-----------------------------------------------------------------------------
(* Borrowing *)

(* Two leaves and their parent get other entries. *)
ThreeChanged(pg, pg2, x, s, y, t, p, u) ==
  /\ pg2 \in [PageIds -> Node]
  /\ pg2[x].entries = s /\ pg2[y].entries = t /\ pg2[p].entries = u
  /\ \A q \in PageIds :
       /\ pg2[q].type = pg[q].type /\ pg2[q].parent = pg[q].parent /\ pg2[q].left = pg[q].left
       /\ pg2[q].next = pg[q].next /\ pg2[q].prev = pg[q].prev
       /\ q # x /\ q # y /\ q # p => pg2[q].entries = pg[q].entries

(* Writing the entries of two leaves and their parent changes nothing      *)
(* else.                                                                   *)
LEMMA ChangeThree ==
  ASSUME NEW pg \in [PageIds -> Node], NEW x \in PageIds, NEW y \in PageIds, NEW p \in PageIds,
         x # y, x # p, y # p, NEW s \in Seq(LeafEntry), NEW t \in Seq(LeafEntry),
         NEW u \in Seq(InternalEntry), NEW pg2,
         pg2 = [pg EXCEPT ![y] = [pg[y] EXCEPT !.entries = t], ![x] = [pg[x] EXCEPT !.entries = s],
                          ![p] = [pg[p] EXCEPT !.entries = u]]
  PROVE  ThreeChanged(pg, pg2, x, s, y, t, p, u)
<1> DEFINE a == [pg[x] EXCEPT !.entries = s]
           b == [pg[y] EXCEPT !.entries = t]
           c == [pg[p] EXCEPT !.entries = u]
<1>1. s \in Entries /\ t \in Entries /\ u \in Entries
  BY DEF Entries
<1>2. /\ a \in Node /\ a.entries = s /\ a.type = pg[x].type /\ a.parent = pg[x].parent
      /\ a.left = pg[x].left /\ a.next = pg[x].next /\ a.prev = pg[x].prev
  BY <1>1, NewEntries
<1>3. /\ b \in Node /\ b.entries = t /\ b.type = pg[y].type /\ b.parent = pg[y].parent
      /\ b.left = pg[y].left /\ b.next = pg[y].next /\ b.prev = pg[y].prev
  BY <1>1, NewEntries
<1>4. /\ c \in Node /\ c.entries = u /\ c.type = pg[p].type /\ c.parent = pg[p].parent
      /\ c.left = pg[p].left /\ c.next = pg[p].next /\ c.prev = pg[p].prev
  BY <1>1, NewEntries
<1>5. pg2 = [pg EXCEPT ![y] = b, ![x] = a, ![p] = c]
  OBVIOUS
<1> HIDE DEF a, b, c
<1>8. a \in Node /\ b \in Node /\ c \in Node
  BY <1>2, <1>3, <1>4
<1>6. /\ pg2 \in [PageIds -> Node] /\ pg2[x] = a /\ pg2[y] = b /\ pg2[p] = c
      /\ \A q \in PageIds : q # x /\ q # y /\ q # p => pg2[q] = pg[q]
  BY <1>5, <1>8
<1>7. ASSUME NEW q \in PageIds
      PROVE  /\ pg2[q].type = pg[q].type /\ pg2[q].parent = pg[q].parent /\ pg2[q].left = pg[q].left
             /\ pg2[q].next = pg[q].next /\ pg2[q].prev = pg[q].prev
             /\ q # x /\ q # y /\ q # p => pg2[q].entries = pg[q].entries
  BY <1>2, <1>3, <1>4, <1>6
<1> QED BY <1>2, <1>3, <1>4, <1>6, <1>7 DEF ThreeChanged

(* Moving the limit between two neighbouring leaves keeps the invariant    *)
(* and the dictionary: the common part of both borrows.                    *)
LEMMA BorrowKeeps ==
  ASSUME NEW hp, TreeInv(hp), call.fn = "fix_leaf_after_delete",
         NEW lo, NEW hi, NEW ht, Tree(pages, header.root, NULL, NULL, lo, hi, ht), Linked(pages, lo, hi),
         NEW p \in InnersOf(pages), NEW m \in 1 .. Len(pages[p].entries),
         NEW x \in LeavesOf(pages), NEW y \in LeavesOf(pages), x # y, hi[x] = lo[y],
         x = Kid(pages[p], m), y = Kid(pages[p], m + 1), call.pid \in {x, y},
         NEW k \in Keys, lo[x] < k, k < hi[y], NEW s, NEW t, NEW u,
         ThreeChanged(pages, pages', x, s, y, t, p, u),
         LeafCovers(pages'[x], lo[x], k), LeafCovers(pages'[y], k, hi[y]),
         u = Rekey(pages[p].entries, m, k),
         Len(s) \in MinLeaf .. MaxLeaf, Len(t) \in MinLeaf .. MaxLeaf,
         Pairs(pages'[x]) \cup Pairs(pages'[y]) = Pairs(pages[x]) \cup Pairs(pages[y]),
         header' = header, call' = Idle
  PROVE  TreeInv(hp)' /\ Dictionary' = Dictionary
<1>1. /\ Allocated(pages, header, hp) /\ Sized(pages) /\ Filled(pages, header.root, call)
      /\ header \in HeaderType
  BY DEF TreeInv, Good, Allocated
<1>2. /\ pages' \in [PageIds -> Node] /\ pages'[p].entries = u
      /\ pages'[x].entries = s /\ pages'[y].entries = t
      /\ \A q \in PageIds :
           /\ pages'[q].type = pages[q].type /\ pages'[q].left = pages[q].left
           /\ pages'[q].parent = pages[q].parent /\ pages'[q].next = pages[q].next
           /\ pages'[q].prev = pages[q].prev
           /\ q # p /\ q # x /\ q # y => pages'[q].entries = pages[q].entries
  BY DEF ThreeChanged
<1>3. /\ LeavesOf(pages') = LeavesOf(pages) /\ p \in NodesOf(pages) /\ x \in NodesOf(pages)
      /\ y \in NodesOf(pages) /\ p \notin LeavesOf(pages) /\ p \in PageIds
      /\ pages[p].type = "INTERNAL" /\ pages[x].type = "LEAF" /\ pages[y].type = "LEAF"
  BY <1>2 DEF LeavesOf, InnersOf, NodesOf
<1>4. Tree(pages', header.root, NULL, NULL, [lo EXCEPT ![y] = k], [hi EXCEPT ![x] = k], ht)
  <2>1. \A q \in PageIds :
           /\ pages'[q].type = pages[q].type /\ pages'[q].left = pages[q].left
           /\ pages'[q].parent = pages[q].parent
           /\ q # p /\ q # x /\ q # y => pages'[q].entries = pages[q].entries
    BY <1>2
  <2>2. pages'[p].entries = Rekey(pages[p].entries, m, k)
    BY <1>2
  <2>3. pages' \in [PageIds -> Node]
    BY <1>2
  <2> QED BY <2>1, <2>2, <2>3, Borrow
<1>5. \A q \in PageIds :
           /\ pages'[q].type = pages[q].type
           /\ q \notin NodesOf(pages) => pages'[q].next = pages[q].next /\ pages'[q].entries = pages[q].entries
  BY <1>2, <1>3
<1>6. Allocated(pages', header, hp)
  BY <1>1, <1>2, <1>5, AllocationKept
<1>7. Len(u) = Len(pages[p].entries)
  <2>1. pages[p].entries \in Seq(InternalEntry)
    BY SoundFacts
  <2> QED BY <2>1, RekeyFacts
<1>8. Sized(pages')
  <2> SUFFICES ASSUME NEW q \in PageIds
               PROVE  Len(pages'[q].entries) <= IF pages'[q].type = "LEAF" THEN MaxLeaf ELSE MaxInternal
    BY DEF Sized
  <2>1. Len(pages[q].entries) <= IF pages[q].type = "LEAF" THEN MaxLeaf ELSE MaxInternal
    BY <1>1 DEF Sized
  <2>2. CASE q = x
    BY <2>2, <1>2, <1>3
  <2>3. CASE q = y
    BY <2>3, <1>2, <1>3
  <2>4. CASE q = p
    BY <2>1, <2>4, <1>2, <1>7
  <2>5. CASE q # x /\ q # y /\ q # p
    BY <2>1, <2>5, <1>2
  <2> QED BY <2>2, <2>3, <2>4, <2>5
<1>9. Filled(pages', header.root, Idle)
  <2> SUFFICES ASSUME NEW q \in LeavesOf(pages)
               PROVE  Len(pages'[q].entries) >= MinLeaf \/ q = header.root
    BY <1>3, IdleIsSound DEF Filled, Exempt
  <2>1. CASE q \in {x, y}
    BY <2>1, <1>2, SizeFacts
  <2>2. CASE q \notin {x, y}
    <3>1. Len(pages[q].entries) >= MinLeaf \/ q = header.root
      BY <1>1, <2>2 DEF Filled, Exempt
    <3>2. pages'[q].entries = pages[q].entries
      BY <1>2, <1>3, <2>2 DEF LeavesOf
    <3> QED BY <3>1, <3>2
  <2> QED BY <2>1, <2>2
<1>13. Linked(pages', [lo EXCEPT ![y] = k], [hi EXCEPT ![x] = k])
  <2> DEFINE lo2 == [lo EXCEPT ![y] = k]
             hi2 == [hi EXCEPT ![x] = k]
  <2>1. pages[x].next = y /\ pages[y].prev = x /\ Intervals(pages, lo, hi)
    BY NextLeaf, LeavesHaveIntervals
  <2>2. lo \in [PageIds -> Nat] /\ hi \in [PageIds -> Nat]
    BY DEF Tree, Typed
  <2>3. \A q \in LeavesOf(pages) :
          /\ q = y => lo2[q] = k
          /\ q # y => lo2[q] = lo[q]
          /\ q = x => hi2[q] = k
          /\ q # x => hi2[q] = hi[q]
    BY <2>2 DEF LeavesOf
  <2>4. \A q \in LeavesOf(pages) :
          pages'[q].next = pages[q].next /\ pages'[q].prev = pages[q].prev
    BY <1>2 DEF LeavesOf
  <2> HIDE DEF lo2, hi2
  <2>6. LimitMoved(pages, lo, hi, pages', lo2, hi2, x, y, k)
    BY <2>1, <2>3, <2>4, <1>3 DEF LimitMoved
  <2>5. Linked(pages', lo2, hi2)
    BY <2>1, <2>6, LinksMoved
  <2> QED BY <2>5 DEF lo2, hi2
<1>10. IsTree(pages', header.root, Idle)
  BY <1>4, <1>13, WholeTree, IdleIsSound
<1>11. TreeInv(hp)'
  BY <1>6, <1>8, <1>9, <1>10, IdleIsSound DEF TreeInv, Good
<1>12. DictOf(pages') = DictOf(pages)
  <2> DEFINE E == {}
  <2>1. Held(pages', x) \cup Held(pages', y) = Held(pages, x) \cup Held(pages, y) \cup E
    BY <1>3 DEF Held
  <2>2. \A q \in LeavesOf(pages) : q # x /\ q # y => pages'[q].entries = pages[q].entries
    BY <1>2, <1>3 DEF LeavesOf
  <2>3. LeavesOf(pages') \ {x, y} = LeavesOf(pages) \ {x, y}
    BY <1>3
  <2>5. E = {}
    OBVIOUS
  <2> HIDE DEF E
  <2>4. DictOf(pages') = DictOf(pages) \cup E
    BY SMTT(30), <2>1, <2>2, <2>3, DictGrows
  <2> QED BY <2>4, <2>5
<1> QED BY <1>11, <1>12, DictionaryIsDictOf

(* What a repair finds: the leaf x and its right neighbour y, or y and its *)
(* left neighbour x.                                                       *)
LEMMA LeafPair ==
  ASSUME NEW pg, NEW root, NEW lo, NEW hi, NEW ht, Tree(pg, root, NULL, NULL, lo, hi, ht),
         NEW p \in InnersOf(pg), NEW m \in 1 .. Len(pg[p].entries), NEW x, NEW y,
         x = Kid(pg[p], m), y = Kid(pg[p], m + 1), x \in LeavesOf(pg), y \in LeavesOf(pg)
  PROVE  /\ x \in PageIds /\ y \in PageIds /\ p \in PageIds /\ x # y /\ x # p /\ y # p
         /\ hi[x] = lo[y] /\ lo[x] < hi[x] /\ lo[y] < hi[y]
         /\ lo[x] \in Int /\ hi[x] \in Int /\ lo[y] \in Int /\ hi[y] \in Int
         /\ LeafCovers(pg[x], lo[x], hi[x]) /\ LeafCovers(pg[y], lo[y], hi[y])
         /\ pg[x].entries \in Seq(LeafEntry) /\ pg[y].entries \in Seq(LeafEntry)
         /\ pg[p].entries \in Seq(InternalEntry)
         /\ Len(pg[x].entries) \in Nat /\ Len(pg[y].entries) \in Nat /\ Len(pg[p].entries) \in Nat
<1>1. Neighbours(pg, root, lo, hi, ht, p, m, x, y)
  BY NeighbourFacts
<1>2. x # y /\ hi[x] = lo[y]
  BY <1>1 DEF Neighbours
<1>3. /\ x \in PageIds /\ LeafCovers(pg[x], lo[x], hi[x]) /\ lo[x] < hi[x]
      /\ lo[x] \in Int /\ hi[x] \in Int /\ pg[x].entries \in Seq(LeafEntry)
  BY LeafFacts
<1>4. /\ y \in PageIds /\ LeafCovers(pg[y], lo[y], hi[y]) /\ lo[y] < hi[y]
      /\ lo[y] \in Int /\ hi[y] \in Int /\ pg[y].entries \in Seq(LeafEntry)
  BY LeafFacts
<1>5. p \in PageIds /\ pg[p].entries \in Seq(InternalEntry)
  BY SoundFacts
<1>6. x # p /\ y # p
  BY DEF LeavesOf, InnersOf
<1> QED BY <1>2, <1>3, <1>4, <1>5, <1>6, EntryFacts

(* fix_leaf_after_delete borrowing from the right sibling keeps the        *)
(* invariant and the dictionary.                                           *)
LEMMA BorrowRightKeeps ==
  ASSUME NEW hp, TreeInv(hp), BorrowRight
  PROVE  TreeInv(hp)' /\ Dictionary' = Dictionary
<1> DEFINE x == Leaf
           y == Right
           p == Parent
           m == Position
           e == pages[y].entries[1]
           k == pages[y].entries[2].key
           s == InsertAt(pages[x].entries, LeafFind(pages[x], e.key) + 1, e)
           t == RemoveAt(pages[y].entries, 1)
           u == Rekey(pages[p].entries, m, k)
<1>1. /\ call.fn = "fix_leaf_after_delete" /\ Leaf # header.root
      /\ Len(pages[x].entries) < MinLeaf /\ Position < Len(Siblings)
      /\ Len(pages[y].entries) > MinLeaf
      /\ call' = Idle /\ header' = header
  BY DEF BorrowRight, Repair, NeedsRepair, HasRight, CanLend
<1>2. pages' = [pages EXCEPT ![y] = WithoutEntry(@, 1), ![x] = WithLeafEntry(@, e),
                             ![p].entries[m].key = k]
  BY DEF BorrowRight
<1>3. PICK lo, hi, ht : Tree(pages, header.root, NULL, NULL, lo, hi, ht) /\ Linked(pages, lo, hi)
  BY <1>1, WholeTree DEF TreeInv, Good
<1>4. Leaf \in LeavesOf(pages) /\ pages \in [PageIds -> Node] /\ Sized(pages)
  BY <1>1 DEF TreeInv, Good, CallIsSound, Leaf, Allocated
<1>5. /\ p \in InnersOf(pages) /\ m \in 1 .. Len(pages[p].entries)
      /\ x \in LeavesOf(pages) /\ y \in LeavesOf(pages)
      /\ x = Kid(pages[p], m) /\ y = Kid(pages[p], m + 1) /\ call.pid = x
  <2>1. /\ RepairSound(pages, header.root, lo, hi, ht, Parent, Position, Leaf)
        /\ Len(Siblings) = Len(pages[Parent].entries) + 1
        /\ Len(pages[Parent].entries) \in Nat
        /\ \A i \in 1 .. Len(Siblings) : Siblings[i] = Kid(pages[Parent], i)
    BY <1>1, <1>3, <1>4, RepairFacts
  <2>2. /\ p \in InnersOf(pages) /\ m \in 1 .. Len(pages[p].entries) + 1 /\ Kid(pages[p], m) = x
        /\ \A i \in Positions(pages[p]) : Kid(pages[p], i) \in LeavesOf(pages)
    BY <2>1 DEF RepairSound
  <2>3. /\ m \in 1 .. Len(pages[p].entries) /\ m + 1 \in 1 .. Len(Siblings)
        /\ m + 1 \in Positions(pages[p])
    BY <1>1, <2>1, <2>2 DEF Positions
  <2>4. y = Kid(pages[p], m + 1)
    BY <2>1, <2>3 DEF Right
  <2> QED BY <1>4, <2>2, <2>3, <2>4 DEF Leaf
<1> HIDE DEF x, y, p, m, e, k, s, t, u
<1>6. /\ x \in PageIds /\ y \in PageIds /\ p \in PageIds /\ x # y /\ x # p /\ y # p
      /\ hi[x] = lo[y] /\ lo[x] < hi[x] /\ lo[y] < hi[y]
      /\ lo[x] \in Int /\ hi[x] \in Int /\ lo[y] \in Int /\ hi[y] \in Int
      /\ LeafCovers(pages[x], lo[x], hi[x]) /\ LeafCovers(pages[y], lo[y], hi[y])
      /\ pages[x].entries \in Seq(LeafEntry) /\ pages[y].entries \in Seq(LeafEntry)
      /\ pages[p].entries \in Seq(InternalEntry)
      /\ Len(pages[x].entries) \in Nat /\ Len(pages[y].entries) \in Nat
  BY SMTT(30), <1>3, <1>5, LeafPair
<1>7. 1 \in 1 .. Len(pages[y].entries) /\ 2 \in 1 .. Len(pages[y].entries) /\ Len(pages[y].entries) > 1
  BY <1>1, <1>6, SizeFacts
<1>8. /\ e \in LeafEntry /\ e.key \in Int /\ k \in Keys /\ k \in Int
      /\ lo[y] <= e.key /\ e.key < k /\ k < hi[y]
  BY <1>6, <1>7, EntryFacts DEF LeafCovers, Ascending, e, k
<1>9. Matches(pages[x], e.key) = {}
  <2>1. ASSUME NEW i \in 1 .. Len(pages[x].entries) PROVE pages[x].entries[i].key # e.key
    <3>1. pages[x].entries[i].key < hi[x] /\ pages[x].entries[i].key \in Int
      BY <1>6, EntryFacts DEF LeafCovers
    <3> QED BY <3>1, <1>6, <1>8
  <2> QED BY <2>1, <1>6, EntryFacts DEF Matches
<1>10. s \in Seq(LeafEntry) /\ t \in Seq(LeafEntry) /\ u \in Seq(InternalEntry)
  <2>1. LeafFind(pages[x], e.key) \in 0 .. Len(pages[x].entries)
    BY <1>6, <1>8, LeafFindFacts DEF LeafCovers
  <2>2. LeafFind(pages[x], e.key) + 1 \in 1 .. Len(pages[x].entries) + 1
    BY <2>1, <1>6
  <2>3. s \in Seq(LeafEntry)
    BY <2>2, <1>6, <1>8, Insertion DEF s
  <2>4. t \in Seq(LeafEntry)
    BY <1>6, <1>7, Removal DEF t
  <2> QED BY <2>3, <2>4, <1>5, <1>6, <1>8, RekeyFacts DEF u
<1>11. ThreeChanged(pages, pages', x, s, y, t, p, u)
  <2>1. pages' = [pages EXCEPT ![y] = [pages[y] EXCEPT !.entries = t],
                               ![x] = [pages[x] EXCEPT !.entries = s],
                               ![p] = [pages[p] EXCEPT !.entries = u]]
    BY <1>2, <1>4, <1>6 DEF WithoutEntry, WithLeafEntry, Rekey, s, t, u
  <2> QED BY <2>1, <1>4, <1>6, <1>10, ChangeThree
<1>12. pages'[x].entries = s /\ pages'[y].entries = t
  BY <1>11 DEF ThreeChanged
<1>13. /\ LeafCovers(pages'[x], lo[x], k) /\ Len(s) = Len(pages[x].entries) + 1
       /\ Pairs(pages'[x]) = Pairs(pages[x]) \cup {<<e.key, e.row_ref>>}
  <2>1. LeafCovers(pages[x], lo[x], k)
    BY <1>6, <1>8, LeafWiden
  <2>2. lo[x] <= e.key /\ e.key < k
    BY <1>6, <1>8
  <2>3. pages'[x].entries = InsertAt(pages[x].entries, LeafFind(pages[x], e.key) + 1, e)
    BY <1>12 DEF s
  <2>4. lo[x] \in Int /\ k \in Int /\ e \in LeafEntry
    BY <1>6, <1>8
  <2>5. /\ LeafCovers(pages'[x], lo[x], k)
        /\ Len(pages'[x].entries) = Len(pages[x].entries) + 1
        /\ Pairs(pages'[x]) = Pairs(pages[x]) \cup {<<e.key, e.row_ref>>}
    BY <2>1, <2>2, <2>3, <2>4, <1>9, LeafInsert
  <2> QED BY <2>5, <1>12
<1>14. /\ LeafCovers(pages'[y], k, hi[y]) /\ Len(t) = Len(pages[y].entries) - 1
       /\ Pairs(pages'[y]) = Pairs(pages[y]) \ {<<e.key, e.row_ref>>}
  <2> DEFINE one == 1
  <2>1. /\ pages'[y].entries = RemoveAt(pages[y].entries, one) /\ one \in 1 .. Len(pages[y].entries)
        /\ one = 1 /\ e = pages[y].entries[one]
    BY <1>12, <1>7 DEF t, e
  <2> HIDE DEF one
  <2>2. /\ Len(pages'[y].entries) = Len(pages[y].entries) - 1
        /\ Pairs(pages'[y]) = Pairs(pages[y]) \ {<<pages[y].entries[one].key, pages[y].entries[one].row_ref>>}
        /\ one = 1 /\ Len(pages[y].entries) > 1 => LeafCovers(pages'[y], pages[y].entries[2].key, hi[y])
    BY SMTT(30), <2>1, <1>6, LeafRemove
  <2> QED BY <2>1, <2>2, <1>7, <1>12 DEF k
<1>15. <<e.key, e.row_ref>> \in Pairs(pages[y])
  BY <1>6, <1>7, PairsByPosition DEF e
<1>16. Pairs(pages'[x]) \cup Pairs(pages'[y]) = Pairs(pages[x]) \cup Pairs(pages[y])
  BY <1>13, <1>14, <1>15
<1>17. Len(s) \in MinLeaf .. MaxLeaf /\ Len(t) \in MinLeaf .. MaxLeaf
  <2>1. Len(pages[x].entries) + 1 >= MinLeaf
    <3>1. Len(pages[x].entries) >= MinLeaf \/ Exempt(pages, header.root, call, x)
      BY <1>5 DEF TreeInv, Good, Filled
    <3> QED BY <3>1, <1>1, <1>6, SizeFacts DEF Exempt, x
  <2>2. Len(pages[y].entries) <= MaxLeaf
    BY <1>4, <1>5, <1>6 DEF Sized, LeavesOf
  <2>3. Len(pages[x].entries) < MinLeaf /\ Len(pages[y].entries) > MinLeaf
    BY <1>1 DEF x, y
  <2> QED BY <2>1, <2>2, <2>3, <1>6, <1>13, <1>14, SizeFacts
<1>18. lo[x] < k /\ k < hi[y] /\ u = Rekey(pages[p].entries, m, k) /\ call.pid \in {x, y}
  BY <1>5, <1>6, <1>8 DEF u
<1>19. k \in Keys /\ x # y /\ hi[x] = lo[y]
  BY <1>6, <1>8
<1> QED BY <1>1, <1>3, <1>5, <1>11, <1>13, <1>14, <1>16, <1>17, <1>18, <1>19, BorrowKeeps

(* fix_leaf_after_delete borrowing from the left sibling keeps the         *)
(* invariant and the dictionary.                                           *)
LEMMA BorrowLeftKeeps ==
  ASSUME NEW hp, TreeInv(hp), BorrowLeft
  PROVE  TreeInv(hp)' /\ Dictionary' = Dictionary
<1> DEFINE x == Left
           y == Leaf
           p == Parent
           m == Position - 1
           last == Len(pages[x].entries)
           e == pages[x].entries[last]
           s == RemoveAt(pages[x].entries, last)
           t == InsertAt(pages[y].entries, LeafFind(pages[y], e.key) + 1, e)
           k == t[1].key
           u == Rekey(pages[p].entries, m, k)
<1>1. /\ call.fn = "fix_leaf_after_delete" /\ Leaf # header.root
      /\ Len(pages[y].entries) < MinLeaf /\ Position > 1
      /\ Len(pages[x].entries) > MinLeaf
      /\ call' = Idle /\ header' = header
  BY DEF BorrowLeft, Repair, NeedsRepair, HasLeft, CanLend
<1>2. pages' = [pages EXCEPT ![x] = WithoutEntry(@, last), ![y] = WithLeafEntry(pages[y], e),
                             ![p].entries[m].key = WithLeafEntry(pages[y], e).entries[1].key]
  BY DEF BorrowLeft
<1>3. PICK lo, hi, ht : Tree(pages, header.root, NULL, NULL, lo, hi, ht) /\ Linked(pages, lo, hi)
  BY <1>1, WholeTree DEF TreeInv, Good
<1>4. Leaf \in LeavesOf(pages) /\ pages \in [PageIds -> Node] /\ Sized(pages)
  BY <1>1 DEF TreeInv, Good, CallIsSound, Leaf, Allocated
<1>5. /\ p \in InnersOf(pages) /\ m \in 1 .. Len(pages[p].entries)
      /\ x \in LeavesOf(pages) /\ y \in LeavesOf(pages)
      /\ x = Kid(pages[p], m) /\ y = Kid(pages[p], m + 1) /\ call.pid = y
      /\ x # header.root
  <2>1. /\ RepairSound(pages, header.root, lo, hi, ht, Parent, Position, Leaf)
        /\ Len(Siblings) = Len(pages[Parent].entries) + 1
        /\ Len(pages[Parent].entries) \in Nat
        /\ \A i \in 1 .. Len(Siblings) : Siblings[i] = Kid(pages[Parent], i)
    BY <1>1, <1>3, <1>4, RepairFacts
  <2>2. /\ p \in InnersOf(pages) /\ Position \in 1 .. Len(pages[p].entries) + 1
        /\ Kid(pages[p], Position) = y
        /\ \A i \in Positions(pages[p]) : Kid(pages[p], i) \in LeavesOf(pages) /\ Kid(pages[p], i) # header.root
    BY <2>1 DEF RepairSound
  <2>3. /\ m \in 1 .. Len(pages[p].entries) /\ m \in 1 .. Len(Siblings) /\ m + 1 = Position
        /\ m \in Positions(pages[p])
    BY <1>1, <2>1, <2>2 DEF Positions
  <2>4. x = Kid(pages[p], m)
    BY <2>1, <2>3 DEF Left
  <2> QED BY <1>4, <2>2, <2>3, <2>4 DEF Leaf
<1> HIDE DEF x, y, p, m, e, k, s, t, u
<1>6. /\ x \in PageIds /\ y \in PageIds /\ p \in PageIds /\ x # y /\ x # p /\ y # p
      /\ hi[x] = lo[y] /\ lo[x] < hi[x] /\ lo[y] < hi[y]
      /\ lo[x] \in Int /\ hi[x] \in Int /\ lo[y] \in Int /\ hi[y] \in Int
      /\ LeafCovers(pages[x], lo[x], hi[x]) /\ LeafCovers(pages[y], lo[y], hi[y])
      /\ pages[x].entries \in Seq(LeafEntry) /\ pages[y].entries \in Seq(LeafEntry)
      /\ pages[p].entries \in Seq(InternalEntry)
      /\ Len(pages[x].entries) \in Nat /\ Len(pages[y].entries) \in Nat
  BY SMTT(30), <1>3, <1>5, LeafPair
<1>7. last \in 1 .. Len(pages[x].entries) /\ 1 \in 1 .. Len(pages[x].entries) /\ 1 < last
      /\ last = Len(pages[x].entries)
  <2>1. MinLeaf \in Nat /\ MinLeaf >= 1
    BY SizeFacts
  <2>2. last \in Nat /\ last > MinLeaf /\ last = Len(pages[x].entries)
    BY <1>1, <1>6
  <2>3. last \in Nat /\ last > 1
    <3> HIDE DEF last
    <3> QED BY <2>1, <2>2
  <2> QED BY <2>2, <2>3
<1> HIDE DEF last
<1>8. /\ e \in LeafEntry /\ e.key \in Int /\ e.key \in Keys
      /\ lo[x] < e.key /\ e.key < hi[x]
  <2>1. e \in LeafEntry /\ e.key \in Int /\ e.key \in Keys /\ pages[x].entries[1].key \in Int
    BY <1>6, <1>7, EntryFacts DEF e
  <2>2. pages[x].entries[1].key < e.key /\ lo[x] <= pages[x].entries[1].key /\ e.key < hi[x]
    BY <1>6, <1>7 DEF LeafCovers, Ascending, e
  <2> QED BY <2>1, <2>2, <1>6
<1>20. \A i \in 1 .. Len(pages[y].entries) :
         pages[y].entries[i].key \in Int /\ e.key < pages[y].entries[i].key
  <2> SUFFICES ASSUME NEW i \in 1 .. Len(pages[y].entries)
               PROVE  pages[y].entries[i].key \in Int /\ e.key < pages[y].entries[i].key
    OBVIOUS
  <2>1. lo[y] <= pages[y].entries[i].key /\ pages[y].entries[i].key \in Int
    BY <1>6, EntryFacts DEF LeafCovers
  <2> QED BY SMTT(30), <2>1, <1>6, <1>8
<1>9. Matches(pages[y], e.key) = {}
  <2>1. ASSUME NEW i \in 1 .. Len(pages[y].entries) PROVE pages[y].entries[i].key # e.key
    BY <1>20, <1>8
  <2> QED BY <2>1, <1>6, EntryFacts DEF Matches
<1>21. LeafFind(pages[y], e.key) + 1 = 1
  <2>1. /\ LeafFind(pages[y], e.key) \in 0 .. Len(pages[y].entries)
        /\ \A i \in 1 .. Len(pages[y].entries) :
             pages[y].entries[i].key < e.key <=> i <= LeafFind(pages[y], e.key)
    BY <1>6, <1>8, LeafFindFacts DEF LeafCovers
  <2>2. ASSUME LeafFind(pages[y], e.key) >= 1 PROVE FALSE
    <3>1. 1 \in 1 .. Len(pages[y].entries)
      BY <2>1, <2>2, <1>6
    <3>2. pages[y].entries[1].key < e.key
      BY <2>1, <2>2, <3>1
    <3> QED BY <3>1, <3>2, <1>8, <1>20
  <2> QED BY <2>1, <2>2, <1>6
<1>10. /\ s \in Seq(LeafEntry) /\ t \in Seq(LeafEntry) /\ k = e.key /\ k \in Keys
       /\ u \in Seq(InternalEntry)
  <2> DEFINE one == 1
  <2>1. one \in 1 .. Len(pages[y].entries) + 1 /\ one = 1 /\ LeafFind(pages[y], e.key) + 1 = one
    BY <1>6, <1>21
  <2> HIDE DEF one
  <2>2. t \in Seq(LeafEntry) /\ t[one] = e
    BY <2>1, <1>6, <1>8, Insertion DEF t
  <2>3. k = e.key
    BY <2>1, <2>2 DEF k
  <2>4. s \in Seq(LeafEntry)
    BY <1>6, <1>7, Removal DEF s
  <2> QED BY <2>2, <2>3, <2>4, <1>5, <1>6, <1>8, RekeyFacts DEF u
<1>11. ThreeChanged(pages, pages', x, s, y, t, p, u)
  <2>1. pages' = [pages EXCEPT ![y] = [pages[y] EXCEPT !.entries = t],
                               ![x] = [pages[x] EXCEPT !.entries = s],
                               ![p] = [pages[p] EXCEPT !.entries = u]]
    <3>1. WithLeafEntry(pages[y], e) = [pages[y] EXCEPT !.entries = t]
      BY DEF WithLeafEntry, t
    <3>2. WithLeafEntry(pages[y], e).entries[1].key = k
      <4>1. pages[y] \in Node /\ t \in Entries
        BY <1>4, <1>6, <1>10 DEF Entries
      <4>2. [pages[y] EXCEPT !.entries = t].entries = t
        BY <4>1, NewEntries
      <4> QED BY <3>1, <4>2 DEF k
    <3>3. pages' = [pages EXCEPT ![x] = WithoutEntry(@, last), ![y] = [pages[y] EXCEPT !.entries = t],
                                 ![p].entries[m].key = k]
      BY <1>2, <3>1, <3>2
    <3> QED BY <3>3, <1>4, <1>6 DEF WithoutEntry, Rekey, s, u
  <2> QED BY <2>1, <1>4, <1>6, <1>10, ChangeThree
<1>12. pages'[x].entries = s /\ pages'[y].entries = t
  BY <1>11 DEF ThreeChanged
<1>13. /\ LeafCovers(pages'[y], k, hi[y]) /\ Len(t) = Len(pages[y].entries) + 1
       /\ Pairs(pages'[y]) = Pairs(pages[y]) \cup {<<e.key, e.row_ref>>}
  <2> DEFINE l == e.key
  <2>1. LeafCovers(pages[y], l, hi[y])
    BY <1>6, <1>8, LeafWiden
  <2>2. l <= e.key /\ e.key < hi[y] /\ l = k /\ l \in Int
    BY <1>6, <1>8, <1>10
  <2>3. pages'[y].entries = InsertAt(pages[y].entries, LeafFind(pages[y], e.key) + 1, e)
    BY <1>12 DEF t
  <2> HIDE DEF l
  <2>5. hi[y] \in Int /\ l \in Int /\ e \in LeafEntry /\ l <= e.key /\ e.key < hi[y]
    BY <2>2, <1>6, <1>8
  <2>4. /\ LeafCovers(pages'[y], l, hi[y])
        /\ Len(pages'[y].entries) = Len(pages[y].entries) + 1
        /\ Pairs(pages'[y]) = Pairs(pages[y]) \cup {<<e.key, e.row_ref>>}
    BY <2>1, <2>3, <2>5, <1>9, LeafInsert
  <2> QED BY <2>2, <2>4, <1>12
<1>14. /\ LeafCovers(pages'[x], lo[x], k) /\ Len(s) = Len(pages[x].entries) - 1
       /\ Pairs(pages'[x]) = Pairs(pages[x]) \ {<<e.key, e.row_ref>>}
  <2>1. /\ pages'[x].entries = RemoveAt(pages[x].entries, last)
    BY <1>12 DEF s
  <2>5. last \in 1 .. Len(pages[x].entries)
    BY <1>7
  <2>6. lo[x] \in Int /\ hi[x] \in Int /\ LeafCovers(pages[x], lo[x], hi[x])
    BY <1>6
  <2>2. Len(pages'[x].entries) = Len(pages[x].entries) - 1
    BY <2>1, <2>5, <2>6, LeafRemove
  <2>3. Pairs(pages'[x]) = Pairs(pages[x]) \ {<<pages[x].entries[last].key, pages[x].entries[last].row_ref>>}
    BY <2>1, <2>5, <2>6, LeafRemove
  <2>4. LeafCovers(pages'[x], lo[x], pages[x].entries[last].key)
    BY SMTT(30), <2>1, <1>6, <1>7, LeafRemove
  <2> QED BY <2>2, <2>3, <2>4, <1>7, <1>10, <1>12 DEF e
<1>15. <<e.key, e.row_ref>> \in Pairs(pages[x])
  BY <1>6, <1>7, PairsByPosition DEF e
<1>16. Pairs(pages'[x]) \cup Pairs(pages'[y]) = Pairs(pages[x]) \cup Pairs(pages[y])
  BY <1>13, <1>14, <1>15
<1>17. Len(s) \in MinLeaf .. MaxLeaf /\ Len(t) \in MinLeaf .. MaxLeaf
  <2>1. Len(pages[y].entries) + 1 >= MinLeaf
    <3>1. Len(pages[y].entries) >= MinLeaf \/ Exempt(pages, header.root, call, y)
      BY <1>5 DEF TreeInv, Good, Filled
    <3> QED BY <3>1, <1>1, <1>6, SizeFacts DEF Exempt, y
  <2>2. Len(pages[x].entries) <= MaxLeaf
    BY <1>4, <1>5, <1>6 DEF Sized, LeavesOf
  <2>3. Len(pages[y].entries) < MinLeaf /\ Len(pages[x].entries) > MinLeaf
    BY <1>1 DEF x, y
  <2> QED BY <2>1, <2>2, <2>3, <1>6, <1>13, <1>14, SizeFacts
<1>18. lo[x] < k /\ k < hi[y] /\ u = Rekey(pages[p].entries, m, k) /\ call.pid \in {x, y}
  BY <1>5, <1>6, <1>8, <1>10 DEF u
<1>19. k \in Keys /\ x # y /\ hi[x] = lo[y]
  BY <1>6, <1>10
<1> QED BY <1>1, <1>3, <1>5, <1>11, <1>13, <1>14, <1>16, <1>17, <1>18, <1>19, BorrowKeeps

-----------------------------------------------------------------------------
(* Merging *)

(* Nothing but the prev pointer of p differs, if p is a page. *)
SameButPrev(pg, pg2, p, prev) ==
  /\ pg2 \in [PageIds -> Node]
  /\ \A q \in PageIds :
       /\ pg2[q].type = pg[q].type /\ pg2[q].parent = pg[q].parent /\ pg2[q].left = pg[q].left
       /\ pg2[q].next = pg[q].next /\ pg2[q].entries = pg[q].entries
       /\ q = p => pg2[q].prev = prev
       /\ q # p => pg2[q].prev = pg[q].prev

(* LinkBack changes a prev pointer and nothing else. *)
LEMMA LinkBackFacts ==
  ASSUME NEW pg \in [PageIds -> Node], NEW p \in Links, NEW prev \in Links
  PROVE  SameButPrev(pg, LinkBack(pg, p, prev), p, prev)
<1>1. CASE p = NULL
  BY <1>1, PageFacts DEF LinkBack, SameButPrev
<1>2. CASE p # NULL
  <2> DEFINE m == [pg[p] EXCEPT !.prev = prev]
             pg2 == [pg EXCEPT ![p] = m]
  <2>1. p \in PageIds /\ pg[p] \in Node
    BY <1>2, PageFacts
  <2>2. /\ m \in Node /\ m.entries = pg[p].entries /\ m.type = pg[p].type
        /\ m.parent = pg[p].parent /\ m.left = pg[p].left /\ m.next = pg[p].next /\ m.prev = prev
    BY <2>1, NewLink
  <2>3. LinkBack(pg, p, prev) = pg2
    BY <1>2 DEF LinkBack
  <2> HIDE DEF m
  <2>4. /\ pg2 \in [PageIds -> Node] /\ pg2[p] = m
        /\ \A q \in PageIds : q # p => pg2[q] = pg[q]
    BY <2>1, <2>2
  <2> HIDE DEF pg2
  <2>5. SameButPrev(pg, pg2, p, prev)
    BY <2>2, <2>4 DEF SameButPrev
  <2> QED BY <2>3, <2>5
<1> QED BY <1>1, <1>2

(* Leaf y goes into leaf x, page y gets the content f, the parent p loses  *)
(* an entry, and the leaf n behind y becomes the one behind x.             *)
Merged(pg, pg2, x, s, n, y, f, p, u) ==
  /\ pg2 \in [PageIds -> Node]
  /\ pg2[x].entries = s /\ pg2[x].next = n /\ pg2[y] = f /\ pg2[p].entries = u
  /\ \A q \in PageIds : q # y =>
       /\ pg2[q].type = pg[q].type /\ pg2[q].parent = pg[q].parent /\ pg2[q].left = pg[q].left
       /\ q # x => pg2[q].next = pg[q].next
       /\ q = n => pg2[q].prev = x
       /\ q # n => pg2[q].prev = pg[q].prev
       /\ q # x /\ q # p => pg2[q].entries = pg[q].entries

MergeWrites(base, pg2, x, s, n, y, f, p, m) ==
  pg2 = [base EXCEPT ![x].entries = s, ![x].next = n, ![y] = f, ![p] = WithoutEntry(@, m)]

(* What a merge writes, page by page. *)
LEMMA MergePages ==
  ASSUME NEW pg, NEW base, NEW n \in Links,
         NEW x \in PageIds, NEW y \in PageIds, NEW p \in PageIds, x # y, x # p, y # p,
         SameButPrev(pg, base, n, x),
         NEW s \in Seq(LeafEntry), NEW f \in Node, NEW m, NEW u \in Seq(InternalEntry),
         u = RemoveAt(pg[p].entries, m), NEW pg2, MergeWrites(base, pg2, x, s, n, y, f, p, m)
  PROVE  Merged(pg, pg2, x, s, n, y, f, p, u)
<1> DEFINE a1 == [base[x] EXCEPT !.entries = s]
           a == [a1 EXCEPT !.next = n]
           c == [base[p] EXCEPT !.entries = u]
<1>0. /\ base \in [PageIds -> Node]
      /\ \A q \in PageIds :
           /\ base[q].type = pg[q].type /\ base[q].parent = pg[q].parent /\ base[q].left = pg[q].left
           /\ base[q].next = pg[q].next /\ base[q].entries = pg[q].entries
           /\ q = n => base[q].prev = x
           /\ q # n => base[q].prev = pg[q].prev
  BY DEF SameButPrev
<1>1. s \in Entries /\ u \in Entries /\ base[x] \in Node /\ base[p] \in Node
  BY <1>0 DEF Entries
<1>2. /\ a1 \in Node /\ a1.entries = s /\ a1.type = base[x].type /\ a1.parent = base[x].parent
      /\ a1.left = base[x].left /\ a1.prev = base[x].prev
  BY <1>1, NewEntries
<1>4. /\ c \in Node /\ c.entries = u /\ c.type = base[p].type /\ c.parent = base[p].parent
      /\ c.left = base[p].left /\ c.next = base[p].next /\ c.prev = base[p].prev
  BY <1>1, NewEntries
<1>9. pg2 = [base EXCEPT ![x] = a, ![y] = f, ![p] = c]
  BY <1>0 DEF WithoutEntry, MergeWrites
<1> HIDE DEF a1
<1>3. /\ a \in Node /\ a.entries = a1.entries /\ a.type = a1.type /\ a.parent = a1.parent
      /\ a.left = a1.left /\ a.next = n /\ a.prev = a1.prev
  BY <1>2, NewLink
<1> HIDE DEF a, c
<1>8. a \in Node /\ c \in Node
  BY <1>3, <1>4
<1>6. /\ pg2 \in [PageIds -> Node] /\ pg2[x] = a /\ pg2[y] = f /\ pg2[p] = c
      /\ \A q \in PageIds : q # x /\ q # y /\ q # p => pg2[q] = base[q]
  BY <1>0, <1>8, <1>9
<1>7. ASSUME NEW q \in PageIds, q # y
      PROVE  /\ pg2[q].type = pg[q].type /\ pg2[q].parent = pg[q].parent /\ pg2[q].left = pg[q].left
             /\ q # x => pg2[q].next = pg[q].next
             /\ q = n => pg2[q].prev = x
             /\ q # n => pg2[q].prev = pg[q].prev
             /\ q # x /\ q # p => pg2[q].entries = pg[q].entries
  BY <1>0, <1>2, <1>3, <1>4, <1>6, <1>7
<1> QED BY <1>2, <1>3, <1>4, <1>6, <1>7 DEF Merged

(* A merge of two neighbours, of which one is too small and none can lend, *)
(* keeps the invariant and the dictionary.                                 *)
LEMMA MergeKeeps ==
  ASSUME NEW hp, TreeInv(hp), call.fn = "fix_leaf_after_delete",
         NEW lo, NEW hi, NEW ht, Tree(pages, header.root, NULL, NULL, lo, hi, ht), Linked(pages, lo, hi),
         NEW p \in InnersOf(pages), NEW m \in 1 .. Len(pages[p].entries),
         NEW x \in LeavesOf(pages), NEW y \in LeavesOf(pages), x # header.root, y # header.root,
         x = Kid(pages[p], m), y = Kid(pages[p], m + 1), call.pid \in {x, y},
         Len(pages[x].entries) <= MinLeaf, Len(pages[y].entries) <= MinLeaf,
         Len(pages[x].entries) < MinLeaf \/ Len(pages[y].entries) < MinLeaf,
         p = Parent, Merge(x, y, m)
  PROVE  TreeInv(hp)' /\ Dictionary' = Dictionary
<1> DEFINE s == pages[x].entries \o pages[y].entries
           u == RemoveAt(pages[p].entries, m)
           f == FreeNode(header.free)
           base == LinkBack(pages, pages[y].next, x)
           c == Call("fix_internal_after_delete", p, 0, NULL)
           hd == [header EXCEPT !.free = y]
           n == pages[y].next
<1>1. /\ Allocated(pages, header, hp) /\ Sized(pages) /\ Filled(pages, header.root, call)
      /\ header \in HeaderType /\ pages \in [PageIds -> Node]
  BY DEF TreeInv, Good, Allocated
<1>2. MergeWrites(base, pages', x, s, n, y, f, p, m) /\ header' = hd /\ call' = c
  BY DEF Merge, MergeWrites
<1>3. /\ x \in PageIds /\ y \in PageIds /\ p \in PageIds /\ x # y /\ x # p /\ y # p
      /\ hi[x] = lo[y] /\ lo[x] < hi[x] /\ lo[y] < hi[y]
      /\ lo[x] \in Int /\ hi[x] \in Int /\ lo[y] \in Int /\ hi[y] \in Int
      /\ LeafCovers(pages[x], lo[x], hi[x]) /\ LeafCovers(pages[y], lo[y], hi[y])
      /\ pages[x].entries \in Seq(LeafEntry) /\ pages[y].entries \in Seq(LeafEntry)
      /\ pages[p].entries \in Seq(InternalEntry)
      /\ Len(pages[x].entries) \in Nat /\ Len(pages[y].entries) \in Nat
      /\ Len(pages[p].entries) \in Nat
  BY LeafPair
<1>4. /\ header.free \in Links /\ header.next \in 1 .. MaxPage + 1 /\ header.root \in PageIds
      /\ n \in Links
  BY <1>1, <1>3, NodeFacts DEF HeaderType
<1>5. /\ hd \in HeaderType /\ hd.free = y /\ hd.next = header.next /\ hd.root = header.root
  BY <1>1, <1>3, PageFacts DEF HeaderType
<1>6. /\ c.fn = "fix_internal_after_delete" /\ c.pid = p /\ c \in CallType
  BY <1>3, PageFacts, SizeFacts DEF Call, CallType
<1>7. f \in Node /\ f.type = "FREE" /\ f.next = header.free /\ f.entries = <<>>
  BY <1>4, NewNodes
<1>8. s \in Seq(LeafEntry) /\ u \in Seq(InternalEntry) /\ Len(u) = Len(pages[p].entries) - 1
  <2>1. s \in Seq(LeafEntry)
    BY <1>3, ConcatProperties
  <2> QED BY <2>1, <1>3, Removal
<1>9. SameButPrev(pages, base, n, x)
  BY <1>1, <1>3, <1>4, PageFacts, LinkBackFacts
<1> HIDE DEF hd, c, f, s, u, base, n
<1>10. Merged(pages, pages', x, s, n, y, f, p, u)
  <2>1. u = RemoveAt(pages[p].entries, m)
    BY DEF u
  <2>2. x \in PageIds /\ y \in PageIds /\ p \in PageIds /\ x # y /\ x # p /\ y # p
    BY <1>3
  <2> QED BY <2>1, <2>2, <1>2, <1>4, <1>7, <1>8, <1>9, MergePages
<1>11. /\ pages' \in [PageIds -> Node] /\ pages'[x].entries = s /\ pages'[p].entries = u
       /\ pages'[x].next = n
       /\ pages'[y].type = "FREE" /\ pages'[y].next = header.free /\ pages'[y].entries = <<>>
       /\ \A q \in PageIds : q # y =>
            /\ pages'[q].type = pages[q].type /\ pages'[q].left = pages[q].left
            /\ pages'[q].parent = pages[q].parent
            /\ q # x => pages'[q].next = pages[q].next
            /\ q = n => pages'[q].prev = x
            /\ q # n => pages'[q].prev = pages[q].prev
            /\ q # p /\ q # x => pages'[q].entries = pages[q].entries
  BY <1>7, <1>10 DEF Merged
<1>12. /\ LeavesOf(pages') = LeavesOf(pages) \ {y} /\ InnersOf(pages') = InnersOf(pages)
       /\ x \in NodesOf(pages) /\ y \in NodesOf(pages) /\ p \in NodesOf(pages)
       /\ p \notin LeavesOf(pages)
       /\ pages[p].type = "INTERNAL" /\ pages[x].type = "LEAF"
  <2>1. /\ pages'[y].type = "FREE"
        /\ \A q \in PageIds : q # y => pages'[q].type = pages[q].type
    BY <1>11
  <2> QED BY <2>1, <1>3 DEF LeavesOf, InnersOf, NodesOf
<1>13. /\ LeafCovers(pages'[x], lo[x], hi[y])
       /\ Len(s) = Len(pages[x].entries) + Len(pages[y].entries)
       /\ Pairs(pages'[x]) = Pairs(pages[x]) \cup Pairs(pages[y])
  <2> DEFINE mid == hi[x]
  <2>1. LeafCovers(pages[x], lo[x], mid) /\ LeafCovers(pages[y], mid, hi[y]) /\ mid \in Int
    BY <1>3
  <2>2. lo[x] <= mid /\ mid <= hi[y]
    BY <1>3
  <2>3. pages'[x].entries = pages[x].entries \o pages[y].entries
    BY <1>11 DEF s
  <2>5. lo[x] \in Int /\ hi[y] \in Int
    BY <1>3
  <2> HIDE DEF mid
  <2>4. Joined(pages[x], pages[y], pages'[x], lo[x], hi[y])
    BY <2>1, <2>2, <2>3, <2>5, LeafJoin
  <2> QED BY <2>4, <1>11 DEF Joined
<1>14. Tree(pages', header.root, NULL, NULL, lo, [hi EXCEPT ![x] = hi[y]], ht)
  <2>1. \A q \in PageIds : q # y =>
           /\ pages'[q].type = pages[q].type /\ pages'[q].left = pages[q].left
           /\ pages'[q].parent = pages[q].parent
           /\ q # p /\ q # x => pages'[q].entries = pages[q].entries
    BY <1>11
  <2>2. pages'[p].entries = RemoveAt(pages[p].entries, m)
    BY <1>11 DEF u
  <2>3. pages' \in [PageIds -> Node] /\ pages'[y].type = "FREE"
    BY <1>11
  <2> QED BY <2>1, <2>2, <2>3, <1>13, MergeLeaves
<1>15. Allocated(pages', hd, hp)
  <2>1. \A q \in PageIds : q # y =>
          /\ pages'[q].type = pages[q].type
          /\ q \notin NodesOf(pages) => pages'[q].next = pages[q].next /\ pages'[q].entries = pages[q].entries
    BY <1>11, <1>12
  <2> QED BY <2>1, <1>1, <1>5, <1>11, <1>12, AllocationGives
<1>16. Len(s) \in MinLeaf .. MaxLeaf
  <2>1. Len(pages[x].entries) >= MinLeaf \/ (Len(pages[x].entries) + 1 >= MinLeaf /\ x = call.pid)
    BY <1>1 DEF Filled, Exempt
  <2>2. Len(pages[y].entries) >= MinLeaf \/ (Len(pages[y].entries) + 1 >= MinLeaf /\ y = call.pid)
    BY <1>1 DEF Filled, Exempt
  <2>3. Len(pages[x].entries) >= MinLeaf \/ Len(pages[y].entries) >= MinLeaf
    BY <2>1, <2>2, <1>3
  <2> DEFINE lx == Len(pages[x].entries)
             ly == Len(pages[y].entries)
  <2>4. /\ lx \in Nat /\ ly \in Nat /\ (lx >= MinLeaf \/ ly >= MinLeaf) /\ Len(s) = lx + ly
        /\ lx <= MinLeaf /\ ly <= MinLeaf /\ (lx < MinLeaf \/ ly < MinLeaf)
    BY <2>3, <1>3, <1>13
  <2> HIDE DEF lx, ly
  <2> QED BY SMTT(30), <2>4, SizeFacts
<1>17. Sized(pages')
  <2> SUFFICES ASSUME NEW q \in PageIds
               PROVE  Len(pages'[q].entries) <= IF pages'[q].type = "LEAF" THEN MaxLeaf ELSE MaxInternal
    BY DEF Sized
  <2>1. Len(pages[q].entries) <= IF pages[q].type = "LEAF" THEN MaxLeaf ELSE MaxInternal
    BY <1>1 DEF Sized
  <2>2. CASE q = x
    BY <2>2, <1>3, <1>11, <1>12, <1>16
  <2>3. CASE q = y
    <3>1. Len(<<>>) = 0
      BY EmptySeq
    <3> QED BY <2>3, <3>1, <1>11, SizeFacts
  <2>4. CASE q = p
    <3>1. Len(pages[p].entries) <= MaxInternal /\ pages'[p].type = "INTERNAL"
      BY <2>1, <2>4, <1>3, <1>11, <1>12
    <3> QED BY SMTT(30), <3>1, <2>4, <1>3, <1>8, <1>11, SizeFacts
  <2>5. CASE q # x /\ q # y /\ q # p
    BY <2>1, <2>5, <1>11
  <2> QED BY <2>2, <2>3, <2>4, <2>5
<1>18. Filled(pages', header.root, c)
  <2> SUFFICES ASSUME NEW q \in LeavesOf(pages), q # y
               PROVE  Len(pages'[q].entries) >= MinLeaf \/ q = header.root
    BY <1>6, <1>12 DEF Filled, Exempt
  <2>1. CASE q = x
    BY <2>1, <1>11, <1>16, SizeFacts
  <2>2. CASE q # x
    <3>1. Len(pages[q].entries) >= MinLeaf \/ q = header.root
      BY <1>1, <2>2 DEF Filled, Exempt
    <3>2. pages'[q].entries = pages[q].entries
      BY <1>11, <1>12, <2>2 DEF LeavesOf
    <3> QED BY <3>1, <3>2
  <2> QED BY <2>1, <2>2
<1>19. CallIsSound(pages', c)
  BY <1>6, <1>12 DEF CallIsSound
<1>23. Linked(pages', lo, [hi EXCEPT ![x] = hi[y]])
  <2> DEFINE hi2 == [hi EXCEPT ![x] = hi[y]]
  <2>1. pages[x].next = y /\ pages[y].prev = x /\ Intervals(pages, lo, hi)
    BY <1>3, NextLeaf, LeavesHaveIntervals
  <2>2. hi \in [PageIds -> Nat]
    BY DEF Tree, Typed
  <2>3. \A q \in LeavesOf(pages) :
          /\ q = x => hi2[q] = hi[y]
          /\ q # x => hi2[q] = hi[q]
    BY <2>2 DEF LeavesOf
  <2>4. \A q \in LeavesOf(pages) \ {y} :
          /\ q # x => pages'[q].next = pages[q].next
          /\ q = pages[y].next => pages'[q].prev = x
          /\ q # pages[y].next => pages'[q].prev = pages[q].prev
    BY <1>11 DEF LeavesOf, n
  <2>5. pages'[x].next = pages[y].next
    BY <1>11 DEF n
  <2> HIDE DEF hi2
  <2>7. LeafAbsorbed(pages, lo, hi, pages', lo, hi2, x, y)
    BY <2>1, <2>3, <2>4, <2>5, <1>3, <1>12 DEF LeafAbsorbed
  <2>6. Linked(pages', lo, hi2)
    BY <2>1, <2>7, LinksJoined
  <2> QED BY <2>6 DEF hi2
<1>20. IsTree(pages', header.root, c)
  BY <1>6, <1>14, <1>23, WholeTree
<1>21. TreeInv(hp)'
  BY <1>2, <1>5, <1>15, <1>17, <1>18, <1>19, <1>20 DEF TreeInv, Good
<1>22. DictOf(pages') = DictOf(pages)
  <2> DEFINE E == {}
  <2>1. Held(pages', x) \cup Held(pages', y) = Held(pages, x) \cup Held(pages, y) \cup E
    BY <1>3, <1>12, <1>13 DEF Held
  <2>2. \A q \in LeavesOf(pages) : q # x /\ q # y => pages'[q].entries = pages[q].entries
    BY <1>11, <1>12 DEF LeavesOf
  <2>3. LeavesOf(pages') \ {x, y} = LeavesOf(pages) \ {x, y}
    BY <1>12
  <2>5. E = {}
    OBVIOUS
  <2> HIDE DEF E
  <2>4. DictOf(pages') = DictOf(pages) \cup E
    BY <2>1, <2>2, <2>3, DictGrows
  <2> QED BY <2>4, <2>5
<1> QED BY <1>21, <1>22, DictionaryIsDictOf

(* Merging into the left sibling keeps the invariant and the dictionary. *)
LEMMA MergeIntoLeftKeeps ==
  ASSUME NEW hp, TreeInv(hp), MergeIntoLeft
  PROVE  TreeInv(hp)' /\ Dictionary' = Dictionary
<1> DEFINE x == Left
           y == Leaf
           p == Parent
           m == Position - 1
<1>1. /\ call.fn = "fix_leaf_after_delete" /\ Leaf # header.root
      /\ Len(pages[y].entries) < MinLeaf /\ Position > 1
      /\ ~(Len(pages[x].entries) > MinLeaf)
      /\ Merge(x, y, m)
  BY DEF MergeIntoLeft, MustMerge, Repair, NeedsRepair, HasLeft, CanLend
<1>3. PICK lo, hi, ht : Tree(pages, header.root, NULL, NULL, lo, hi, ht) /\ Linked(pages, lo, hi)
  BY <1>1, WholeTree DEF TreeInv, Good
<1>4. Leaf \in LeavesOf(pages)
  BY <1>1 DEF TreeInv, Good, CallIsSound, Leaf
<1>5. /\ p \in InnersOf(pages) /\ m \in 1 .. Len(pages[p].entries)
      /\ x \in LeavesOf(pages) /\ y \in LeavesOf(pages)
      /\ x = Kid(pages[p], m) /\ y = Kid(pages[p], m + 1) /\ call.pid = y
      /\ x # header.root
  <2>1. /\ RepairSound(pages, header.root, lo, hi, ht, Parent, Position, Leaf)
        /\ Len(Siblings) = Len(pages[Parent].entries) + 1
        /\ Len(pages[Parent].entries) \in Nat
        /\ \A i \in 1 .. Len(Siblings) : Siblings[i] = Kid(pages[Parent], i)
    BY <1>1, <1>3, <1>4, RepairFacts
  <2>2. /\ p \in InnersOf(pages) /\ Position \in 1 .. Len(pages[p].entries) + 1
        /\ Kid(pages[p], Position) = y
        /\ \A i \in Positions(pages[p]) : Kid(pages[p], i) \in LeavesOf(pages) /\ Kid(pages[p], i) # header.root
    BY <2>1 DEF RepairSound
  <2>3. /\ m \in 1 .. Len(pages[p].entries) /\ m \in 1 .. Len(Siblings) /\ m + 1 = Position
        /\ m \in Positions(pages[p])
    BY <1>1, <2>1, <2>2 DEF Positions
  <2>4. x = Kid(pages[p], m)
    BY <2>1, <2>3 DEF Left
  <2> QED BY <1>4, <2>2, <2>3, <2>4 DEF Leaf
<1>6. y # header.root /\ p = Parent /\ call.pid \in {x, y}
  BY <1>1, <1>5
<1> HIDE DEF x, y, p, m
<1>7. Len(pages[x].entries) \in Nat /\ Len(pages[y].entries) \in Nat
  BY <1>3, <1>5, LeafPair
<1>8. /\ Len(pages[x].entries) <= MinLeaf /\ Len(pages[y].entries) <= MinLeaf
      /\ Len(pages[x].entries) < MinLeaf \/ Len(pages[y].entries) < MinLeaf
  BY <1>1, <1>7, SizeFacts
<1> QED BY <1>1, <1>3, <1>5, <1>6, <1>8, MergeKeeps

(* Merging the right sibling into the leaf keeps the invariant and the     *)
(* dictionary.                                                             *)
LEMMA MergeRightKeeps ==
  ASSUME NEW hp, TreeInv(hp), MergeRight
  PROVE  TreeInv(hp)' /\ Dictionary' = Dictionary
<1> DEFINE x == Leaf
           y == Right
           p == Parent
           m == Position
<1>1. /\ call.fn = "fix_leaf_after_delete" /\ Leaf # header.root
      /\ Len(pages[x].entries) < MinLeaf /\ ~(Position > 1) /\ Position < Len(Siblings)
      /\ ~(Len(pages[y].entries) > MinLeaf)
      /\ Merge(x, y, 1)
  BY DEF MergeRight, MustMerge, Repair, NeedsRepair, HasLeft, HasRight, CanLend
<1>3. PICK lo, hi, ht : Tree(pages, header.root, NULL, NULL, lo, hi, ht) /\ Linked(pages, lo, hi)
  BY <1>1, WholeTree DEF TreeInv, Good
<1>4. Leaf \in LeavesOf(pages)
  BY <1>1 DEF TreeInv, Good, CallIsSound, Leaf
<1>5. /\ p \in InnersOf(pages) /\ m \in 1 .. Len(pages[p].entries)
      /\ x \in LeavesOf(pages) /\ y \in LeavesOf(pages)
      /\ x = Kid(pages[p], m) /\ y = Kid(pages[p], m + 1) /\ call.pid = x
      /\ y # header.root /\ m = 1
  <2>1. /\ RepairSound(pages, header.root, lo, hi, ht, Parent, Position, Leaf)
        /\ Len(Siblings) = Len(pages[Parent].entries) + 1
        /\ Len(pages[Parent].entries) \in Nat
        /\ \A i \in 1 .. Len(Siblings) : Siblings[i] = Kid(pages[Parent], i)
    BY <1>1, <1>3, <1>4, RepairFacts
  <2>2. /\ p \in InnersOf(pages) /\ m \in 1 .. Len(pages[p].entries) + 1 /\ Kid(pages[p], m) = x
        /\ \A i \in Positions(pages[p]) : Kid(pages[p], i) \in LeavesOf(pages) /\ Kid(pages[p], i) # header.root
    BY <2>1 DEF RepairSound
  <2>3. /\ m \in 1 .. Len(pages[p].entries) /\ m + 1 \in 1 .. Len(Siblings)
        /\ m + 1 \in Positions(pages[p]) /\ m = 1
    BY <1>1, <2>1, <2>2 DEF Positions
  <2>4. y = Kid(pages[p], m + 1)
    BY <2>1, <2>3 DEF Right
  <2> QED BY <1>4, <2>2, <2>3, <2>4 DEF Leaf
<1>6. x # header.root /\ p = Parent /\ call.pid \in {x, y}
  BY <1>1, <1>5
<1> HIDE DEF x, y, p, m
<1>7. Len(pages[x].entries) \in Nat /\ Len(pages[y].entries) \in Nat
  BY <1>3, <1>5, LeafPair
<1>8. /\ Len(pages[x].entries) <= MinLeaf /\ Len(pages[y].entries) <= MinLeaf
      /\ Len(pages[x].entries) < MinLeaf \/ Len(pages[y].entries) < MinLeaf
  BY <1>1, <1>7, SizeFacts
<1>9. Merge(x, y, m)
  BY <1>1, <1>5
<1>10. /\ call.fn = "fix_leaf_after_delete" /\ p \in InnersOf(pages) /\ m \in 1 .. Len(pages[p].entries)
       /\ x \in LeavesOf(pages) /\ y \in LeavesOf(pages)
       /\ x = Kid(pages[p], m) /\ y = Kid(pages[p], m + 1) /\ y # header.root
  BY <1>1, <1>5
<1> QED BY <1>3, <1>6, <1>8, <1>9, <1>10, MergeKeeps

-----------------------------------------------------------------------------
(* The root *)

(* An empty root gives way to its only child. *)
LEMMA ShrinkRootKeeps ==
  ASSUME NEW hp, TreeInv(hp), ShrinkRoot
  PROVE  TreeInv(hp)' /\ Dictionary' = Dictionary
<1> DEFINE r == header.root
           c == pages[r].left
           f == FreeNode(header.free)
           g == [pages[c] EXCEPT !.parent = NULL]
           hd == [header EXCEPT !.free = r, !.root = c]
<1>1. /\ call.fn = "fix_internal_after_delete" /\ call.pid = r /\ pages[r].entries = <<>>
      /\ pages' = [pages EXCEPT ![r] = f, ![c].parent = NULL]
      /\ header' = hd /\ call' = Idle
  BY DEF ShrinkRoot
<1>2. /\ Allocated(pages, header, hp) /\ Sized(pages) /\ Filled(pages, header.root, call)
      /\ header \in HeaderType /\ pages \in [PageIds -> Node]
      /\ r \in InnersOf(pages)
  BY <1>1 DEF TreeInv, Good, Allocated, CallIsSound
<1>3. PICK lo, hi, ht : Tree(pages, header.root, NULL, NULL, lo, hi, ht) /\ Linked(pages, lo, hi)
  BY <1>1, WholeTree DEF TreeInv, Good
<1>4. Len(pages[r].entries) = 0
  BY <1>1, EmptySeq
<1>5. c \in NodesOf(pages) /\ c # r /\ c \in PageIds /\ r \in PageIds /\ r \in NodesOf(pages)
  <2>1. 1 \in Positions(pages[r])
    BY <1>4 DEF Positions
  <2>2. KidSound(pages, r, NULL, NULL, lo, hi, ht, r, 1)
    BY <2>1, <1>2, <1>3 DEF Tree, AllKidsSound
  <2>3. Kid(pages[r], 1) = c
    BY DEF Kid
  <2> QED BY <2>2, <2>3, <1>2 DEF KidSound, NodesOf, LeavesOf, InnersOf
<1>6. /\ header.free \in Links /\ header.next \in 1 .. MaxPage + 1
      /\ hd \in HeaderType /\ hd.free = r /\ hd.next = header.next /\ hd.root = c
  BY <1>2, <1>5, PageFacts DEF HeaderType
<1>7. f \in Node /\ f.type = "FREE" /\ f.next = header.free /\ f.entries = <<>>
  BY <1>6, NewNodes
<1>8. /\ g \in Node /\ g.entries = pages[c].entries /\ g.type = pages[c].type /\ g.parent = NULL
      /\ g.left = pages[c].left /\ g.next = pages[c].next /\ g.prev = pages[c].prev
  <2>1. pages[c] \in Node
    BY <1>2, <1>5
  <2> QED BY ZenonT(40), <2>1, PageFacts, NewLink
<1>20. r = header.root
  OBVIOUS
<1> HIDE DEF r, c, f, hd
<1>9. pages' = [pages EXCEPT ![r] = f, ![c] = g]
  BY <1>1, <1>2, <1>5
<1> HIDE DEF g
<1>10. /\ pages' \in [PageIds -> Node] /\ pages'[r] = f /\ pages'[c] = g
       /\ \A q \in PageIds : q # r /\ q # c => pages'[q] = pages[q]
  BY <1>2, <1>5, <1>7, <1>8, <1>9
<1>11. \A q \in PageIds : q # r =>
         /\ pages'[q].type = pages[q].type /\ pages'[q].left = pages[q].left
         /\ pages'[q].entries = pages[q].entries /\ pages'[q].next = pages[q].next
         /\ pages'[q].prev = pages[q].prev
         /\ pages'[q].parent = IF q = c THEN NULL ELSE pages[q].parent
  BY <1>8, <1>10
<1>12. pages'[r].type = "FREE" /\ pages'[r].next = header.free /\ pages'[r].entries = <<>>
  BY <1>7, <1>10
<1>13. Tree(pages', c, NULL, NULL, lo, hi, ht)
  <2>1. \A q \in PageIds : q # r =>
         /\ pages'[q].type = pages[q].type /\ pages'[q].left = pages[q].left
         /\ pages'[q].entries = pages[q].entries
         /\ pages'[q].parent = IF q = c THEN NULL ELSE pages[q].parent
    BY <1>11
  <2>2. Tree(pages, r, NULL, NULL, lo, hi, ht) /\ c = pages[r].left
    BY <1>3, <1>20 DEF c
  <2> QED BY <2>1, <2>2, <1>2, <1>4, <1>10, <1>12, LoseRoot
<1>14. Allocated(pages', hd, hp)
  <2>1. \A q \in PageIds : q # r =>
          /\ pages'[q].type = pages[q].type
          /\ q \notin NodesOf(pages) => pages'[q].next = pages[q].next /\ pages'[q].entries = pages[q].entries
    BY <1>11
  <2> QED BY <2>1, <1>2, <1>5, <1>6, <1>10, <1>12, AllocationGives
<1>15. Sized(pages')
  <2> SUFFICES ASSUME NEW q \in PageIds
               PROVE  Len(pages'[q].entries) <= IF pages'[q].type = "LEAF" THEN MaxLeaf ELSE MaxInternal
    BY DEF Sized
  <2>1. Len(pages[q].entries) <= IF pages[q].type = "LEAF" THEN MaxLeaf ELSE MaxInternal
    BY <1>2 DEF Sized
  <2>2. CASE q = r
    BY SMTT(30), <2>2, <1>1, <1>4, <1>12, SizeFacts
  <2>3. CASE q # r
    BY <2>1, <2>3, <1>11
  <2> QED BY <2>2, <2>3
<1>16. /\ LeavesOf(pages') = LeavesOf(pages)
       /\ \A q \in LeavesOf(pages) : pages'[q].entries = pages[q].entries /\ q # r
  <2>1. pages[r].type = "INTERNAL"
    BY <1>2 DEF InnersOf
  <2>2. \A q \in LeavesOf(pages) : q # r /\ q \in PageIds
    BY <2>1 DEF LeavesOf
  <2>3. LeavesOf(pages') = LeavesOf(pages)
    BY <2>1, <1>11, <1>12 DEF LeavesOf
  <2> QED BY <2>2, <2>3, <1>11
<1>17. Filled(pages', c, Idle)
  <2> SUFFICES ASSUME NEW q \in LeavesOf(pages)
               PROVE  Len(pages'[q].entries) >= MinLeaf
    BY <1>16 DEF Filled
  <2>1. Len(pages[q].entries) >= MinLeaf \/ q = header.root
    BY <1>1, <1>2 DEF Filled, Exempt
  <2> QED BY <2>1, <1>16, <1>20
<1>21. Linked(pages', lo, hi)
  <2>1. \A q \in LeavesOf(pages) : pages'[q].next = pages[q].next /\ pages'[q].prev = pages[q].prev
    BY <1>11, <1>16 DEF LeavesOf
  <2> QED BY <2>1, <1>3, <1>16, LinksKept
<1>18. TreeInv(hp)'
  <2>1. IsTree(pages', c, Idle)
    BY <1>13, <1>21, WholeTree, IdleIsSound
  <2> QED BY <2>1, <1>1, <1>6, <1>14, <1>15, <1>17, IdleIsSound DEF TreeInv, Good
<1>19. DictOf(pages') = DictOf(pages)
  BY <1>16, DictStays
<1> QED BY <1>18, <1>19, DictionaryIsDictOf

-----------------------------------------------------------------------------
(* A separator on its way up *)

(* NewPage and HeaderAfterAlloc are what the lemmas about the allocator    *)
(* speak of.                                                               *)
LEMMA AllocFacts ==
  ASSUME NEW hp, Allocated(pages, header, hp), MayAlloc
  PROVE  /\ header.free # NULL \/ header.next <= MaxPage
         /\ NewPage = PageTaken(pages, header)
         /\ NewPage \in PageIds /\ NewPage \notin NodesOf(pages)
         /\ HeaderAfterAlloc \in HeaderType /\ HeaderAfterAlloc.root = header.root
         /\ HeaderAfterAlloc.free = (IF header.free # NULL THEN pages[header.free].next ELSE NULL)
         /\ HeaderAfterAlloc.next = (IF header.free # NULL THEN header.next ELSE header.next + 1)
<1>1. header.free # NULL \/ header.next <= MaxPage
  BY DEF MayAlloc
<1>2. NewPage = PageTaken(pages, header)
  BY DEF NewPage, PageTaken
<1>3. /\ PageTaken(pages, header) \in PageIds /\ PageTaken(pages, header) \notin NodesOf(pages)
      /\ header.free # NULL => /\ pages[header.free].next \in Links
      /\ header.free = NULL => /\ header.next + 1 \in 1 .. MaxPage + 1
  BY <1>1, NewPageFacts
<1>4. header \in HeaderType
  BY DEF Allocated
<1>5. CASE header.free # NULL
  BY <1>1, <1>2, <1>3, <1>4, <1>5 DEF HeaderAfterAlloc, HeaderType
<1>6. CASE header.free = NULL
  BY <1>1, <1>2, <1>3, <1>4, <1>6 DEF HeaderAfterAlloc, HeaderType
<1> QED BY <1>5, <1>6

NewParents(pg, pg2, S, parent) ==
  /\ pg2 \in [PageIds -> Node]
  /\ \A q \in PageIds :
       /\ pg2[q].type = pg[q].type /\ pg2[q].left = pg[q].left /\ pg2[q].next = pg[q].next
       /\ pg2[q].entries = pg[q].entries /\ pg2[q].prev = pg[q].prev
       /\ pg2[q].parent = IF q \in S THEN parent ELSE pg[q].parent

(* SetParents changes parents and nothing else. *)
LEMMA SetParentsFacts ==
  ASSUME NEW pg \in [PageIds -> Node], NEW S, NEW parent \in Links
  PROVE  NewParents(pg, SetParents(pg, S, parent), S, parent)
<1> DEFINE pg2 == SetParents(pg, S, parent)
<1>1. ASSUME NEW q \in PageIds
      PROVE  /\ pg2[q] \in Node
             /\ pg2[q].type = pg[q].type /\ pg2[q].left = pg[q].left /\ pg2[q].next = pg[q].next
             /\ pg2[q].entries = pg[q].entries /\ pg2[q].prev = pg[q].prev
             /\ pg2[q].parent = IF q \in S THEN parent ELSE pg[q].parent
  <2>1. pg[q] \in Node /\ pg2[q] = IF q \in S THEN [pg[q] EXCEPT !.parent = parent] ELSE pg[q]
    BY DEF SetParents
  <2>2. CASE q \in S
    <3> DEFINE m == [pg[q] EXCEPT !.parent = parent]
    <3>1. /\ m \in Node /\ m.entries = pg[q].entries /\ m.type = pg[q].type /\ m.parent = parent
          /\ m.left = pg[q].left /\ m.next = pg[q].next /\ m.prev = pg[q].prev
      BY <2>1, NewLink
    <3>2. pg2[q] = m
      BY <2>1, <2>2
    <3> HIDE DEF m, pg2
    <3> QED BY <2>2, <3>1, <3>2
  <2>3. CASE q \notin S
    BY <2>1, <2>3
  <2> QED BY <2>2, <2>3
<1>2. pg2 = [q \in PageIds |-> pg2[q]]
  BY DEF SetParents
<1> HIDE DEF pg2
<1>3. pg2 \in [PageIds -> Node]
  BY <1>1, <1>2
<1>4. NewParents(pg, pg2, S, parent)
  BY <1>1, <1>3 DEF NewParents
<1> QED BY <1>4 DEF pg2

(* What is known while insert_into_parent runs. *)
PendingSound(lo, hi, ht) ==
  /\ Tree(pages, header.root, call.pid, call.right, lo, hi, ht) /\ Linked(pages, lo, hi)
  /\ lo[call.right] = call.key /\ call.key \in Keys
  /\ call.pid \in NodesOf(pages) /\ call.right \in NodesOf(pages) /\ call.pid # call.right
  /\ call.pid \in PageIds /\ call.right \in PageIds /\ call.pid # NULL
  /\ call.right # header.root
  /\ ht[call.pid] = ht[call.right]

(* While a separator is on its way up, the tree with both halves is sound  *)
(* and every leaf is at least half full.                                   *)
LEMMA PendingFacts ==
  ASSUME NEW hp, TreeInv(hp), call.fn = "insert_into_parent"
  PROVE  /\ \E lo, hi, ht : PendingSound(lo, hi, ht)
         /\ \A p \in LeavesOf(pages) : Len(pages[p].entries) >= MinLeaf
         /\ Allocated(pages, header, hp) /\ Sized(pages) /\ pages \in [PageIds -> Node]
         /\ header \in HeaderType
<1>1. PICK lo, hi, ht : /\ Tree(pages, header.root, call.pid, call.right, lo, hi, ht)
                        /\ lo[call.right] = call.key /\ Linked(pages, lo, hi)
  BY DEF TreeInv, Good, IsTree, LeftHalf, RightHalf
<1>2. call.pid \in NodesOf(pages) /\ call.key \in Keys /\ call.right \in PageIds
  BY DEF TreeInv, Good, CallIsSound
<1>3. call.pid \in PageIds /\ call.pid # NULL
  BY <1>2, NullIsNoPage DEF NodesOf, LeavesOf, InnersOf
<1>4. HalvesSound(pages, header.root, call.pid, call.right, lo, hi, ht)
  BY <1>1 DEF Tree
<1>5. PendingSound(lo, hi, ht)
  BY <1>1, <1>2, <1>3, <1>4 DEF PendingSound, HalvesSound
<1>6. \A p \in LeavesOf(pages) : Len(pages[p].entries) >= MinLeaf
  BY DEF TreeInv, Good, Filled, Exempt
<1> QED BY <1>5, <1>6 DEF TreeInv, Good, Allocated

(* The separator is an entry of an internal node. *)
LEMMA SeparatorFacts ==
  ASSUME NEW k \in Keys, NEW q \in PageIds
  PROVE  LET e == [key |-> k, right_child |-> q]
         IN  e \in InternalEntry /\ e.key = k /\ e.right_child = q /\ <<e>> \in Seq(InternalEntry)
             /\ Len(<<e>>) = 1
BY DEF InternalEntry

(* insert_into_parent of a root makes a new root above both halves. *)
LEMMA GrowRootKeeps ==
  ASSUME NEW hp, TreeInv(hp), GrowRoot
  PROVE  TreeInv(hp)' /\ Dictionary' = Dictionary
<1> DEFINE y == NewPage
           a == call.pid
           b == call.right
           e == [key |-> call.key, right_child |-> b]
           base == SetParents(pages, {a, b}, y)
           node == InternalNode(NULL, a, <<e>>)
           hd == [HeaderAfterAlloc EXCEPT !.root = y]
<1>1. /\ call.fn = "insert_into_parent" /\ a = header.root /\ MayAlloc
      /\ pages' = [base EXCEPT ![y] = node]
      /\ header' = hd /\ call' = Idle
  BY DEF GrowRoot
<1>2. /\ Allocated(pages, header, hp) /\ Sized(pages) /\ pages \in [PageIds -> Node]
      /\ header \in HeaderType
      /\ \A p \in LeavesOf(pages) : Len(pages[p].entries) >= MinLeaf
  BY <1>1, PendingFacts
<1>3. PICK lo, hi, ht : PendingSound(lo, hi, ht)
  BY <1>1, PendingFacts
<1>4. /\ y \in PageIds /\ y \notin NodesOf(pages) /\ y = PageTaken(pages, header)
      /\ header.free # NULL \/ header.next <= MaxPage
      /\ HeaderAfterAlloc \in HeaderType
      /\ HeaderAfterAlloc.free = (IF header.free # NULL THEN pages[header.free].next ELSE NULL)
      /\ HeaderAfterAlloc.next = (IF header.free # NULL THEN header.next ELSE header.next + 1)
  BY <1>1, <1>2, AllocFacts
<1>5. /\ hd \in HeaderType /\ hd.root = y /\ hd.free = HeaderAfterAlloc.free
      /\ hd.next = HeaderAfterAlloc.next
  BY <1>4 DEF HeaderType
<1>6. /\ Tree(pages, a, a, b, lo, hi, ht) /\ lo[b] \in Keys /\ e.key = lo[b]
      /\ e.right_child = b /\ e \in InternalEntry /\ <<e>> \in Seq(InternalEntry) /\ Len(<<e>>) = 1
      /\ a \in PageIds /\ b \in PageIds /\ a \in NodesOf(pages) /\ b \in NodesOf(pages)
  <2>1. /\ Tree(pages, a, a, b, lo, hi, ht) /\ lo[b] = call.key /\ call.key \in Keys
        /\ a \in PageIds /\ b \in PageIds /\ a \in NodesOf(pages) /\ b \in NodesOf(pages)
    BY <1>1, <1>3 DEF PendingSound
  <2> QED BY <2>1, SeparatorFacts
<1>7. NewParents(pages, base, {a, b}, y)
  BY <1>2, <1>4, PageFacts, SetParentsFacts
<1>8. /\ node \in Node /\ node.type = "INTERNAL" /\ node.parent = NULL /\ node.left = a
      /\ node.entries = <<e>>
  <2> DEFINE s == <<e>>
             m == InternalNode(NULL, a, s)
  <2>1. a \in Links /\ NULL \in Links /\ s \in Seq(InternalEntry) /\ node = m
    BY <1>6, PageFacts
  <2> HIDE DEF a, e, s, node
  <2>2. /\ m \in Node /\ m.type = "INTERNAL" /\ m.parent = NULL /\ m.left = a /\ m.entries = s
    BY <2>1, NewNodes
  <2> HIDE DEF m
  <2> QED BY <2>1, <2>2 DEF s
<1> HIDE DEF y, a, b, e, base, node, hd
<1>9. /\ pages' \in [PageIds -> Node] /\ pages'[y] = node
      /\ \A q \in PageIds : q # y => pages'[q] = base[q]
  BY <1>1, <1>4, <1>7, <1>8 DEF NewParents
<1>10. \A q \in PageIds : q # y =>
         /\ pages'[q].type = pages[q].type /\ pages'[q].left = pages[q].left
         /\ pages'[q].entries = pages[q].entries /\ pages'[q].next = pages[q].next
         /\ pages'[q].prev = pages[q].prev
         /\ pages'[q].parent = IF q \in {a, b} THEN y ELSE pages[q].parent
  BY <1>7, <1>9 DEF NewParents
<1>11. \E l, h, r : /\ Tree(pages', y, NULL, NULL, l, h, r)
                     /\ \A q \in PageIds : q # y => l[q] = lo[q] /\ h[q] = hi[q]
  <2>1. \A q \in PageIds : q # y =>
         /\ pages'[q].type = pages[q].type /\ pages'[q].left = pages[q].left
         /\ pages'[q].entries = pages[q].entries
         /\ pages'[q].parent = IF q \in {a, b} THEN y ELSE pages[q].parent
    BY <1>10
  <2>2. /\ pages'[y].type = "INTERNAL" /\ pages'[y].parent = NULL /\ pages'[y].left = a
        /\ pages'[y].entries = <<e>> /\ pages' \in [PageIds -> Node]
    BY <1>8, <1>9
  <2>3. y \in PageIds /\ y \notin NodesOf(pages)
    BY <1>4
  <2>4. /\ Tree(pages, a, a, b, lo, hi, ht) /\ lo[b] \in Keys /\ e.key = lo[b]
        /\ e.right_child = b /\ e \in InternalEntry
    BY <1>6
  <2>5. RootGrown(pages, pages', a, b, y, e)
    BY <2>1, <2>2 DEF RootGrown
  <2> QED BY <2>3, <2>4, <2>5, NewRoot
<1>12. Allocated(pages', hd, hp)
  <2>1. \A q \in PageIds : q # y =>
          /\ pages'[q].type = pages[q].type
          /\ q \notin NodesOf(pages) => pages'[q].next = pages[q].next /\ pages'[q].entries = pages[q].entries
    BY <1>10
  <2>2. pages'[y].type \in {"LEAF", "INTERNAL"} /\ pages' \in [PageIds -> Node]
    BY <1>8, <1>9
  <2>3. /\ hd.free = (IF header.free # NULL THEN pages[header.free].next ELSE NULL)
        /\ hd.next = (IF header.free # NULL THEN header.next ELSE header.next + 1)
    BY <1>4, <1>5
  <2> QED BY <2>1, <2>2, <2>3, <1>2, <1>4, <1>5, AllocationTakes
<1>13. Sized(pages')
  <2> SUFFICES ASSUME NEW q \in PageIds
               PROVE  Len(pages'[q].entries) <= IF pages'[q].type = "LEAF" THEN MaxLeaf ELSE MaxInternal
    BY DEF Sized
  <2>1. Len(pages[q].entries) <= IF pages[q].type = "LEAF" THEN MaxLeaf ELSE MaxInternal
    BY <1>2 DEF Sized
  <2>2. CASE q = y
    <3>1. Len(pages'[q].entries) = 1 /\ pages'[q].type = "INTERNAL"
      BY <2>2, <1>6, <1>8, <1>9
    <3> QED BY <3>1, SizeFacts
  <2>3. CASE q # y
    BY <2>1, <2>3, <1>10
  <2> QED BY <2>2, <2>3
<1>14. /\ LeavesOf(pages') = LeavesOf(pages)
       /\ \A q \in LeavesOf(pages) : pages'[q].entries = pages[q].entries
  <2>1. \A q \in LeavesOf(pages) : q # y /\ q \in PageIds
    BY <1>4 DEF LeavesOf, NodesOf
  <2>2. pages'[y].type = "INTERNAL"
    BY <1>8, <1>9
  <2>3. LeavesOf(pages') = LeavesOf(pages)
    BY <2>1, <2>2, <1>10 DEF LeavesOf
  <2> QED BY <2>1, <2>3, <1>10
<1>18. \E l, h, r : Tree(pages', y, NULL, NULL, l, h, r) /\ Linked(pages', l, h)
  <2>1. PICK l, h, r : /\ Tree(pages', y, NULL, NULL, l, h, r)
                       /\ \A q \in PageIds : q # y => l[q] = lo[q] /\ h[q] = hi[q]
    BY <1>11
  <2>2. \A q \in LeavesOf(pages) : q \in PageIds /\ q # y
    BY <1>4 DEF LeavesOf, NodesOf
  <2>3. \A q \in LeavesOf(pages) :
          /\ pages'[q].next = pages[q].next /\ pages'[q].prev = pages[q].prev
          /\ l[q] = lo[q] /\ h[q] = hi[q]
    BY <2>1, <2>2, <1>10
  <2>4. Linked(pages, lo, hi)
    BY <1>3 DEF PendingSound
  <2>5. Linked(pages', l, h)
    BY <2>3, <2>4, <1>14, LinksKept
  <2> QED BY <2>1, <2>5
<1>15. Filled(pages', y, Idle)
  BY <1>2, <1>14 DEF Filled
<1>16. TreeInv(hp)'
  <2>1. IsTree(pages', y, Idle)
    BY <1>18, WholeTree, IdleIsSound
  <2> QED BY <2>1, <1>1, <1>5, <1>12, <1>13, <1>15, IdleIsSound DEF TreeInv, Good
<1>17. DictOf(pages') = DictOf(pages)
  BY <1>14, DictStays
<1> QED BY <1>16, <1>17, DictionaryIsDictOf

(* The parent p gets the separator and the right half b its parent. *)
Adopted(pg, pg2, p, s, b) ==
  /\ pg2 \in [PageIds -> Node] /\ pg2[p].entries = s
  /\ \A q \in PageIds :
       /\ pg2[q].type = pg[q].type /\ pg2[q].left = pg[q].left /\ pg2[q].next = pg[q].next
       /\ pg2[q].parent = (IF q = b THEN p ELSE pg[q].parent) /\ pg2[q].prev = pg[q].prev
       /\ q # p => pg2[q].entries = pg[q].entries

(* What insert_into_parent writes into a parent with room, page by page. *)
LEMMA AdoptPages ==
  ASSUME NEW pg \in [PageIds -> Node], NEW p \in PageIds, NEW b \in PageIds, p # b,
         NEW s \in Seq(InternalEntry)
  PROVE  Adopted(pg, [pg EXCEPT ![p] = [pg[p] EXCEPT !.entries = s],
                                ![b] = [pg[b] EXCEPT !.parent = p]], p, s, b)
<1> DEFINE c == [pg[p] EXCEPT !.entries = s]
           d == [pg[b] EXCEPT !.parent = p]
           pg2 == [pg EXCEPT ![p] = c, ![b] = d]
<1>1. s \in Entries /\ p \in Links /\ pg[p] \in Node /\ pg[b] \in Node
  BY PageFacts DEF Entries
<1>2. /\ c \in Node /\ c.entries = s /\ c.type = pg[p].type /\ c.parent = pg[p].parent
      /\ c.left = pg[p].left /\ c.next = pg[p].next /\ c.prev = pg[p].prev
  BY <1>1, NewEntries
<1>3. /\ d \in Node /\ d.entries = pg[b].entries /\ d.type = pg[b].type /\ d.parent = p
      /\ d.left = pg[b].left /\ d.next = pg[b].next /\ d.prev = pg[b].prev
  BY <1>1, NewLink
<1> HIDE DEF c, d
<1>4. c \in Node /\ d \in Node
  BY <1>2, <1>3
<1>5. /\ pg2 \in [PageIds -> Node] /\ pg2[p] = c /\ pg2[b] = d
      /\ \A q \in PageIds : q # p /\ q # b => pg2[q] = pg[q]
  BY <1>4
<1> HIDE DEF pg2
<1>6. ASSUME NEW q \in PageIds
      PROVE  /\ pg2[q].type = pg[q].type /\ pg2[q].left = pg[q].left /\ pg2[q].next = pg[q].next
             /\ pg2[q].parent = (IF q = b THEN p ELSE pg[q].parent) /\ pg2[q].prev = pg[q].prev
             /\ q # p => pg2[q].entries = pg[q].entries
  <2>1. CASE q = p
    BY <2>1, <1>2, <1>5
  <2>2. CASE q = b
    BY <2>2, <1>3, <1>5
  <2>3. CASE q # p /\ q # b
    BY <2>3, <1>5
  <2> QED BY <2>1, <2>2, <2>3
<1>7. Adopted(pg, pg2, p, s, b)
  BY <1>2, <1>5, <1>6 DEF Adopted
<1> QED BY <1>7 DEF pg2, c, d

(* Inserting the separator restores the tree, if the parent's array could  *)
(* take any number of entries.                                             *)
NewSeparators(p, e) == InsertAt(pages[p].entries, InternalFind(pages[p], e.key) + 1, e)

(* A parent that gets the separator where its key belongs makes the tree   *)
(* whole, whether it has room for it or not.                               *)
LEMMA Adoption ==
  ASSUME NEW hp, TreeInv(hp), call.fn = "insert_into_parent", HasParent, NEW p, p = pages[call.pid].parent,
         NEW e, e = [key |-> call.key, right_child |-> call.right],
         NEW lo, NEW hi, NEW ht, PendingSound(lo, hi, ht)
  PROVE  /\ p \in InnersOf(pages) /\ p \in PageIds /\ p # call.right /\ p \in NodesOf(pages)
         /\ NewSeparators(p, e) \in Seq(InternalEntry)
         /\ Len(NewSeparators(p, e)) = Len(pages[p].entries) + 1
         /\ Len(pages[p].entries) \in Nat
         /\ \A pg : Adopted(pages, pg, p, NewSeparators(p, e), call.right) =>
              Tree(pg, header.root, NULL, NULL, lo, hi, ht)
<1> DEFINE a == call.pid
           b == call.right
           root == header.root
<1>1. /\ Tree(pages, root, a, b, lo, hi, ht) /\ lo[b] = call.key /\ call.key \in Keys
      /\ a \in NodesOf(pages) /\ b \in NodesOf(pages) /\ a # b /\ a \in PageIds /\ b \in PageIds
      /\ a # NULL /\ ht[a] = ht[b]
  BY DEF PendingSound
<1>2. a # root
  BY <1>1 DEF Tree, RootSound, HasParent
<1>3. /\ e.key = lo[b] /\ lo[b] \in Keys /\ e.right_child = b /\ e \in InternalEntry
  BY <1>1, SeparatorFacts
<1>4. p = pages[a].parent
  OBVIOUS
<1> HIDE DEF a, b, root
<1>5. p \in InnersOf(pages) /\ \E i \in Positions(pages[p]) : Kid(pages[p], i) = a
  BY <1>1, <1>2, <1>4, PlaceFacts
<1>6. p \in PageIds /\ p \in NodesOf(pages)
  BY <1>5 DEF InnersOf, NodesOf
<1>7. p # b
  <2>1. PICK i \in Positions(pages[p]) : Kid(pages[p], i) = a
    BY <1>5
  <2>2. KidSound(pages, root, a, b, lo, hi, ht, p, i)
    BY <1>1, <1>5 DEF Tree, AllKidsSound
  <2>3. ht[p] = ht[a] + 1
    BY <2>1, <2>2 DEF KidSound
  <2>4. ht[b] \in Nat /\ ht[a] \in Nat
    BY <1>1 DEF Tree, Typed
  <2> QED BY <2>3, <2>4, <1>1
<1>8. pages[p].entries \in Seq(InternalEntry) /\ Ascending(pages[p].entries)
  BY <1>1, <1>5, SoundFacts
<1>9. Len(pages[p].entries) \in Nat /\ e.key \in Int
  BY <1>3, <1>8, EntryFacts, SizeFacts DEF Keys
<1>10. InternalFind(pages[p], e.key) + 1 \in 1 .. Len(pages[p].entries) + 1
  <2>1. InternalFind(pages[p], e.key) \in 0 .. Len(pages[p].entries)
    BY <1>8, <1>9, InternalFindFacts
  <2> QED BY <2>1, <1>9
<1>11. /\ NewSeparators(p, e) \in Seq(InternalEntry)
       /\ Len(NewSeparators(p, e)) = Len(pages[p].entries) + 1
  BY SMTT(30), <1>3, <1>8, <1>10, Insertion DEF NewSeparators
<1>12. ASSUME NEW pg, Adopted(pages, pg, p, NewSeparators(p, e), b)
       PROVE  Tree(pg, root, NULL, NULL, lo, hi, ht)
  <2>1. pg \in [PageIds -> Node]
    BY <1>12 DEF Adopted
  <2>2. pg[p].entries = InsertAt(pages[p].entries, InternalFind(pages[p], e.key) + 1, e)
    BY <1>12 DEF Adopted, NewSeparators
  <2>3. \A q \in PageIds :
           /\ pg[q].type = pages[q].type /\ pg[q].left = pages[q].left
           /\ pg[q].parent = IF q = b THEN p ELSE pages[q].parent
           /\ q # p => pg[q].entries = pages[q].entries
    BY <1>12 DEF Adopted
  <2> QED BY <2>1, <2>2, <2>3, <1>1, <1>2, <1>3, <1>4, Attach
<1> QED BY <1>5, <1>6, <1>7, <1>9, <1>11, <1>12 DEF a, b, root

(* insert_into_parent into a parent with room ends the insert. *)
LEMMA InsertSeparatorKeeps ==
  ASSUME NEW hp, TreeInv(hp), InsertSeparator
  PROVE  TreeInv(hp)' /\ Dictionary' = Dictionary
<1> DEFINE p == pages[call.pid].parent
           b == call.right
           e == [key |-> call.key, right_child |-> call.right]
           s == NewSeparators(p, e)
<1>1. /\ call.fn = "insert_into_parent" /\ HasParent
      /\ Len(pages[p].entries) < MaxInternal
      /\ pages' = [pages EXCEPT ![p] = WithInternalEntry(@, e), ![b].parent = p]
      /\ call' = Idle /\ header' = header
  BY DEF InsertSeparator
<1>2. /\ Allocated(pages, header, hp) /\ Sized(pages) /\ pages \in [PageIds -> Node]
      /\ header \in HeaderType
      /\ \A q \in LeavesOf(pages) : Len(pages[q].entries) >= MinLeaf
  BY <1>1, PendingFacts
<1>3. PICK lo, hi, ht : PendingSound(lo, hi, ht)
  BY <1>1, PendingFacts
<1>4. /\ p \in InnersOf(pages) /\ p \in PageIds /\ p # b /\ p \in NodesOf(pages)
      /\ s \in Seq(InternalEntry) /\ Len(s) = Len(pages[p].entries) + 1
      /\ Len(pages[p].entries) \in Nat
      /\ \A pg : Adopted(pages, pg, p, s, b) => Tree(pg, header.root, NULL, NULL, lo, hi, ht)
  BY <1>1, <1>3, Adoption
<1>5. b \in PageIds
  BY <1>3 DEF PendingSound
<1> HIDE DEF p, b, e
<1>6. pages' = [pages EXCEPT ![p] = [pages[p] EXCEPT !.entries = s],
                             ![b] = [pages[b] EXCEPT !.parent = p]]
  BY <1>1, <1>2, <1>4, <1>5 DEF WithInternalEntry, NewSeparators
<1> HIDE DEF s
<1>7. Adopted(pages, pages', p, s, b)
  BY <1>2, <1>4, <1>5, <1>6, AdoptPages
<1>8. Tree(pages', header.root, NULL, NULL, lo, hi, ht)
  BY <1>4, <1>7
<1>9. /\ pages' \in [PageIds -> Node] /\ pages'[p].entries = s
      /\ \A q \in PageIds :
           /\ pages'[q].type = pages[q].type /\ pages'[q].next = pages[q].next
           /\ pages'[q].prev = pages[q].prev
           /\ q # p => pages'[q].entries = pages[q].entries
  BY <1>7 DEF Adopted
<1>10. Allocated(pages', header, hp)
  <2>1. \A q \in PageIds :
          /\ pages'[q].type = pages[q].type
          /\ q \notin NodesOf(pages) => pages'[q].next = pages[q].next /\ pages'[q].entries = pages[q].entries
    BY <1>4, <1>9
  <2> QED BY <2>1, <1>2, <1>9, AllocationKept
<1>11. pages[p].type = "INTERNAL" /\ p \notin LeavesOf(pages)
  BY <1>4 DEF InnersOf, LeavesOf
<1>12. Sized(pages')
  <2> SUFFICES ASSUME NEW q \in PageIds
               PROVE  Len(pages'[q].entries) <= IF pages'[q].type = "LEAF" THEN MaxLeaf ELSE MaxInternal
    BY DEF Sized
  <2>1. Len(pages[q].entries) <= IF pages[q].type = "LEAF" THEN MaxLeaf ELSE MaxInternal
    BY <1>2 DEF Sized
  <2>2. CASE q = p
    <3>1. Len(s) <= MaxInternal
      <4> DEFINE n == Len(pages[p].entries)
      <4>1. n \in Nat /\ n < MaxInternal /\ Len(s) = n + 1
        BY <1>1, <1>4
      <4> HIDE DEF n
      <4> QED BY <4>1, SizeFacts
    <3> QED BY <2>2, <3>1, <1>9, <1>11
  <2>3. CASE q # p
    BY <2>1, <2>3, <1>9
  <2> QED BY <2>2, <2>3
<1>13. /\ LeavesOf(pages') = LeavesOf(pages)
       /\ \A q \in LeavesOf(pages) : pages'[q].entries = pages[q].entries
  BY <1>9, <1>11 DEF LeavesOf
<1>14. Filled(pages', header.root, Idle)
  BY <1>2, <1>13 DEF Filled
<1>17. Linked(pages', lo, hi)
  <2>1. \A q \in LeavesOf(pages) : pages'[q].next = pages[q].next /\ pages'[q].prev = pages[q].prev
    BY <1>9 DEF LeavesOf
  <2>2. Linked(pages, lo, hi)
    BY <1>3 DEF PendingSound
  <2> QED BY <2>1, <2>2, <1>13, LinksKept
<1>15. TreeInv(hp)'
  <2>1. IsTree(pages', header.root, Idle)
    BY <1>8, <1>17, WholeTree, IdleIsSound
  <2> QED BY <2>1, <1>1, <1>10, <1>12, <1>14, IdleIsSound DEF TreeInv, Good
<1>16. DictOf(pages') = DictOf(pages)
  BY <1>13, DictStays
<1> QED BY <1>15, <1>16, DictionaryIsDictOf

(* The children that split_internal moves are nodes, and not the node that *)
(* is split.                                                               *)
LEMMA MovedFacts ==
  ASSUME NEW pg, NEW root, NEW lo, NEW hi, NEW ht, Tree(pg, root, NULL, NULL, lo, hi, ht),
         NEW x \in InnersOf(pg), NEW n \in 1 .. Len(pg[x].entries) - 1, NEW left, NEW right,
         AreHalves(pg[x], n, left, right)
  PROVE  x \notin MovedChildren(right)
<1>1. /\ x \in PageIds /\ pg[x].entries \in Seq(InternalEntry) /\ Ascending(pg[x].entries)
  BY SoundFacts
<1>2. /\ HalfEntries(pg[x], n, left, right)
      /\ HalfChildren(pg[x], n, left, right, pg[x].entries[n + 1].key)
  BY <1>1, SplitChildren
<1>3. right.entries \in Seq(InternalEntry)
  BY <1>2 DEF HalfEntries
<1>4. /\ DOMAIN Kids(right) = Positions(right)
      /\ \A i \in Positions(right) : Kids(right)[i] = Kid(right, i)
  BY <1>3, KidsByPosition
<1>5. SUFFICES ASSUME NEW i \in Positions(right), Kid(right, i) = x PROVE FALSE
  BY <1>4 DEF MovedChildren, Range
<1>6. PICK j \in Positions(pg[x]) : Kid(pg[x], j) = x
  BY <1>2, <1>5 DEF HalfChildren
<1>7. ht[x] = ht[x] + 1 /\ ht[x] \in Nat
  BY <1>6, KidFacts, SoundFacts
<1> QED BY <1>7

(* What split_internal writes: y becomes f, x gets the entries s, and the  *)
(* pages of M and the page b their new parents.                            *)
InnerSplitPages(pg, pg2, x, s, y, f, M, b) ==
  /\ pg2 \in [PageIds -> Node]
  /\ pg2[x].entries = s /\ pg2[y] = f
  /\ \A q \in PageIds : q # y =>
       /\ pg2[q].type = pg[q].type /\ pg2[q].left = pg[q].left /\ pg2[q].next = pg[q].next
       /\ pg2[q].prev = pg[q].prev
       /\ pg2[q].parent = IF q \in M THEN y ELSE IF q = b THEN x ELSE pg[q].parent
       /\ q # x => pg2[q].entries = pg[q].entries

(* The assignment of SplitInternal, page by page. *)
LEMMA WriteInnerSplit ==
  ASSUME NEW pg \in [PageIds -> Node], NEW x \in PageIds, NEW y \in PageIds, NEW b \in PageIds,
         x # y, NEW s \in Seq(InternalEntry), NEW f \in Node, NEW M,
         NEW pg2, pg2 = [SetParents(SetParents(pg, {b}, x), M, y) EXCEPT ![y] = f,
                                                                        ![x].entries = s]
  PROVE  InnerSplitPages(pg, pg2, x, s, y, f, M, b)
<1> DEFINE one == SetParents(pg, {b}, x)
           base == SetParents(one, M, y)
           c == [base[x] EXCEPT !.entries = s]
<1>1. x \in Links /\ y \in Links /\ s \in Entries
  BY PageFacts DEF Entries
<1>2. NewParents(pg, one, {b}, x)
  BY <1>1, SetParentsFacts
<1>3. one \in [PageIds -> Node]
  BY <1>2 DEF NewParents
<1> HIDE DEF one
<1>4. NewParents(one, base, M, y)
  BY <1>1, <1>3, SetParentsFacts
<1> HIDE DEF base
<1>5. /\ base \in [PageIds -> Node]
      /\ \A q \in PageIds :
           /\ base[q].type = pg[q].type /\ base[q].left = pg[q].left /\ base[q].next = pg[q].next
           /\ base[q].entries = pg[q].entries /\ base[q].prev = pg[q].prev
           /\ base[q].parent = IF q \in M THEN y ELSE IF q = b THEN x ELSE pg[q].parent
  BY <1>2, <1>4 DEF NewParents
<1>6. base[x] \in Node
  BY <1>5
<1>7. /\ c \in Node /\ c.entries = s /\ c.type = base[x].type /\ c.parent = base[x].parent
      /\ c.left = base[x].left /\ c.next = base[x].next /\ c.prev = base[x].prev
  BY <1>1, <1>6, NewEntries
<1>8. pg2 = [base EXCEPT ![y] = f, ![x] = c]
  BY <1>5 DEF base, one
<1> HIDE DEF c
<1>9. /\ pg2 \in [PageIds -> Node] /\ pg2[x] = c /\ pg2[y] = f
      /\ \A q \in PageIds : q # x /\ q # y => pg2[q] = base[q]
  <2>1. c \in Node /\ base \in [PageIds -> Node]
    BY <1>5, <1>7
  <2> QED BY <2>1, <1>8
<1>10. ASSUME NEW q \in PageIds, q # y
       PROVE  /\ pg2[q].type = base[q].type /\ pg2[q].left = base[q].left
              /\ pg2[q].next = base[q].next /\ pg2[q].parent = base[q].parent
              /\ pg2[q].prev = base[q].prev
              /\ q # x => pg2[q].entries = base[q].entries
  <2>1. CASE q = x BY <2>1, <1>7, <1>9
  <2>2. CASE q # x BY <2>2, <1>9, <1>10
  <2> QED BY <2>1, <2>2
<1>11. pg2[x].entries = s
  BY <1>7, <1>9
<1>12. pg2 \in [PageIds -> Node] /\ pg2[y] = f
  BY <1>9
<1> HIDE DEF one, base
<1>13. ASSUME NEW q \in PageIds, q # y
       PROVE  /\ pg2[q].type = pg[q].type /\ pg2[q].left = pg[q].left /\ pg2[q].next = pg[q].next
              /\ pg2[q].prev = pg[q].prev
              /\ pg2[q].parent = IF q \in M THEN y ELSE IF q = b THEN x ELSE pg[q].parent
              /\ q # x => pg2[q].entries = pg[q].entries
  BY ZenonT(40), <1>5, <1>10, <1>13
<1> QED BY <1>11, <1>12, <1>13 DEF InnerSplitPages

(* split_internal: with the separator in the parent the tree would be      *)
(* whole (Adoption); halving that parent gives a tree with a new separator *)
(* on its way up.                                                          *)
LEMMA SplitInternalKeeps ==
  ASSUME NEW hp, TreeInv(hp), SplitInternal
  PROVE  TreeInv(hp)' /\ Dictionary' = Dictionary
<1> DEFINE p == pages[call.pid].parent
           b == call.right
           e == [key |-> call.key, right_child |-> b]
           all == WithInternalEntry(pages[p], e).entries
           n == Len(all) \div 2
           mid == all[n + 1]
           y == NewPage
           s == SubSeq(all, 1, n)
           t == SubSeq(all, n + 2, Len(all))
           f == InternalNode(pages[p].parent, mid.right_child, t)
           M == MovedChildren(f)
           c == Call("insert_into_parent", p, mid.key, y)
<1>1. /\ call.fn = "insert_into_parent" /\ HasParent /\ MayAlloc
      /\ Len(pages[p].entries) >= MaxInternal
      /\ pages' = [SetParents(SetParents(pages, {b}, p), M, y) EXCEPT ![y] = f, ![p].entries = s]
      /\ header' = HeaderAfterAlloc /\ call' = c
  BY DEF SplitInternal
<1>2. /\ Allocated(pages, header, hp) /\ Sized(pages) /\ pages \in [PageIds -> Node]
      /\ header \in HeaderType
      /\ \A q \in LeavesOf(pages) : Len(pages[q].entries) >= MinLeaf
  BY <1>1, PendingFacts
<1>3. PICK lo, hi, ht : PendingSound(lo, hi, ht)
  BY <1>1, PendingFacts
<1>4. /\ p \in InnersOf(pages) /\ p \in PageIds /\ p # b /\ p \in NodesOf(pages)
      /\ all \in Seq(InternalEntry) /\ Len(all) = Len(pages[p].entries) + 1
      /\ Len(pages[p].entries) \in Nat
      /\ \A pg : Adopted(pages, pg, p, all, b) => Tree(pg, header.root, NULL, NULL, lo, hi, ht)
  <2> DEFINE new == NewSeparators(p, e)
  <2>1. /\ p \in InnersOf(pages) /\ p \in PageIds /\ p # b /\ p \in NodesOf(pages)
        /\ new \in Seq(InternalEntry) /\ Len(new) = Len(pages[p].entries) + 1
        /\ Len(pages[p].entries) \in Nat
        /\ \A pg : Adopted(pages, pg, p, new, b) => Tree(pg, header.root, NULL, NULL, lo, hi, ht)
    BY <1>1, <1>3, Adoption
  <2>2. all = new
    <3>1. pages[p] \in Node
      BY <2>1, <1>2
    <3> HIDE DEF p, e
    <3> QED BY <3>1 DEF WithInternalEntry, NewSeparators, Node
  <2> HIDE DEF new, all
  <2> QED BY <2>1, <2>2
<1>5. b \in PageIds
  BY <1>3 DEF PendingSound
<1>6. /\ y \in PageIds /\ y \notin NodesOf(pages) /\ y = PageTaken(pages, header)
      /\ header.free # NULL \/ header.next <= MaxPage
      /\ HeaderAfterAlloc \in HeaderType /\ HeaderAfterAlloc.root = header.root
      /\ HeaderAfterAlloc.free = (IF header.free # NULL THEN pages[header.free].next ELSE NULL)
      /\ HeaderAfterAlloc.next = (IF header.free # NULL THEN header.next ELSE header.next + 1)
  BY <1>1, <1>2, AllocFacts
<1>7. y # p
  BY <1>4, <1>6
<1> HIDE DEF p, b, e, y, all
<1>8. Len(all) = MaxInternal + 1
  <2>1. pages[p].type = "INTERNAL"
    BY <1>4 DEF InnersOf
  <2>2. Len(pages[p].entries) <= MaxInternal
    BY <2>1, <1>2, <1>4 DEF Sized
  <2> DEFINE m == Len(pages[p].entries)
  <2>3. m \in Nat /\ m <= MaxInternal /\ m >= MaxInternal /\ Len(all) = m + 1
    BY <2>2, <1>1, <1>4
  <2> HIDE DEF m
  <2> QED BY <2>3, SizeFacts
<1>9. n \in 1 .. MaxInternal /\ n \in 1 .. Len(all) - 1
  <2>1. n = (MaxInternal + 1) \div 2
    BY <1>8
  <2> HIDE DEF n
  <2> QED BY <2>1, <1>8, SizeFacts
<1> HIDE DEF n
<1>10. /\ mid \in InternalEntry /\ mid.right_child \in PageIds /\ mid.key \in Keys
       /\ s \in Seq(InternalEntry) /\ Len(s) = n
       /\ t \in Seq(InternalEntry) /\ Len(t) = MaxInternal - n
  <2>1. n + 1 \in 1 .. Len(all) /\ n + 2 \in 1 .. Len(all) + 1 /\ Len(all) \in n + 1 .. Len(all)
        /\ n \in 0 .. Len(all) /\ 1 \in 1 .. Len(all) + 1 /\ Len(all) - (n + 2) + 1 = MaxInternal - n
        /\ n - 1 + 1 = n /\ n + 2 - 1 = n + 1 /\ 1 - 1 = 0
    BY <1>8, <1>9, SizeFacts
  <2>2. mid \in InternalEntry /\ mid.right_child \in PageIds /\ mid.key \in Keys
    BY <2>1, <1>4, EntryFacts
  <2>3. s \in Seq(InternalEntry) /\ Len(s) = n - 1 + 1
    BY <2>1, <1>4, Part
  <2>4. t \in Seq(InternalEntry) /\ Len(t) = Len(all) - (n + 2) + 1
    BY SMTT(30), <2>1, <1>4, Part
  <2> QED BY <2>1, <2>2, <2>3, <2>4
<1>11. /\ f \in Node /\ f.type = "INTERNAL" /\ f.left = mid.right_child /\ f.entries = t
  <2>1. pages[p].parent \in Links /\ mid.right_child \in Links
    BY <1>2, <1>4, <1>10, NodeFacts, PageFacts
  <2> HIDE DEF mid, t
  <2> QED BY <2>1, <1>10, NewNodes
<1> HIDE DEF s, t, f, mid, M
<1>12. InnerSplitPages(pages, pages', p, s, y, f, M, b)
  BY <1>1, <1>2, <1>4, <1>5, <1>6, <1>7, <1>10, <1>11, WriteInnerSplit
<1> DEFINE one == [pages EXCEPT ![p] = [pages[p] EXCEPT !.entries = all],
                                ![b] = [pages[b] EXCEPT !.parent = p]]
<1>13. Adopted(pages, one, p, all, b)
  BY <1>2, <1>4, <1>5, AdoptPages
<1>14. Tree(one, header.root, NULL, NULL, lo, hi, ht)
  BY <1>4, <1>13
<1> HIDE DEF one
<1>15. /\ one \in [PageIds -> Node] /\ one[p].entries = all
       /\ \A q \in PageIds :
            /\ one[q].type = pages[q].type /\ one[q].left = pages[q].left
            /\ one[q].parent = IF q = b THEN p ELSE pages[q].parent
            /\ q # p => one[q].entries = pages[q].entries
       /\ InnersOf(one) = InnersOf(pages) /\ NodesOf(one) = NodesOf(pages)
  <2>1. /\ one \in [PageIds -> Node] /\ one[p].entries = all
        /\ \A q \in PageIds :
            /\ one[q].type = pages[q].type /\ one[q].left = pages[q].left
            /\ one[q].parent = IF q = b THEN p ELSE pages[q].parent
            /\ q # p => one[q].entries = pages[q].entries
    BY <1>13 DEF Adopted
  <2> QED BY <2>1 DEF InnersOf, LeavesOf, NodesOf
<1>16. /\ pages' \in [PageIds -> Node] /\ pages'[p].entries = s /\ pages'[y] = f
       /\ \A q \in PageIds : q # y =>
            /\ pages'[q].type = pages[q].type /\ pages'[q].left = pages[q].left
            /\ pages'[q].next = pages[q].next /\ pages'[q].prev = pages[q].prev
            /\ pages'[q].parent = IF q \in M THEN y ELSE IF q = b THEN p ELSE pages[q].parent
            /\ q # p => pages'[q].entries = pages[q].entries
  BY <1>12 DEF InnerSplitPages
<1>17. AreHalves(one[p], n, pages'[p], pages'[y])
  BY <1>4, <1>7, <1>11, <1>15, <1>16 DEF AreHalves, s, t, mid
<1>18. p \notin M
  <2>1. p \in InnersOf(one) /\ n \in 1 .. Len(one[p].entries) - 1
    BY <1>4, <1>9, <1>15
  <2>2. p \notin MovedChildren(pages'[y])
    BY <2>1, <1>14, <1>17, MovedFacts
  <2> QED BY <2>2, <1>16 DEF M
<1> DEFINE lo2 == [lo EXCEPT ![y] = mid.key]
           hi2 == [hi EXCEPT ![p] = mid.key, ![y] = hi[p]]
           ht2 == [ht EXCEPT ![y] = ht[p]]
<1>19. Tree(pages', header.root, p, y, lo2, hi2, ht2)
  <2>1. p \in InnersOf(one) /\ y \in PageIds /\ y \notin NodesOf(one)
        /\ n \in 1 .. Len(one[p].entries) - 1
    BY <1>4, <1>6, <1>9, <1>15
  <2>2. /\ pages'[p].type = "INTERNAL" /\ pages'[p].parent = one[p].parent
        /\ pages'[y].type = "INTERNAL" /\ pages' \in [PageIds -> Node]
    BY <1>4, <1>7, <1>11, <1>15, <1>16, <1>18 DEF InnersOf
  <2>3. ASSUME NEW q \in PageIds, q # p, q # y
        PROVE  /\ pages'[q].type = one[q].type /\ pages'[q].left = one[q].left
               /\ pages'[q].entries = one[q].entries
               /\ pages'[q].parent = IF q \in MovedChildren(pages'[y]) THEN y ELSE one[q].parent
    BY <2>3, <1>15, <1>16 DEF M
  <2> DEFINE k == one[p].entries[n + 1].key
  <2>4. mid.key = k
    BY <1>15 DEF mid
  <2>5. Tree(pages', header.root, p, y, [lo EXCEPT ![y] = k], [hi EXCEPT ![p] = k, ![y] = hi[p]], ht2)
    BY <2>1, <2>2, <2>3, <1>14, <1>17, InnerSplit
  <2> HIDE DEF k
  <2> QED BY <2>4, <2>5
<1>20. Allocated(pages', HeaderAfterAlloc, hp)
  <2>1. \A q \in PageIds : q # y =>
          /\ pages'[q].type = pages[q].type
          /\ q \notin NodesOf(pages) => pages'[q].next = pages[q].next /\ pages'[q].entries = pages[q].entries
    BY <1>4, <1>16
  <2>2. pages'[y].type \in {"LEAF", "INTERNAL"} /\ pages' \in [PageIds -> Node]
    BY <1>11, <1>16
  <2> QED BY <2>1, <2>2, <1>2, <1>6, AllocationTakes
<1>21. Sized(pages')
  <2> SUFFICES ASSUME NEW q \in PageIds
               PROVE  Len(pages'[q].entries) <= IF pages'[q].type = "LEAF" THEN MaxLeaf ELSE MaxInternal
    BY DEF Sized
  <2>1. Len(pages[q].entries) <= IF pages[q].type = "LEAF" THEN MaxLeaf ELSE MaxInternal
    BY <1>2 DEF Sized
  <2>2. CASE q = y
    <3>1. Len(pages'[q].entries) = MaxInternal - n /\ pages'[q].type = "INTERNAL"
      BY <2>2, <1>10, <1>11, <1>16
    <3> QED BY <3>1, <1>9, SizeFacts
  <2>3. CASE q = p
    <3>1. Len(pages'[q].entries) = n /\ pages'[q].type = "INTERNAL"
      BY <2>3, <1>4, <1>7, <1>10, <1>16 DEF InnersOf
    <3> QED BY <3>1, <1>9, SizeFacts
  <2>4. CASE q # y /\ q # p
    BY <2>1, <2>4, <1>16
  <2> QED BY <2>2, <2>3, <2>4
<1>22. /\ LeavesOf(pages') = LeavesOf(pages)
       /\ \A q \in LeavesOf(pages) : pages'[q].entries = pages[q].entries
  <2>1. \A q \in LeavesOf(pages) : q # y /\ q \in PageIds /\ q # p
    BY <1>4, <1>6 DEF LeavesOf, NodesOf, InnersOf
  <2>2. pages'[y].type = "INTERNAL"
    BY <1>11, <1>16
  <2>3. LeavesOf(pages') = LeavesOf(pages)
    BY <2>1, <2>2, <1>16 DEF LeavesOf
  <2> QED BY <2>1, <2>3, <1>16
<1>23. Filled(pages', header.root, c)
  BY <1>2, <1>22 DEF Filled
<1>24. c.fn = "insert_into_parent" /\ c.pid = p /\ c.right = y /\ c.key = mid.key
  BY DEF Call
<1>29. Linked(pages', lo2, hi2)
  <2>1. lo \in [PageIds -> Nat] /\ hi \in [PageIds -> Nat] /\ Linked(pages, lo, hi)
    BY <1>3 DEF PendingSound, Tree, Typed
  <2>2. \A q \in LeavesOf(pages) : q # y /\ q \in PageIds /\ q # p
    BY <1>4, <1>6 DEF LeavesOf, NodesOf, InnersOf
  <2>3. \A q \in LeavesOf(pages) : lo2[q] = lo[q] /\ hi2[q] = hi[q]
    BY <2>1, <2>2
  <2>4. \A q \in LeavesOf(pages) : pages'[q].next = pages[q].next /\ pages'[q].prev = pages[q].prev
    BY <2>2, <1>16
  <2> HIDE DEF lo2, hi2
  <2> QED BY <2>1, <2>3, <2>4, <1>22, LinksKept
<1>25. IsTree(pages', header.root, c)
  <2>1. lo2[y] = mid.key
    BY <1>6, <1>3 DEF PendingSound, Tree, Typed
  <2> HIDE DEF lo2, hi2, ht2, c
  <2>2. LeftHalf(c) = p /\ RightHalf(c) = y
    BY <1>24 DEF LeftHalf, RightHalf
  <2> QED BY <2>1, <2>2, <1>19, <1>24, <1>29 DEF IsTree
<1>26. CallIsSound(pages', c)
  <2>1. p \in NodesOf(pages')
    BY <1>4, <1>7, <1>16 DEF InnersOf, NodesOf
  <2>2. c \in CallType
    <3>1. p \in Links /\ y \in Links /\ mid.key \in 0 .. MaxKey
      <4>1. mid.key \in 1 .. MaxKey
        BY <1>10 DEF Keys
      <4>2. p \in Links /\ y \in Links
        BY <1>4, <1>6, PageFacts
      <4> DEFINE k == mid.key
      <4>3. k \in 1 .. MaxKey
        BY <4>1
      <4> HIDE DEF k
      <4>4. k \in 0 .. MaxKey
        BY <4>3, SizeFacts
      <4> QED BY <4>2, <4>4 DEF k
    <3> QED BY <3>1 DEF CallType, Call
  <2> HIDE DEF c
  <2> QED BY <2>1, <2>2, <1>6, <1>10, <1>24 DEF CallIsSound
<1>27. TreeInv(hp)'
  <2> HIDE DEF c
  <2> QED BY <1>1, <1>6, <1>20, <1>21, <1>23, <1>25, <1>26 DEF TreeInv, Good
<1>28. DictOf(pages') = DictOf(pages)
  BY <1>22, DictStays
<1> QED BY <1>27, <1>28, DictionaryIsDictOf

(* What split_leaf writes: y becomes f, x gets the entries s and y as its  *)
(* next leaf; of the leaf behind it only prev changes.                     *)
LeafSplitPages(pg, pg2, x, s, y, f) ==
  /\ pg2 \in [PageIds -> Node]
  /\ pg2[x].entries = s /\ pg2[x].next = y /\ pg2[y] = f
  /\ \A q \in PageIds : q # y =>
       /\ pg2[q].type = pg[q].type /\ pg2[q].parent = pg[q].parent /\ pg2[q].left = pg[q].left
       /\ q # x => pg2[q].next = pg[q].next /\ pg2[q].entries = pg[q].entries
       /\ q = pg[x].next => pg2[q].prev = y
       /\ q # pg[x].next => pg2[q].prev = pg[q].prev

(* The assignment of SplitLeaf, page by page. *)
LEMMA WriteLeafSplit ==
  ASSUME NEW pg, NEW base, NEW x \in PageIds, NEW y \in PageIds, x # y,
         SameButPrev(pg, base, pg[x].next, y),
         NEW s \in Seq(LeafEntry), NEW f \in Node,
         NEW pg2, pg2 = [base EXCEPT ![y] = f, ![x].entries = s, ![x].next = y]
  PROVE  LeafSplitPages(pg, pg2, x, s, y, f)
<1> DEFINE d == [base[x] EXCEPT !.entries = s]
           c == [d EXCEPT !.next = y]
<1>1. y \in Links /\ s \in Entries
  BY PageFacts DEF Entries
<1>2. /\ base \in [PageIds -> Node]
      /\ \A q \in PageIds :
       /\ base[q].type = pg[q].type /\ base[q].parent = pg[q].parent /\ base[q].left = pg[q].left
       /\ base[q].next = pg[q].next /\ base[q].entries = pg[q].entries
       /\ q = pg[x].next => base[q].prev = y
       /\ q # pg[x].next => base[q].prev = pg[q].prev
  BY DEF SameButPrev
<1>3. base[x] \in Node
  BY <1>2
<1>4. /\ d \in Node /\ d.entries = s /\ d.type = base[x].type /\ d.parent = base[x].parent
      /\ d.left = base[x].left /\ d.prev = base[x].prev
  BY <1>1, <1>3, NewEntries
<1>5. pg2 = [base EXCEPT ![y] = f, ![x] = c]
  BY <1>2
<1> HIDE DEF d
<1>6. /\ c \in Node /\ c.entries = s /\ c.type = base[x].type /\ c.parent = base[x].parent
      /\ c.left = base[x].left /\ c.next = y /\ c.prev = base[x].prev
  BY <1>1, <1>4, NewLink
<1> HIDE DEF c
<1>7. /\ pg2 \in [PageIds -> Node] /\ pg2[x] = c /\ pg2[y] = f
      /\ \A q \in PageIds : q # x /\ q # y => pg2[q] = base[q]
  <2>1. c \in Node /\ base \in [PageIds -> Node]
    BY <1>2, <1>6
  <2> QED BY ZenonT(40), <2>1, <1>5
<1>8. ASSUME NEW q \in PageIds, q # y
      PROVE  /\ pg2[q].type = pg[q].type /\ pg2[q].parent = pg[q].parent
             /\ pg2[q].left = pg[q].left
             /\ q # x => pg2[q].next = pg[q].next /\ pg2[q].entries = pg[q].entries
             /\ q = pg[x].next => pg2[q].prev = y
             /\ q # pg[x].next => pg2[q].prev = pg[q].prev
  <2>1. CASE q = x BY <2>1, <1>2, <1>6, <1>7
  <2>2. CASE q # x BY <2>2, <1>2, <1>7, <1>8
  <2> QED BY <2>1, <2>2
<1>9. pg2[x].entries = s /\ pg2[x].next = y /\ pg2 \in [PageIds -> Node] /\ pg2[y] = f
  BY <1>6, <1>7
<1> QED BY <1>8, <1>9 DEF LeafSplitPages

(* split_leaf adds the pair, for a key that has none, and leaves a tree    *)
(* whose right half is not yet attached.                                   *)
LEMMA SplitLeafKeeps ==
  ASSUME NEW hp, TreeInv(hp), NEW k \in Keys, NEW r \in Refs, SplitLeaf(k, r)
  PROVE  /\ TreeInv(hp)' /\ Dictionary' = Dictionary \cup {<<k, r>>}
         /\ \A pair \in Dictionary : pair[1] # k
<1> DEFINE x == FindLeaf(k)
           e == [key |-> k, row_ref |-> r]
           all == WithLeafEntry(pages[x], e).entries
           n == Len(all) \div 2
           mid == all[n + 1].key
           y == NewPage
           s == SubSeq(all, 1, n)
           t == SubSeq(all, n + 1, Len(all))
           f == LeafNode(pages[x].parent, pages[x].next, x, t)
           base == LinkBack(pages, pages[x].next, y)
           c == Call("insert_into_parent", x, mid, y)
<1>1. /\ call = Idle /\ Matches(pages[x], k) = {} /\ Len(pages[x].entries) >= MaxLeaf
      /\ MayAlloc
      /\ pages' = [base EXCEPT ![y] = f, ![x].entries = s, ![x].next = y]
      /\ header' = HeaderAfterAlloc /\ call' = c
  BY DEF SplitLeaf
<1>2. /\ Allocated(pages, header, hp) /\ Sized(pages) /\ Filled(pages, header.root, call)
      /\ pages \in [PageIds -> Node] /\ header \in HeaderType
  BY <1>1, IdleFacts
<1>3. PICK lo, hi, ht : Tree(pages, header.root, NULL, NULL, lo, hi, ht) /\ Linked(pages, lo, hi)
  BY <1>1, IdleFacts
<1>4. k \in 0 .. MaxKey
  BY SizeFacts DEF Keys
<1>5. x \in LeavesOf(pages) /\ lo[x] <= k /\ k < hi[x]
  BY <1>3, <1>4, FindLeafFacts
<1>6. e \in LeafEntry /\ e.key = k /\ e.row_ref = r
  BY DEF LeafEntry
<1>7. /\ LeafCovers(pages[x], lo[x], hi[x]) /\ lo[x] \in Int /\ hi[x] \in Int /\ x \in PageIds
      /\ pages[x].entries \in Seq(LeafEntry) /\ Ascending(pages[x].entries)
      /\ pages[x] \in Node /\ x \in NodesOf(pages) /\ pages[x].type = "LEAF"
      /\ Len(pages[x].entries) \in Nat
  BY <1>3, <1>5, LeafFacts, EntryFacts
<1>8. /\ y \in PageIds /\ y \notin NodesOf(pages) /\ y = PageTaken(pages, header)
      /\ header.free # NULL \/ header.next <= MaxPage
      /\ HeaderAfterAlloc \in HeaderType /\ HeaderAfterAlloc.root = header.root
      /\ HeaderAfterAlloc.free = (IF header.free # NULL THEN pages[header.free].next ELSE NULL)
      /\ HeaderAfterAlloc.next = (IF header.free # NULL THEN header.next ELSE header.next + 1)
  BY <1>1, <1>2, AllocFacts
<1>9. x # y
  BY <1>7, <1>8
<1>10. \A pair \in DictOf(pages) : pair[1] # k
  BY <1>1, <1>3, NoMatchNoPair
<1>11. \A p \in LeavesOf(pages) : p # x => Len(pages[p].entries) >= MinLeaf
  <2> SUFFICES ASSUME NEW p \in LeavesOf(pages), p = header.root PROVE p = x
    BY <1>1, <1>2 DEF Filled, Exempt, Idle, Call
  <2>1. NULL # p
    BY PageFacts DEF LeavesOf
  <2>2. lo[p] = 0 /\ hi[p] = MaxKey + 1
    BY <2>1, <1>3 DEF Tree, RootSound, End
  <2>3. lo[p] <= k /\ k < hi[p]
    BY <2>2, <1>4, SizeFacts
  <2> QED BY <2>3, <1>3, <1>4, FindLeafFacts
<1> HIDE DEF x, e, y
<1>12. all = InsertAt(pages[x].entries, LeafFind(pages[x], e.key) + 1, e)
  BY <1>7 DEF WithLeafEntry, Node
<1> DEFINE big == [pages[x] EXCEPT !.entries = all]
<1>13. all \in Seq(LeafEntry)
  <2>1. LeafFind(pages[x], e.key) \in 0 .. Len(pages[x].entries) /\ Len(pages[x].entries) \in Nat
    BY <1>4, <1>6, <1>7, LeafFindFacts
  <2>2. LeafFind(pages[x], e.key) + 1 \in 1 .. Len(pages[x].entries) + 1
    BY <2>1
  <2> QED BY <2>2, <1>6, <1>7, <1>12, Insertion
<1> HIDE DEF all
<1>14. big.entries = all
  BY <1>7 DEF Node
<1> HIDE DEF big
<1>15. /\ LeafCovers(big, lo[x], hi[x]) /\ Len(all) = Len(pages[x].entries) + 1
       /\ Pairs(big) = Pairs(pages[x]) \cup {<<k, r>>}
  <2>1. lo[x] <= e.key /\ e.key < hi[x] /\ Matches(pages[x], e.key) = {}
    BY <1>1, <1>5, <1>6
  <2>2. /\ LeafCovers(big, lo[x], hi[x])
        /\ Len(big.entries) = Len(pages[x].entries) + 1
        /\ Pairs(big) = Pairs(pages[x]) \cup {<<e.key, e.row_ref>>}
    BY <2>1, <1>6, <1>7, <1>12, <1>14, LeafInsert
  <2> QED BY <2>2, <1>6, <1>14
<1>16. Len(all) = MaxLeaf + 1
  <2>1. Len(pages[x].entries) <= MaxLeaf
    BY <1>2, <1>7 DEF Sized
  <2> DEFINE m == Len(pages[x].entries)
  <2>2. m \in Nat /\ m <= MaxLeaf /\ m >= MaxLeaf /\ Len(all) = m + 1
    BY <2>1, <1>1, <1>7, <1>15
  <2> HIDE DEF m
  <2> QED BY <2>2, SizeFacts
<1>17. /\ n \in 1 .. MaxLeaf /\ n \in 1 .. Len(all) - 1 /\ MinLeaf <= n
       /\ MinLeaf <= MaxLeaf + 1 - n /\ MaxLeaf + 1 - n <= MaxLeaf
  <2>1. n = (MaxLeaf + 1) \div 2
    BY <1>16
  <2> HIDE DEF n
  <2> QED BY <2>1, <1>16, SizeFacts
<1> HIDE DEF n
<1>18. s \in Seq(LeafEntry) /\ t \in Seq(LeafEntry)
  <2>1. n + 1 \in 1 .. Len(all) + 1 /\ Len(all) \in n + 1 - 1 .. Len(all)
        /\ n \in 1 - 1 .. Len(all) /\ 1 \in 1 .. Len(all) + 1
    BY <1>16, <1>17, SizeFacts
  <2>2. s \in Seq(LeafEntry)
    BY <2>1, <1>13, Part
  <2>3. t \in Seq(LeafEntry)
    BY <2>1, <1>13, Part
  <2> QED BY <2>2, <2>3
<1>19. /\ f \in Node /\ f.type = "LEAF" /\ f.entries = t
       /\ f.next = pages[x].next /\ f.prev = x
  <2>1. pages[x].parent \in Links /\ pages[x].next \in Links /\ x \in Links
    BY <1>7, NodeFacts, PageFacts
  <2> HIDE DEF t
  <2> QED BY <2>1, <1>18, NewNodes
<1>20. SameButPrev(pages, base, pages[x].next, y)
  <2>1. pages[x].next \in Links /\ y \in Links
    BY <1>7, <1>8, NodeFacts, PageFacts
  <2> QED BY <2>1, <1>2, LinkBackFacts
<1> HIDE DEF s, t, f, mid, base
<1>21. LeafSplitPages(pages, pages', x, s, y, f)
  <2>1. pages' = [base EXCEPT ![y] = f, ![x].entries = s, ![x].next = y]
    BY <1>1
  <2>2. x \in PageIds /\ y \in PageIds /\ f \in Node
    BY <1>7, <1>8, <1>19
  <2> QED BY <2>1, <2>2, <1>9, <1>18, <1>20, WriteLeafSplit
<1>22. /\ pages' \in [PageIds -> Node] /\ pages'[x].entries = s /\ pages'[y] = f
       /\ pages'[x].next = y
       /\ \A q \in PageIds : q # y =>
            /\ pages'[q].type = pages[q].type /\ pages'[q].parent = pages[q].parent
            /\ pages'[q].left = pages[q].left
            /\ q # x => pages'[q].next = pages[q].next /\ pages'[q].entries = pages[q].entries
            /\ q = pages[x].next => pages'[q].prev = y
            /\ q # pages[x].next => pages'[q].prev = pages[q].prev
  BY <1>21 DEF LeafSplitPages
<1>23. pages'[y].type = "LEAF" /\ pages'[y].entries = t /\ pages'[x].type = "LEAF"
  BY <1>7, <1>9, <1>19, <1>22
<1>24. /\ mid \in Keys /\ lo[x] < mid /\ mid < hi[x]
       /\ LeafCovers(pages'[x], lo[x], mid) /\ LeafCovers(pages'[y], mid, hi[x])
       /\ Len(pages'[x].entries) = n /\ Len(pages'[y].entries) = Len(all) - n
       /\ Pairs(big) = Pairs(pages'[x]) \cup Pairs(pages'[y])
  <2>1. /\ pages'[x].entries = SubSeq(big.entries, 1, n)
        /\ pages'[y].entries = SubSeq(big.entries, n + 1, Len(big.entries))
        /\ n \in 1 .. Len(big.entries) - 1 /\ mid = big.entries[n + 1].key
    BY <1>14, <1>17, <1>22, <1>23 DEF s, t, mid
  <2> DEFINE m == big.entries[n + 1].key
  <2>2. /\ m \in Keys /\ lo[x] < m /\ m < hi[x]
        /\ LeafCovers(pages'[x], lo[x], m) /\ LeafCovers(pages'[y], m, hi[x])
        /\ Len(pages'[x].entries) = n /\ Len(pages'[y].entries) = Len(big.entries) - n
        /\ Pairs(big) = Pairs(pages'[x]) \cup Pairs(pages'[y])
    <3> DEFINE left == pages'[x]
               right == pages'[y]
               l == lo[x]
               h == hi[x]
    <3>1. l \in Int /\ h \in Int /\ LeafCovers(big, l, h)
      BY <1>7, <1>15
    <3>2. AreLeafHalves(big, n, left, right) /\ n \in 1 .. Len(big.entries) - 1
      BY <2>1 DEF AreLeafHalves
    <3> HIDE DEF left, right, l, h
    <3>3. Halved(big, n, left, right, l, h, m)
      BY <3>1, <3>2, LeafHalves
    <3> HIDE DEF m
    <3> QED BY <3>3 DEF left, right, l, h, Halved
  <2>3. m = mid /\ Len(big.entries) = Len(all)
    BY <2>1, <1>14
  <2> HIDE DEF m
  <2> QED BY <2>2, <2>3
<1> DEFINE lo2 == [lo EXCEPT ![y] = mid]
           hi2 == [hi EXCEPT ![x] = mid, ![y] = hi[x]]
           ht2 == [ht EXCEPT ![y] = ht[x]]
<1>25. Tree(pages', header.root, x, y, lo2, hi2, ht2)
  <2>1. mid \in Nat
    BY <1>24, SizeFacts DEF Keys
  <2>2. \A p \in PageIds : p # x /\ p # y => SameNode(pages[p], pages'[p])
    BY <1>22 DEF SameNode
  <2>3. pages'[x].parent = pages[x].parent /\ pages' \in [PageIds -> Node]
    BY <1>7, <1>9, <1>22
  <2> QED BY <2>1, <2>2, <2>3, <1>3, <1>5, <1>8, <1>23, <1>24, LeafSplit
<1>26. Allocated(pages', HeaderAfterAlloc, hp)
  <2>1. \A q \in PageIds : q # y =>
          /\ pages'[q].type = pages[q].type
          /\ q \notin NodesOf(pages) => pages'[q].next = pages[q].next /\ pages'[q].entries = pages[q].entries
    BY <1>7, <1>22
  <2>2. pages'[y].type \in {"LEAF", "INTERNAL"} /\ pages' \in [PageIds -> Node]
    BY <1>22, <1>23
  <2> QED BY <2>1, <2>2, <1>2, <1>8, AllocationTakes
<1>27. /\ Len(pages'[x].entries) \in MinLeaf .. MaxLeaf
       /\ Len(pages'[y].entries) \in MinLeaf .. MaxLeaf
  BY <1>16, <1>17, <1>24, SizeFacts
<1>28. Sized(pages')
  <2> SUFFICES ASSUME NEW q \in PageIds
               PROVE  Len(pages'[q].entries) <= IF pages'[q].type = "LEAF" THEN MaxLeaf ELSE MaxInternal
    BY DEF Sized
  <2>1. Len(pages[q].entries) <= IF pages[q].type = "LEAF" THEN MaxLeaf ELSE MaxInternal
    BY <1>2 DEF Sized
  <2>2. CASE q = y
    BY <2>2, <1>23, <1>27
  <2>3. CASE q = x
    BY <2>3, <1>23, <1>27
  <2>4. CASE q # y /\ q # x
    BY <2>1, <2>4, <1>22
  <2> QED BY <2>2, <2>3, <2>4
<1>29. /\ LeavesOf(pages') \ {x, y} = LeavesOf(pages) \ {x, y}
       /\ x \in LeavesOf(pages') /\ y \in LeavesOf(pages') /\ y \notin LeavesOf(pages)
       /\ \A p \in LeavesOf(pages) : p # x /\ p # y => pages'[p].entries = pages[p].entries
  BY <1>7, <1>8, <1>22, <1>23 DEF LeavesOf, NodesOf
<1>30. Filled(pages', header.root, c)
  <2> SUFFICES ASSUME NEW p \in LeavesOf(pages') PROVE Len(pages'[p].entries) >= MinLeaf
    BY DEF Filled
  <2>1. CASE p \in {x, y}
    BY <2>1, <1>27, SizeFacts
  <2>2. CASE p \notin {x, y}
    <3>1. p \in LeavesOf(pages)
      BY <2>2, <1>29
    <3>2. Len(pages[p].entries) >= MinLeaf /\ pages'[p].entries = pages[p].entries
      BY <3>1, <2>2, <1>11, <1>29
    <3> QED BY <3>2
  <2> QED BY <2>1, <2>2
<1>31. c.fn = "insert_into_parent" /\ c.pid = x /\ c.right = y /\ c.key = mid
  BY DEF Call
<1>36. Linked(pages', lo2, hi2)
  <2>1. lo \in [PageIds -> Nat] /\ hi \in [PageIds -> Nat] /\ Intervals(pages, lo, hi)
    BY <1>3, LeavesHaveIntervals DEF Tree, Typed
  <2>2. \A q \in LeavesOf(pages) : q # y /\ q \in PageIds
    BY <1>29 DEF LeavesOf
  <2>3. /\ lo2[y] = mid /\ hi2[y] = hi[x]
        /\ \A q \in LeavesOf(pages) :
             /\ lo2[q] = lo[q]
             /\ q = x => hi2[q] = mid
             /\ q # x => hi2[q] = hi[q]
    BY <2>1, <2>2, <1>7, <1>8, <1>9
  <2> HIDE DEF lo2, hi2
  <2>4. \A q \in LeavesOf(pages) :
          /\ q # x => pages'[q].next = pages[q].next
          /\ q = pages[x].next => pages'[q].prev = y
          /\ q # pages[x].next => pages'[q].prev = pages[q].prev
    BY <2>2, <1>22
  <2>5. pages'[x].next = y /\ pages'[y].next = pages[x].next /\ pages'[y].prev = x
    BY <1>19, <1>22
  <2>6. LeavesOf(pages') = LeavesOf(pages) \cup {y} /\ y \notin LeavesOf(pages)
    BY <1>5, <1>29
  <2>7. LeafAdded(pages, lo, hi, pages', lo2, hi2, x, y, mid)
    BY <2>3, <2>4, <2>5, <2>6, <1>5, <1>24 DEF LeafAdded
  <2> QED BY <2>1, <2>7, <1>3, LinksSplit
<1>32. IsTree(pages', header.root, c)
  <2>1. lo2[y] = mid
    BY <1>3, <1>8 DEF Tree, Typed
  <2> HIDE DEF lo2, hi2, ht2, c
  <2>2. LeftHalf(c) = x /\ RightHalf(c) = y
    BY <1>31 DEF LeftHalf, RightHalf
  <2> QED BY <2>1, <2>2, <1>25, <1>31, <1>36 DEF IsTree
<1>33. CallIsSound(pages', c)
  <2>1. x \in NodesOf(pages')
    BY <1>29 DEF NodesOf
  <2>2. c \in CallType
    <3>1. mid \in 1 .. MaxKey
      BY <1>24 DEF Keys
    <3>2. mid \in 0 .. MaxKey
      BY <3>1, SizeFacts
    <3>3. x \in Links /\ y \in Links
      BY <1>7, <1>8, PageFacts
    <3> QED BY <3>2, <3>3 DEF CallType, Call
  <2> HIDE DEF c
  <2> QED BY <2>1, <2>2, <1>8, <1>24, <1>31 DEF CallIsSound
<1>34. TreeInv(hp)'
  <2> HIDE DEF c
  <2> QED BY <1>1, <1>8, <1>26, <1>28, <1>30, <1>32, <1>33 DEF TreeInv, Good
<1>35. DictOf(pages') = DictOf(pages) \cup {<<k, r>>}
  <2> DEFINE E == {<<k, r>>}
  <2>1. Pairs(pages'[x]) \cup Pairs(pages'[y]) = Pairs(pages[x]) \cup E
    BY <1>15, <1>24
  <2> HIDE DEF E
  <2>2. Held(pages', x) \cup Held(pages', y) = Held(pages, x) \cup Held(pages, y) \cup E
    BY <2>1, <1>5, <1>29 DEF Held
  <2>3. DictOf(pages') = DictOf(pages) \cup E
    BY <2>2, <1>29, DictGrows
  <2> QED BY <2>3 DEF E
<1> QED BY <1>10, <1>34, <1>35, DictionaryIsDictOf

(* What pager_open writes is such a file: one empty leaf, which is the     *)
(* root and covers all keys.                                               *)
LEMMA InitIInv == Init => IInv
<1> SUFFICES ASSUME Init PROVE IInv
  OBVIOUS
<1> DEFINE hp == {FirstHeapPage}
           root == FirstRootPage
           lo == [p \in PageIds |-> 0]
           hi == [p \in PageIds |-> MaxKey + 1]
           ht == [p \in PageIds |-> 0]
           leaf == LeafNode(NULL, NULL, NULL, <<>>)
           heap == [ZeroNode EXCEPT !.type = "HEAP"]
<1>1. /\ MaxPage \in Nat /\ MaxPage >= 2 /\ PageIds = 1 .. MaxPage /\ Links = 0 .. MaxPage
      /\ FirstHeapPage = 1 /\ root = 2 /\ NULL = 0
  BY FileAssumption DEF PageIds, Links, FirstHeapPage, FirstRootPage, NULL
<1>2. <<>> \in Seq(LeafEntry) /\ <<>> \in Seq(InternalEntry) /\ Len(<<>>) = 0
  OBVIOUS
<1>3. /\ leaf \in Node /\ leaf.type = "LEAF" /\ leaf.parent = NULL /\ leaf.entries = <<>>
      /\ leaf.next = NULL /\ leaf.prev = NULL
  BY <1>1, <1>2 DEF LeafNode, Node
<1>4. /\ ZeroNode \in Node /\ ZeroNode.type = "ZERO" /\ ZeroNode.entries = <<>>
      /\ heap \in Node /\ heap.type = "HEAP" /\ heap.entries = <<>>
  <2> DEFINE e == <<>>
             ZeroOf(type) == [type |-> type, parent |-> NULL, left |-> NULL, next |-> NULL,
                              prev |-> NULL, entries |-> e]
  <2>1. ZeroNode = ZeroOf("ZERO") /\ heap = ZeroOf("HEAP")
    BY DEF ZeroNode
  <2>2. e \in Seq(LeafEntry)
    OBVIOUS
  <2> HIDE DEF e
  <2>3. \A type \in {"ZERO", "HEAP"} :
          ZeroOf(type) \in Node /\ ZeroOf(type).type = type /\ ZeroOf(type).entries = e
    BY <2>2, <1>1 DEF Node
  <2> HIDE DEF ZeroOf, heap
  <2> QED BY <2>1, <2>3 DEF e
<1> HIDE DEF leaf, heap
<1>5. /\ pages \in [PageIds -> Node]
      /\ \A p \in PageIds :
           pages[p] = IF p = 1 THEN heap ELSE IF p = 2 THEN leaf ELSE ZeroNode
  BY <1>1, <1>3, <1>4 DEF Init, heap, leaf
<1>6. /\ 1 \in PageIds /\ 2 \in PageIds /\ pages[2] = leaf
      /\ \A p \in PageIds : /\ pages[p].type = "LEAF" <=> p = 2
                            /\ pages[p].type # "INTERNAL" /\ pages[p].type # "FREE"
                            /\ pages[p].type = "HEAP" <=> p = 1
                            /\ pages[p].type = "ZERO" <=> p >= 3
                            /\ pages[p].entries = <<>>
  BY <1>1, <1>3, <1>4, <1>5
<1>7. LeavesOf(pages) = {2} /\ InnersOf(pages) = {} /\ NodesOf(pages) = {2} /\ FreeOf(pages) = {}
  BY <1>6 DEF LeavesOf, InnersOf, NodesOf, FreeOf
<1>8. header \in HeaderType /\ header.root = 2 /\ header.free = 0 /\ header.next = 3 /\ call = Idle
  BY <1>1 DEF Init, HeaderType
<1>9. Allocated(pages, header, hp)
  <2>1. FreeListed(pages, 0)
    <3> DEFINE c == [k \in 0 .. 0 |-> 0]
    <3>1. IsChain(NextOf(pages), 0, c, 0)
      BY <1>1 DEF IsChain, NextOf
    <3>2. ChainNodes(c, 0) = {}
      BY DEF ChainNodes
    <3> HIDE DEF c
    <3> QED BY <3>1, <3>2, <1>7 DEF FreeListed
  <2> QED BY <2>1, <1>1, <1>5, <1>6, <1>8 DEF Allocated
<1>10. Sized(pages)
  BY <1>2, <1>6, SizeFacts DEF Sized
<1>11. CallIsSound(pages, call)
  <2>1. Idle \in CallType
    BY <1>1, SizeFacts DEF Idle, Call, CallType
  <2> QED BY <2>1, <1>8, IdleIsSound
<1>12. Filled(pages, header.root, call)
  BY <1>7, <1>8, IdleIsSound DEF Filled, Exempt
<1>13. Tree(pages, 2, NULL, NULL, lo, hi, ht)
  <2>1. Typed(pages, lo, hi, ht)
    BY <1>5, SizeFacts DEF Typed
  <2>2. Ranges(pages, lo, hi, ht)
    <3>1. LeafCovers(pages[2], 0, MaxKey + 1)
      <4> DEFINE s == pages[2].entries
      <4>1. s \in Seq(LeafEntry) /\ 1 .. Len(s) = {}
        <5>1. s = <<>>
          BY <1>6
        <5>2. 1 .. Len(<<>>) = {}
          OBVIOUS
        <5>3. 1 .. Len(s) = {}
          BY <5>1, <5>2
        <5>4. s \in Seq(LeafEntry)
          BY <5>1
        <5> QED BY <5>3, <5>4
      <4> QED BY <4>1 DEF LeafCovers, Ascending
    <3> QED BY <3>1, <1>6, <1>7, SizeFacts DEF Ranges
  <2>3. AllKidsSound(pages, 2, NULL, NULL, lo, hi, ht)
    BY <1>7 DEF AllKidsSound
  <2>4. Places(pages, 2, NULL)
    BY <1>7 DEF Places
  <2>5. RootSound(pages, 2, NULL, NULL, lo, hi, ht)
    BY <1>1, <1>3, <1>6, <1>7 DEF RootSound, End
  <2>6. HalvesSound(pages, 2, NULL, NULL, lo, hi, ht)
    BY DEF HalvesSound
  <2> QED BY <2>1, <2>2, <2>3, <2>4, <2>5, <2>6 DEF Tree
<1>15. Linked(pages, lo, hi)
  BY <1>1, <1>3, <1>6, <1>7, SizeFacts DEF Linked, LinkedLeaf
<1>14. IsTree(pages, header.root, call)
  BY <1>8, <1>13, <1>15, WholeTree, IdleIsSound
<1> QED BY <1>9, <1>10, <1>11, <1>12, <1>14 DEF IInv, TreeInv, Good

(* The steps that follow an insert or a delete do not change the pairs.    *)
LEMMA ContinueKeeps ==
  ASSUME NEW hp, TreeInv(hp), Continue
  PROVE  TreeInv(hp)' /\ Dictionary' = Dictionary
<1>1. CASE GrowRoot BY <1>1, GrowRootKeeps
<1>2. CASE InsertSeparator BY <1>2, InsertSeparatorKeeps
<1>3. CASE SplitInternal BY <1>3, SplitInternalKeeps
<1>4. CASE LeaveLeaf BY <1>4, LeaveLeafKeeps
<1>5. CASE BorrowRight BY <1>5, BorrowRightKeeps
<1>6. CASE BorrowLeft BY <1>6, BorrowLeftKeeps
<1>7. CASE MergeIntoLeft BY <1>7, MergeIntoLeftKeeps
<1>8. CASE MergeRight BY <1>8, MergeRightKeeps
<1>9. CASE MergeMissingSibling BY <1>9, MergeMissingSiblingKeeps
<1>10. CASE ShrinkRoot BY <1>10, ShrinkRootKeeps
<1>11. CASE LeaveInternal BY <1>11, LeaveInternalKeeps
<1> QED BY <1>1, <1>2, <1>3, <1>4, <1>5, <1>6, <1>7, <1>8, <1>9, <1>10, <1>11 DEF Continue

(* Every step keeps the invariant, and changes the dictionary as the call  *)
(* it starts says.                                                         *)
LEMMA StepKeeps ==
  ASSUME NEW hp, TreeInv(hp), Next
  PROVE  TreeInv(hp)'
<1>1. CASE \E k \in Keys, r \in Refs : InsertInLeaf(k, r) \/ SplitLeaf(k, r)
  BY <1>1, InsertInLeafKeeps, SplitLeafKeeps
<1>2. CASE \E k \in Keys : Delete(k)
  BY <1>2, DeleteKeeps
<1>3. CASE Continue
  BY <1>3, ContinueKeeps
<1> QED BY <1>1, <1>2, <1>3 DEF Next

(* Where no variable changes, nothing does. *)
LEMMA StutterKeeps ==
  ASSUME NEW hp, TreeInv(hp), UNCHANGED vars
  PROVE  TreeInv(hp)' /\ Dictionary' = Dictionary
BY DEF vars, TreeInv, Dictionary, LeafPages

(* The tree of bptree.c is a tree at every step of every call.             *)
THEOREM TreeIsSound == Spec => []IInv
<1>1. Init => IInv
  BY InitIInv
<1>2. IInv /\ [Next]_vars => IInv'
  BY StepKeeps, StutterKeeps DEF IInv
<1> QED BY <1>1, <1>2, PTL DEF Spec

(* Pages, header and call keep the types of their C counterparts, and no   *)
(* array of entries ever overflows.                                        *)
THEOREM TypeIsOK == Spec => []TypeOK
<1>1. IInv => TypeOK
  BY DEF IInv, TreeInv, Good, Allocated, Sized, HeaderType, CallIsSound, CallType, TypeOK
<1> QED BY <1>1, TreeIsSound, PTL

-----------------------------------------------------------------------------
(* bptree_search *)

(* leaf_find stops at the key, if it is there. *)
LEMMA LeafFindsKey ==
  ASSUME NEW node, node.entries \in Seq(LeafEntry), Ascending(node.entries), NEW k \in Keys
  PROVE  Matches(node, k) \subseteq {LeafFind(node, k) + 1}
<1> DEFINE s == node.entries
           f == LeafFind(node, k)
<1>1. k \in Int
  BY SizeFacts DEF Keys
<1>2. /\ f \in 0 .. Len(s) /\ \A i \in 1 .. Len(s) : s[i].key < k <=> i <= f
  BY <1>1, LeafFindFacts
<1>3. /\ Len(s) \in Nat /\ DOMAIN s = 1 .. Len(s) /\ \A i \in 1 .. Len(s) : s[i].key \in Int
      /\ \A i, j \in 1 .. Len(s) : i < j => s[i].key < s[j].key
  BY EntryFacts DEF Ascending
<1>4. SUFFICES ASSUME NEW i \in 1 .. Len(s), s[i].key = k, i # f + 1 PROVE FALSE
  BY <1>3 DEF Matches
<1> HIDE DEF s, f
<1>5. i > f + 1
  <2>1. ~(s[i].key < k)
    BY <1>1, <1>4
  <2>2. ~(i <= f)
    BY <2>1, <1>2
  <2> QED BY <2>2, <1>2, <1>3, <1>4
<1>6. f + 1 \in 1 .. Len(s) /\ f + 1 < i /\ ~(f + 1 <= f)
  BY <1>2, <1>3, <1>5
<1>7. s[f + 1].key < s[i].key
  BY <1>3, <1>6
<1>8. s[f + 1].key < k
  BY <1>4, <1>7
<1> QED BY <1>2, <1>6, <1>8

(* bptree_search finds every key the leaves hold, with its own row         *)
(* reference, and no other: in a tree of any height, after any inserts and *)
(* deletes.                                                                *)
LEMMA SearchFacts ==
  ASSUME NEW hp, TreeInv(hp), call = Idle, NEW k \in Keys
  PROVE  Search(k) = {r \in Refs : <<k, r>> \in Dictionary}
<1> DEFINE x == FindLeaf(k)
           s == pages[x].entries
           i == LeafFind(pages[x], k) + 1
<1>1. PICK lo, hi, ht : Tree(pages, header.root, NULL, NULL, lo, hi, ht)
  BY IdleFacts
<1>2. k \in 0 .. MaxKey
  BY SizeFacts DEF Keys
<1>3. x \in LeavesOf(pages)
  BY <1>1, <1>2, FindLeafFacts
<1>4. s \in Seq(LeafEntry) /\ Ascending(s)
  BY <1>1, <1>3, LeafFacts
<1>5. Matches(pages[x], k) \subseteq {i}
  BY <1>4, LeafFindsKey
<1>6. Search(k) = {s[j].row_ref : j \in Matches(pages[x], k)}
  <2>1. Search(k) = {s[j].row_ref : j \in Matches(pages[x], k) \cap {i}}
    BY DEF Search
  <2> HIDE DEF x, s, i
  <2> QED BY <2>1, <1>5
<1>7. \A r : <<k, r>> \in Dictionary <=> <<k, r>> \in Pairs(pages[x])
  <2>1. \A p \in LeavesOf(pages) : \A r : <<k, r>> \in Pairs(pages[p]) => p = x
    <3> TAKE p \in LeavesOf(pages)
    <3> TAKE r
    <3> DEFINE pair == <<k, r>>
    <3> HAVE pair \in Pairs(pages[p])
    <3>1. pair[1] = k
      OBVIOUS
    <3> HIDE DEF pair
    <3>2. p = FindLeaf(pair[1])
      BY <1>1, InItsLeaf
    <3> QED BY <3>1, <3>2
  <2> HIDE DEF x
  <2>2. Dictionary = DictOf(pages)
    BY DictionaryIsDictOf
  <2> QED BY <2>1, <2>2, <1>3 DEF DictOf
<1> HIDE DEF x
<1>8. Pairs(pages[x]) = {<<s[j].key, s[j].row_ref>> : j \in 1 .. Len(s)}
  BY <1>4, PairsByPosition
<1>9. Matches(pages[x], k) = {j \in 1 .. Len(s) : s[j].key = k}
  BY <1>4, EntryFacts DEF Matches
<1>10. \A j \in 1 .. Len(s) : s[j].row_ref \in Refs
  BY <1>4, EntryFacts DEF LeafEntry
<1> HIDE DEF s
<1>11. \A r : r \in Search(k) <=> \E j \in 1 .. Len(s) : s[j].key = k /\ s[j].row_ref = r
  BY <1>6, <1>9
<1>12. \A r : <<k, r>> \in Dictionary <=> \E j \in 1 .. Len(s) : s[j].key = k /\ s[j].row_ref = r
  BY <1>7, <1>8
<1> QED BY <1>10, <1>11, <1>12

(* Routing is exact after every call: see SearchIsExact. *)
THEOREM SearchesAreExact == Spec => []SearchIsExact
<1>1. IInv => SearchIsExact
  BY SearchFacts DEF IInv, SearchIsExact
<1> QED BY <1>1, TreeIsSound, PTL

-----------------------------------------------------------------------------
(* The dictionary *)

(* A new index holds no key. *)
LEMMA EmptyAtFirst == Init => Dictionary = {}
<1> SUFFICES ASSUME Init PROVE Dictionary = {}
  OBVIOUS
<1>1. \A p \in LeafPages : pages[p].entries = <<>>
  BY DEF Init, LeafPages, ZeroNode, LeafNode
<1>2. \A p \in LeafPages : Range(pages[p].entries) = {}
  BY <1>1 DEF Range
<1> QED BY <1>2 DEF Dictionary

(* Each call is the step of Index that has its arguments. *)
LEMMA CallsAreSteps ==
  ASSUME NEW hp, TreeInv(hp)
  PROVE  /\ \A k \in Keys, r \in Refs :
              InsertInLeaf(k, r) \/ SplitLeaf(k, r) => Dict!IndexInsert(k, r)
         /\ \A k \in Keys : Delete(k) => Dict!IndexDelete(k)
         /\ Continue => Dict!IndexRepair
<1>1. ASSUME NEW k \in Keys, NEW r \in Refs, InsertInLeaf(k, r) \/ SplitLeaf(k, r)
      PROVE  Dict!IndexInsert(k, r)
  <2>1. call = Idle
    BY <1>1 DEF InsertInLeaf, SplitLeaf
  <2>2. /\ Dictionary' = Dictionary \cup {<<k, r>>}
        /\ \A pair \in Dictionary : pair[1] # k
    BY <1>1, InsertInLeafKeeps, SplitLeafKeeps
  <2> QED BY <2>1, <2>2 DEF Dict!IndexInsert
<1>2. ASSUME NEW k \in Keys, Delete(k)
      PROVE  Dict!IndexDelete(k)
  <2>1. call = Idle
    BY <1>2 DEF Delete
  <2>2. \E pair \in Dictionary : pair[1] = k /\ Dictionary' = Dictionary \ {pair}
    BY <1>2, DeleteKeeps
  <2> QED BY <2>1, <2>2 DEF Dict!IndexDelete
<1>3. ASSUME Continue
      PROVE  Dict!IndexRepair
  <2>1. call # Idle
    <3>1. GrowRoot \/ InsertSeparator \/ SplitInternal => call.fn = "insert_into_parent"
      BY DEF GrowRoot, InsertSeparator, SplitInternal
    <3>2. MergeIntoLeft \/ MergeRight \/ MergeMissingSibling => Repair
      BY DEF MergeIntoLeft, MergeRight, MergeMissingSibling, MustMerge
    <3>3. BorrowRight \/ BorrowLeft => Repair
      BY DEF BorrowRight, BorrowLeft
    <3>4. LeaveLeaf \/ Repair => call.fn = "fix_leaf_after_delete"
      BY DEF LeaveLeaf, Repair
    <3>5. ShrinkRoot \/ LeaveInternal => call.fn = "fix_internal_after_delete"
      BY DEF ShrinkRoot, LeaveInternal
    <3>6. call.fn \in {"insert_into_parent", "fix_leaf_after_delete",
                       "fix_internal_after_delete"}
      BY <1>3, <3>1, <3>2, <3>3, <3>4, <3>5 DEF Continue
    <3>7. Idle.fn = "idle"
      BY DEF Idle, Call
    <3> QED BY <3>6, <3>7
  <2>2. Dictionary' = Dictionary
    BY <1>3, ContinueKeeps
  <2> QED BY <2>1, <2>2 DEF Dict!IndexRepair
<1> QED BY <1>1, <1>2, <1>3

(* The tree is the dictionary: an insert adds its own pair, a delete takes *)
(* away that of its own key, each in the first step of the call, and the   *)
(* splits, borrows, merges and root changes that follow do not show.       *)
THEOREM IndexIsImplemented == Spec => ImplementsIndex
<1>1. Init => Dict!IndexInit
  BY EmptyAtFirst DEF Dict!IndexInit, Init
<1>2. ASSUME IInv
      PROVE  /\ \A k \in Keys, r \in Refs :
                  InsertInLeaf(k, r) \/ SplitLeaf(k, r) => Dict!IndexInsert(k, r)
             /\ \A k \in Keys : Delete(k) => Dict!IndexDelete(k)
             /\ Continue => Dict!IndexRepair
  BY <1>2, CallsAreSteps DEF IInv
<1>3. IInv /\ [Next]_vars => [Dict!IndexNext]_<<Dictionary, (call # Idle)>>
  <2>1. ASSUME IInv, Next PROVE Dict!IndexNext
    BY <2>1, <1>2 DEF Next, Dict!IndexNext
  <2>2. ASSUME IInv, UNCHANGED vars
        PROVE  UNCHANGED <<Dictionary, (call # Idle)>>
    BY <2>2, StutterKeeps DEF IInv, vars
  <2> QED BY <2>1, <2>2
<1>4. IInv /\ [Next]_vars => [StepsAsCalled]_vars
  <2> SUFFICES ASSUME IInv, Next, call = Idle PROVE StepsAsCalled
    BY DEF StepsAsCalled
  <2> DEFINE added == Dictionary' \ Dictionary
             taken == Dictionary \ Dictionary'
  <2>1. ASSUME NEW k \in Keys, NEW r \in Refs, InsertInLeaf(k, r) \/ SplitLeaf(k, r)
        PROVE  \E pair \in added : InsertInLeaf(pair[1], pair[2]) \/ SplitLeaf(pair[1], pair[2])
    <3>1. Dictionary' = Dictionary \cup {<<k, r>>} /\ \A pair \in Dictionary : pair[1] # k
      BY <2>1, <1>2 DEF Dict!IndexInsert
    <3>2. <<k, r>>[1] = k /\ <<k, r>>[2] = r
      OBVIOUS
    <3>3. <<k, r>> \in added
      BY <3>1, <3>2
    <3> QED BY <2>1, <3>2, <3>3
  <2>2. ASSUME NEW k \in Keys, Delete(k)
        PROVE  \E pair \in taken : Delete(pair[1])
    <3>1. PICK pair \in Dictionary : pair[1] = k /\ Dictionary' = Dictionary \ {pair}
      BY <2>2, <1>2 DEF Dict!IndexDelete
    <3> QED BY <2>2, <3>1
  <2>3. ~Continue
    BY <1>2 DEF Dict!IndexRepair
  <2> QED BY <2>1, <2>2, <2>3 DEF Next, StepsAsCalled
<1> QED BY <1>1, <1>3, <1>4, TreeIsSound, PTL DEF Spec, ImplementsIndex, Dict!IndexSpec

-----------------------------------------------------------------------------
(* What can be reached from the root *)

(* The children of a node, as a set. *)
LEMMA KidSet ==
  ASSUME NEW node, node.entries \in Seq(InternalEntry)
  PROVE  Range(Kids(node)) = {Kid(node, i) : i \in Positions(node)}
BY KidsByPosition DEF Range

(* The children of a node are nodes one level below it. *)
LEMMA KidsBelow ==
  ASSUME NEW pg, NEW root, NEW lo, NEW hi, NEW ht, Tree(pg, root, NULL, NULL, lo, hi, ht),
         NEW p \in InnersOf(pg), NEW q \in Range(Kids(pg[p]))
  PROVE  q \in NodesOf(pg) /\ ht[p] = ht[q] + 1 /\ pg[q].parent = p /\ q # root
<1>1. pg[p].entries \in Seq(InternalEntry)
  BY SoundFacts
<1>2. PICK i \in Positions(pg[p]) : q = Kid(pg[p], i)
  BY <1>1, KidSet
<1> DEFINE c == Kid(pg[p], i)
<1>3. c \in NodesOf(pg) /\ ht[p] = ht[c] + 1 /\ pg[c].parent = p /\ c # root
  BY KidFacts
<1> HIDE DEF c
<1> QED BY <1>2, <1>3 DEF c

(* A node other than the root hangs below one that is one higher. *)
LEMMA AboveIt ==
  ASSUME NEW pg, NEW root, NEW lo, NEW hi, NEW ht, Tree(pg, root, NULL, NULL, lo, hi, ht),
         NEW q \in NodesOf(pg), q # root
  PROVE  \E p \in InnersOf(pg) : /\ pg[q].parent = p /\ q \in Range(Kids(pg[p]))
                                 /\ ht[p] = ht[q] + 1
<1> DEFINE p == pg[q].parent
<1>1. q # NULL
  BY NullIsNoPage DEF NodesOf, LeavesOf, InnersOf
<1>2. p \in InnersOf(pg) /\ \E i \in Positions(pg[p]) : Kid(pg[p], i) = q
  BY <1>1, PlaceFacts
<1> HIDE DEF p
<1>3. PICK i \in Positions(pg[p]) : Kid(pg[p], i) = q
  BY <1>2
<1>4. pg[p].entries \in Seq(InternalEntry) /\ ht[p] = ht[Kid(pg[p], i)] + 1
  BY <1>2, KidFacts
<1>5. q \in Range(Kids(pg[p]))
  BY <1>3, <1>4, KidSet
<1>6. ht[p] = ht[q] + 1
  BY <1>3, <1>4
<1> QED BY <1>2, <1>5, <1>6 DEF p

(* Every page formatted as a node is reached from the root, and nothing    *)
(* else: after d steps all nodes at most d levels below the root are.      *)
LEMMA TreeNodesAreNodes ==
  ASSUME NEW lo, NEW hi, NEW ht, Tree(pages, header.root, NULL, NULL, lo, hi, ht)
  PROVE  TreeNodes = NodesOf(pages)
<1> DEFINE root == header.root
           H == ht[root]
           N == NodesOf(pages)
           Below(S) == UNION {Range(Kids(pages[p])) : p \in {q \in S : pages[q].type = "INTERNAL"}}
           Upper(d) == {q \in N : ht[q] + d >= H}
           f == [d \in 0 .. MaxPage |-> Upper(d)]
           Reaches(g) == g = [d \in 0 .. MaxPage |->
                                IF d = 0 THEN {root} ELSE g[d - 1] \cup Below(g[d - 1])]
           reached == CHOOSE g : Reaches(g)
<1>0. TreeNodes = reached[MaxPage]
  BY DEF TreeNodes
<1>1. H \in Nat /\ H < MaxPage /\ MaxPage \in Nat
  BY TreeIsLow, FileAssumption
<1>2. /\ N \subseteq PageIds /\ InnersOf(pages) \subseteq N /\ root \in N
      /\ \A p \in N : ht[p] <= H /\ ht[p] \in Nat
  BY DEF NodesOf, LeavesOf, InnersOf, Tree, RootSound, Typed
<1>3. \A p \in N : p \in InnersOf(pages) <=> pages[p].type = "INTERNAL"
  BY <1>2 DEF InnersOf
<1>4. \A q \in N : q # root =>
        \E p \in InnersOf(pages) : q \in Range(Kids(pages[p])) /\ ht[p] = ht[q] + 1
  BY AboveIt
<1>5. \A p \in InnersOf(pages) : \A q \in Range(Kids(pages[p])) : q \in N /\ ht[p] = ht[q] + 1
  BY KidsBelow
<1> HIDE DEF H, N
<1>6. Upper(0) = {root}
  <2>1. root \in Upper(0)
    BY <1>1, <1>2 DEF H
  <2>2. ASSUME NEW q \in N, q # root, ht[q] + 0 >= H PROVE FALSE
    <3>1. PICK p \in InnersOf(pages) : ht[p] = ht[q] + 1
      BY <1>4, <2>2
    <3>2. ht[p] <= H /\ ht[p] \in Nat /\ ht[q] \in Nat
      BY <1>2
    <3> QED BY <3>1, <3>2, <2>2, <1>1
  <2> QED BY <2>1, <2>2
<1>7. ASSUME NEW d \in 0 .. MaxPage, d # 0
      PROVE  Upper(d) = Upper(d - 1) \cup Below(Upper(d - 1))
  <2>1. ASSUME NEW q \in Upper(d) PROVE q \in Upper(d - 1) \cup Below(Upper(d - 1))
    <3>1. q \in N /\ ht[q] + d >= H /\ ht[q] \in Nat
      BY <1>2
    <3>2. CASE q = root
      <4>1. ht[q] = H
        BY <3>2 DEF H
      <4>2. ht[q] + (d - 1) >= H
        BY <4>1, <1>1, <1>7
      <4> QED BY <3>1, <4>2
    <3>3. CASE q # root
      <4>1. PICK p \in InnersOf(pages) : q \in Range(Kids(pages[p])) /\ ht[p] = ht[q] + 1
        BY <3>1, <3>3, <1>4
      <4>2. ht[p] + (d - 1) >= H
        BY <4>1, <3>1, <1>1
      <4>3. p \in Upper(d - 1) /\ pages[p].type = "INTERNAL"
        BY <4>2, <1>2, <1>3
      <4> HIDE DEF Upper
      <4> QED BY <4>1, <4>3
    <3> QED BY <3>2, <3>3
  <2>2. ASSUME NEW q \in Upper(d - 1) PROVE q \in Upper(d)
    <3>1. q \in N /\ ht[q] + (d - 1) >= H /\ ht[q] \in Nat
      BY <1>2
    <3> QED BY <3>1, <1>1
  <2>3. ASSUME NEW q \in Below(Upper(d - 1)) PROVE q \in Upper(d)
    <3>1. PICK p \in Upper(d - 1) : pages[p].type = "INTERNAL" /\ q \in Range(Kids(pages[p]))
      <4> HIDE DEF Upper
      <4> QED BY <2>3
    <3>2. p \in N /\ ht[p] + (d - 1) >= H
      OBVIOUS
    <3>3. p \in InnersOf(pages)
      BY <3>1, <3>2, <1>3
    <3>4. q \in N /\ ht[p] = ht[q] + 1
      BY <3>1, <3>3, <1>5
    <3>5. ht[q] \in Nat
      BY <3>4, <1>2
    <3> QED BY <3>2, <3>4, <3>5, <1>1
  <2> HIDE DEF Upper, Below
  <2> QED BY <2>1, <2>2, <2>3
<1> HIDE DEF Upper, Below
<1>8. \A d \in 0 .. MaxPage : f[d] = IF d = 0 THEN {root} ELSE f[d - 1] \cup Below(f[d - 1])
  <2> SUFFICES ASSUME NEW d \in 0 .. MaxPage
               PROVE  f[d] = IF d = 0 THEN {root} ELSE f[d - 1] \cup Below(f[d - 1])
    OBVIOUS
  <2>1. CASE d = 0
    BY <2>1, <1>6
  <2>2. CASE d # 0
    <3>1. d - 1 \in 0 .. MaxPage
      BY <2>2, <1>1
    <3>2. f[d - 1] = Upper(d - 1) /\ f[d] = Upper(d)
      BY <3>1
    <3> HIDE DEF f
    <3> QED BY <3>2, <2>2, <1>7
  <2> QED BY <2>1, <2>2
<1>9. Reaches(f)
  <2>1. f = [d \in 0 .. MaxPage |-> f[d]]
    OBVIOUS
  <2> HIDE DEF f
  <2> QED BY <2>1, <1>8
<1>10. Reaches(reached)
  <2> HIDE DEF Reaches, f
  <2> QED BY <1>9
<1>11. \A d \in 0 .. MaxPage :
         reached[d] = IF d = 0 THEN {root} ELSE reached[d - 1] \cup Below(reached[d - 1])
  <2> HIDE DEF reached
  <2> QED BY <1>10
<1>12. \A d \in 0 .. MaxPage : reached[d] = f[d]
  <2> DEFINE Differ == {d \in 0 .. MaxPage : reached[d] # f[d]}
  <2> HIDE DEF reached, f
  <2> SUFFICES ASSUME Differ # {} PROVE FALSE
    OBVIOUS
  <2>1. Differ \in SUBSET Nat
    BY <1>1
  <2>2. PICK d \in Differ : \A e \in Differ : d <= e
    <3> HIDE DEF Differ
    <3> QED BY <2>1, LeastElement
  <2>3. d \in 0 .. MaxPage /\ reached[d] # f[d]
    BY <2>2
  <2>4. d # 0
    BY <2>3, <1>8, <1>11
  <2>5. d - 1 \in 0 .. MaxPage /\ d - 1 \notin Differ
    BY <2>2, <2>3, <2>4, <1>1
  <2>6. reached[d - 1] = f[d - 1]
    BY <2>5
  <2> QED BY <2>3, <2>4, <2>6, <1>8, <1>11
<1>13. Upper(MaxPage) = N
  <2>1. \A q \in N : ht[q] + MaxPage >= H
    BY <1>1, <1>2
  <2> QED BY <2>1 DEF Upper
<1>14. MaxPage \in 0 .. MaxPage
  BY <1>1
<1>15. f[MaxPage] = Upper(MaxPage)
  BY <1>14
<1> HIDE DEF f, reached
<1> QED BY <1>0, <1>12, <1>13, <1>14, <1>15 DEF N

(* After every call each leaf but the root is at least half full.          *)
THEOREM LeavesAreHalfFull == Spec => []LeavesHalfFull
<1>1. ASSUME IInv, call = Idle, NEW p \in TreeNodes \ {header.root}, pages[p].type = "LEAF"
      PROVE  Len(pages[p].entries) >= MinLeaf
  <2>1. PICK lo, hi, ht : Tree(pages, header.root, NULL, NULL, lo, hi, ht)
    BY <1>1, IdleFacts DEF IInv
  <2>2. p \in LeavesOf(pages)
    BY <2>1, <1>1, TreeNodesAreNodes DEF NodesOf, LeavesOf, InnersOf
  <2>3. Filled(pages, header.root, call)
    BY <1>1, IdleFacts DEF IInv
  <2> QED BY <2>2, <2>3, <1>1 DEF Filled, Exempt, Idle, Call
<1>2. IInv => LeavesHalfFull
  BY <1>1 DEF LeavesHalfFull
<1> QED BY <1>2, TreeIsSound, PTL

(* insert_into_parent and fix_leaf_after_delete may climb by the parent    *)
(* pointers: after every call they are the inverse of the child pointers.  *)
THEOREM ParentsAreRight == Spec => []ParentsMatchChildren
<1>1. ASSUME IInv, call = Idle
      PROVE  /\ pages[header.root].parent = NULL
             /\ \A p \in TreeNodes : pages[p].type = "INTERNAL" =>
                  \A c \in Range(Kids(pages[p])) : pages[c].parent = p
  <2>1. PICK lo, hi, ht : Tree(pages, header.root, NULL, NULL, lo, hi, ht)
    BY <1>1, IdleFacts DEF IInv
  <2>2. pages[header.root].parent = NULL
    BY <2>1 DEF Tree, RootSound
  <2>3. ASSUME NEW p \in TreeNodes, pages[p].type = "INTERNAL", NEW c \in Range(Kids(pages[p]))
        PROVE  pages[c].parent = p
    <3>1. p \in InnersOf(pages)
      BY <2>1, <2>3, TreeNodesAreNodes DEF NodesOf, LeavesOf, InnersOf
    <3> QED BY <2>1, <2>3, <3>1, KidsBelow
  <2> QED BY <2>2, <2>3
<1>2. IInv => ParentsMatchChildren
  BY <1>1 DEF ParentsMatchChildren
<1> QED BY <1>2, TreeIsSound, PTL

-----------------------------------------------------------------------------
(* The pages of the file *)

(* The walk along the free list meets exactly the freed pages. *)
LEMMA FreePagesAreFree ==
  ASSUME NEW hp, Allocated(pages, header, hp)
  PROVE  FreePages = FreeOf(pages)
<1> DEFINE next == NextOf(pages)
           first == header.free
<1>1. PICK c, n : IsChain(next, first, c, n) /\ ChainNodes(c, n) = FreeOf(pages)
  BY DEF Allocated, FreeListed
<1>2. MaxPage \in Nat /\ IsFiniteSet(PageIds) /\ Cardinality(PageIds) = MaxPage
  BY FileAssumption, FS_Interval DEF PageIds
<1>3. DOMAIN next = PageIds
  BY DEF NextOf
<1>4. FreePages = Range(NodesFrom(next, first, MaxPage))
  BY DEF FreePages, Following, NextOf
<1> HIDE DEF next, first
<1>5. n <= MaxPage /\ n \in Nat
  <2>1. n <= Cardinality(DOMAIN next)
    BY <1>1, <1>2, <1>3, ChainIsShort
  <2> QED BY <2>1, <1>1, <1>2, <1>3 DEF IsChain
<1> DEFINE s == [k \in 1 .. n |-> c[k - 1]]
<1>6. FreePages = Range(s)
  <2>1. NodesFrom(next, first, MaxPage) = s
    BY <1>1, <1>2, <1>5, NodesOfTheChain
  <2> HIDE DEF s
  <2> QED BY <2>1, <1>4
<1>7. Range(s) = {c[k - 1] : k \in 1 .. n}
  BY DEF Range
<1>8. \A k \in 0 .. n - 1 : k + 1 \in 1 .. n /\ (k + 1) - 1 = k
  BY <1>5
<1>9. \A k \in 1 .. n : k - 1 \in 0 .. n - 1
  BY <1>5
<1>10. {c[k - 1] : k \in 1 .. n} = {c[k] : k \in 0 .. n - 1}
  <2>1. \A k \in 0 .. n - 1 : c[k] = c[(k + 1) - 1]
    BY <1>8
  <2> QED BY <2>1, <1>8, <1>9
<1> QED BY <1>1, <1>6, <1>7, <1>10 DEF ChainNodes

(* No node is referenced twice. *)
LEMMA OnePointerEach ==
  ASSUME NEW pg, NEW root, NEW lo, NEW hi, NEW ht, Tree(pg, root, NULL, NULL, lo, hi, ht),
         NEW p \in InnersOf(pg), NEW i \in DOMAIN Kids(pg[p]),
         NEW q \in InnersOf(pg), NEW j \in DOMAIN Kids(pg[q])
  PROVE  /\ Kids(pg[p])[i] # root
         /\ Kids(pg[p])[i] = Kids(pg[q])[j] => p = q /\ i = j
<1>1. pg[p].entries \in Seq(InternalEntry) /\ pg[q].entries \in Seq(InternalEntry)
  BY SoundFacts
<1>2. /\ i \in Positions(pg[p]) /\ Kids(pg[p])[i] = Kid(pg[p], i)
      /\ j \in Positions(pg[q]) /\ Kids(pg[q])[j] = Kid(pg[q], j)
  BY <1>1, KidsByPosition
<1>3. Kid(pg[p], i) # root /\ pg[Kid(pg[p], i)].parent = p
  BY <1>2, KidFacts
<1>4. pg[Kid(pg[q], j)].parent = q
  BY SMTT(30), <1>2, KidFacts
<1>5. Kid(pg[p], i) = Kid(pg[q], j) => p = q
  BY <1>3, <1>4
<1>6. ASSUME p = q, Kid(pg[p], i) = Kid(pg[q], j) PROVE i = j
  BY <1>2, <1>6, KidsDiffer
<1> QED BY <1>2, <1>3, <1>5, <1>6

(* After every call each page below the allocator's next page is in use    *)
(* once: it is the heap's, a node of the tree or on the free list, and no  *)
(* child is referenced twice.  No merge leaks a page, no split takes one   *)
(* that is still referenced.                                               *)
LEMMA AccountFacts ==
  ASSUME NEW hp, hp \subseteq PageIds, TreeInv(hp), call = Idle
  PROVE  /\ TreeNodes \cap FreePages = {} /\ TreeNodes \cap hp = {} /\ hp \cap FreePages = {}
         /\ TreeNodes \cup FreePages \cup hp = 1 .. header.next - 1
         /\ \A p \in hp : pages[p].type = "HEAP"
         /\ \A p \in FreePages : pages[p].type = "FREE"
         /\ \A p \in TreeNodes : pages[p].type \in {"LEAF", "INTERNAL"}
         /\ \A one \in ChildPointers :
              /\ Child(one) # header.root
              /\ \A other \in ChildPointers : Child(one) = Child(other) => one = other
<1>1. PICK lo, hi, ht : Tree(pages, header.root, NULL, NULL, lo, hi, ht)
  BY IdleFacts
<1>2. Allocated(pages, header, hp)
  BY IdleFacts
<1>3. TreeNodes = NodesOf(pages) /\ FreePages = FreeOf(pages)
  BY <1>1, <1>2, TreeNodesAreNodes, FreePagesAreFree
<1>4. /\ \A p \in FreeOf(pages) : pages[p].type = "FREE"
      /\ \A p \in NodesOf(pages) : pages[p].type \in {"LEAF", "INTERNAL"}
      /\ NodesOf(pages) \cap FreeOf(pages) = {}
  BY DEF FreeOf, NodesOf, LeavesOf, InnersOf
<1>5. NodesOf(pages) \cup FreeOf(pages) \cup hp = 1 .. header.next - 1
  <2>1. /\ \A p \in PageIds : pages[p] \in Node
        /\ \A p \in PageIds : pages[p].type = "ZERO" <=> p >= header.next
        /\ \A p \in PageIds : pages[p].type = "HEAP" <=> p \in hp
        /\ header.next \in 1 .. MaxPage + 1
    BY <1>2 DEF Allocated, HeaderType
  <2>2. \A p \in PageIds : pages[p].type \in {"ZERO", "FREE", "HEAP", "LEAF", "INTERNAL"}
    BY <2>1, NodeFacts
  <2>3. MaxPage \in Nat /\ PageIds = 1 .. MaxPage
    BY FileAssumption DEF PageIds
  <2>4. \A p : p \in 1 .. header.next - 1 <=> p \in PageIds /\ ~(p >= header.next)
    BY <2>1, <2>3
  <2>5. \A p : p \in 1 .. header.next - 1 <=> p \in PageIds /\ pages[p].type # "ZERO"
    BY <2>1, <2>4
  <2>6. \A p \in PageIds : pages[p].type # "ZERO" <=>
          p \in NodesOf(pages) \/ p \in FreeOf(pages) \/ p \in hp
    BY <2>1, <2>2 DEF FreeOf, NodesOf, LeavesOf, InnersOf
  <2>7. NodesOf(pages) \subseteq PageIds /\ FreeOf(pages) \subseteq PageIds
    BY DEF FreeOf, NodesOf, LeavesOf, InnersOf
  <2> QED BY <2>3, <2>5, <2>6, <2>7
<1>6. \A one \in ChildPointers :
        \E p \in InnersOf(pages) : \E i \in DOMAIN Kids(pages[p]) :
          one = <<p, i>> /\ Child(one) = Kids(pages[p])[i]
  <2>1. ChildPointers = UNION {{<<p, i>> : i \in DOMAIN Kids(pages[p])} : p \in InnersOf(pages)}
    <3>1. {q \in TreeNodes : pages[q].type = "INTERNAL"} = InnersOf(pages)
      BY <1>3 DEF NodesOf, LeavesOf, InnersOf
    <3> QED BY <3>1 DEF ChildPointers
  <2> TAKE one \in ChildPointers
  <2>2. PICK p \in InnersOf(pages) : one \in {<<p, i>> : i \in DOMAIN Kids(pages[p])}
    BY <2>1
  <2>3. PICK i \in DOMAIN Kids(pages[p]) : one = <<p, i>>
    BY <2>2
  <2> QED BY <2>3 DEF Child
<1>7. ASSUME NEW one \in ChildPointers, NEW other \in ChildPointers
      PROVE  /\ Child(one) # header.root
             /\ Child(one) = Child(other) => one = other
  <2>1. PICK p \in InnersOf(pages) : \E i \in DOMAIN Kids(pages[p]) :
          one = <<p, i>> /\ Child(one) = Kids(pages[p])[i]
    BY <1>6
  <2>2. PICK i \in DOMAIN Kids(pages[p]) : one = <<p, i>> /\ Child(one) = Kids(pages[p])[i]
    BY <2>1
  <2>4. PICK q \in InnersOf(pages) : \E j \in DOMAIN Kids(pages[q]) :
          other = <<q, j>> /\ Child(other) = Kids(pages[q])[j]
    BY <1>6
  <2>5. PICK j \in DOMAIN Kids(pages[q]) : other = <<q, j>> /\ Child(other) = Kids(pages[q])[j]
    BY <2>4
  <2>3. /\ Kids(pages[p])[i] # header.root
        /\ Kids(pages[p])[i] = Kids(pages[q])[j] => p = q /\ i = j
    BY <1>1, OnePointerEach
  <2> QED BY <2>2, <2>5, <2>3
<1>8. /\ \A p \in hp : pages[p].type = "HEAP"
      /\ NodesOf(pages) \cap hp = {} /\ hp \cap FreeOf(pages) = {}
  <2>1. \A p \in hp : pages[p].type = "HEAP"
    BY <1>2 DEF Allocated
  <2> QED BY <2>1, <1>4
<1> QED BY <1>3, <1>4, <1>5, <1>7, <1>8

(* See AccountFacts: nothing is lost, nothing is used twice. *)
THEOREM PagesAreAccounted == Spec => []PagesAccounted
<1>1. IInv => PagesAccounted
  BY AccountFacts, PageFacts DEF IInv, PagesAccounted
<1> QED BY <1>1, TreeIsSound, PTL

-----------------------------------------------------------------------------
(* The leftmost leaf *)

(* Key 0 is below every separator: it goes to the leftmost child.          *)
LEMMA LeftmostKid ==
  ASSUME NEW pg, NEW root, NEW a, NEW b, NEW lo, NEW hi, NEW ht,
         Tree(pg, root, a, b, lo, hi, ht), NEW p \in InnersOf(pg), lo[p] = 0
  PROVE  LET c == ChildFor(pg[p], 0)
         IN  c \in NodesOf(pg) /\ lo[c] = 0 /\ ht[p] = ht[c] + 1
<1>1. /\ pg[p].entries \in Seq(InternalEntry) /\ Ascending(pg[p].entries)
      /\ lo[p] \in Int /\ hi[p] \in Int /\ lo[p] < hi[p]
      /\ InnerCovers(pg[p], lo[p], hi[p])
  BY SoundFacts
<1>2. Len(pg[p].entries) \in Nat /\ 1 \in Positions(pg[p])
  BY <1>1, EntryFacts DEF Positions
<1>3. EntryLow(pg[p], 1, lo[p]) <= 0 /\ 0 < EntryHigh(pg[p], 1, hi[p])
  <2>1. EntryLow(pg[p], 1, lo[p]) = 0
    BY <1>1 DEF EntryLow
  <2>2. 0 < EntryHigh(pg[p], 1, hi[p])
    <3>1. CASE 1 > Len(pg[p].entries)
      BY <3>1, <1>1 DEF EntryHigh
    <3>2. CASE ~(1 > Len(pg[p].entries))
      <4>1. 1 \in 1 .. Len(pg[p].entries)
        BY <3>2, <1>2
      <4> QED BY <3>2, <4>1, <1>1 DEF EntryHigh, InnerCovers
    <3> QED BY <3>1, <3>2
  <2> QED BY <2>1, <2>2
<1>4. ChildFor(pg[p], 0) = Kid(pg[p], 1)
  <2> DEFINE m == InternalFind(pg[p], 0) + 1
  <2>1. /\ ChildFor(pg[p], 0) = Kid(pg[p], m)
        /\ \A i \in Positions(pg[p]) :
             EntryLow(pg[p], i, lo[p]) <= 0 /\ 0 < EntryHigh(pg[p], i, hi[p]) => i = m
    <3>1. lo[p] <= 0 /\ 0 < hi[p] /\ 0 \in Int
      BY <1>1
    <3> QED BY <3>1, <1>1, RouteInNode
  <2> QED BY <2>1, <1>2, <1>3
<1>5. /\ Kid(pg[p], 1) \in NodesOf(pg) /\ ht[p] = ht[Kid(pg[p], 1)] + 1
      /\ lo[Kid(pg[p], 1)] = EntryLow(pg[p], 1, lo[p])
  BY SMTT(30), <1>2, KidFacts
<1> QED BY <1>4, <1>5 DEF EntryLow

(* find_leaf of key 0 finds the leftmost leaf, also while a separator is   *)
(* on its way up: the left edge of the tree has no node without a parent.  *)
LEMMA LeftmostLeaf ==
  ASSUME NEW a, NEW b, NEW lo, NEW hi, NEW ht, Tree(pages, header.root, a, b, lo, hi, ht)
  PROVE  FindLeaf(0) \in LeavesOf(pages) /\ lo[FindLeaf(0)] = 0
<1> DEFINE root == header.root
           H == ht[root]
           Edge == {p \in NodesOf(pages) : lo[p] = 0}
           down == [p \in PageIds |-> IF pages[p].type = "LEAF" THEN p ELSE ChildFor(pages[p], 0)]
           step == [x \in Edge \X (1 .. MaxPage) |-> down[x[1]]]
           Walks(g) == g = [d \in 0 .. MaxPage |-> IF d = 0 THEN root ELSE down[g[d - 1]]]
           at == CHOOSE g : Walks(g)
<1>0. FindLeaf(0) = at[MaxPage]
  BY DEF FindLeaf
<1>1. /\ Edge \subseteq NodesOf(pages) /\ NodesOf(pages) \subseteq PageIds
      /\ NodesOf(pages) = LeavesOf(pages) \cup InnersOf(pages)
      /\ root \in Edge /\ \A p \in NodesOf(pages) : ht[p] \in Nat
      /\ \A p \in Edge : lo[p] = 0
  BY DEF NodesOf, LeavesOf, InnersOf, Tree, RootSound, Typed
<1>2. MaxPage \in Nat /\ IsFiniteSet(PageIds) /\ Cardinality(PageIds) = MaxPage
  BY FileAssumption, FS_Interval DEF PageIds
<1>3. \A p \in LeavesOf(pages) : down[p] = p /\ ht[p] = 0
  <2>1. \A p \in LeavesOf(pages) : ht[p] = 0
    BY LeafFacts
  <2> QED BY <2>1, <1>1 DEF LeavesOf
<1>4. \A p \in InnersOf(pages) : down[p] = ChildFor(pages[p], 0) /\ ht[p] > 0
  <2>1. \A p \in InnersOf(pages) : ht[p] > 0
    BY SoundFacts
  <2> QED BY <2>1, <1>1 DEF InnersOf
<1> HIDE DEF down
<1>5. \A p \in Edge : /\ down[p] \in Edge
                      /\ ht[p] > 0 => ht[down[p]] = ht[p] - 1
                      /\ ht[p] = 0 => p \in LeavesOf(pages) /\ down[p] = p
  <2> TAKE p \in Edge
  <2>1. CASE p \in LeavesOf(pages)
    BY <2>1, <1>3
  <2>2. CASE p \in InnersOf(pages)
    <3> DEFINE c == ChildFor(pages[p], 0)
    <3>1. c \in NodesOf(pages) /\ lo[c] = 0 /\ ht[p] = ht[c] + 1
      BY <2>2, <1>1, LeftmostKid
    <3>2. down[p] = c /\ ht[p] > 0
      BY <2>2, <1>4
    <3> HIDE DEF c
    <3>3. ht[c] \in Nat
      BY <3>1, <1>1
    <3> QED BY <3>1, <3>2, <3>3
  <2> QED BY <2>1, <2>2, <1>1
<1> HIDE DEF Edge
<1>6. \E f : Walks(f)
  <2>1. IsLoop(Edge, root, MaxPage, step)
    <3>1. \A x \in Edge \X (1 .. MaxPage) : down[x[1]] \in Edge
      BY <1>5
    <3>2. step \in [Edge \X (1 .. MaxPage) -> Edge]
      BY <3>1
    <3> HIDE DEF step
    <3> QED BY <3>2, <1>1, <1>2 DEF IsLoop
  <2>2. PICK f : LoopRun(Edge, root, MaxPage, step, f)
    <3> HIDE DEF step
    <3> QED BY <2>1, LoopRuns
  <2>3. \A d \in 0 .. MaxPage : f[d] = IF d = 0 THEN root ELSE down[f[d - 1]]
    <3> TAKE d \in 0 .. MaxPage
    <3>1. CASE d = 0
      BY <3>1, <2>2 DEF LoopRun
    <3>2. CASE d # 0
      <4>1. d \in 1 .. MaxPage /\ d - 1 \in 0 .. MaxPage
        BY <3>2, <1>2
      <4>2. f[d - 1] \in Edge /\ f[d] = step[<<f[d - 1], d>>]
        BY <4>1, <2>2 DEF LoopRun
      <4> QED BY <4>1, <4>2, <3>2
    <3> QED BY <3>1, <3>2
  <2>4. f = [d \in 0 .. MaxPage |-> f[d]]
    BY <2>2 DEF LoopRun
  <2>5. Walks(f)
    BY <2>3, <2>4
  <2> QED BY <2>5
<1>7. Walks(at)
  <2> HIDE DEF Walks
  <2> QED BY <1>6
<1>8. \A d \in 0 .. MaxPage : at[d] = IF d = 0 THEN root ELSE down[at[d - 1]]
  <2> HIDE DEF at
  <2> QED BY <1>7
<1> HIDE DEF at, Walks, step
<1> DEFINE Lower == {d \in 0 .. MaxPage : at[d] \in Edge /\ ht[at[d]] = IF d <= H THEN H - d ELSE 0}
<1>9. \A d \in 0 .. MaxPage : d \in Lower
  <2>1. H \in Nat
    BY <1>1
  <2>2. 0 \in Lower
    <3>1. at[0] = root /\ 0 \in 0 .. MaxPage
      BY <1>2, <1>8
    <3> QED BY <3>1, <2>1, <1>1
  <2>3. ASSUME NEW d \in 1 .. MaxPage, d - 1 \in Lower PROVE d \in Lower
    <3>1. d \in 0 .. MaxPage /\ d # 0 /\ d \in Int
      BY <1>2
    <3> DEFINE x == at[d - 1]
    <3>2. x \in Edge /\ ht[x] = IF d - 1 <= H THEN H - (d - 1) ELSE 0
      BY <2>3
    <3>3. at[d] = down[x]
      BY <3>1, <1>8
    <3> HIDE DEF x
    <3>4. down[x] \in Edge /\ (ht[x] > 0 => ht[down[x]] = ht[x] - 1) /\ (ht[x] = 0 => down[x] = x)
      BY <3>2, <1>5
    <3> HIDE DEF H
    <3>5. CASE d <= H
      BY <3>1, <3>2, <3>3, <3>4, <3>5, <2>1
    <3>6. CASE ~(d <= H)
      BY <3>1, <3>2, <3>3, <3>4, <3>6, <2>1
    <3> QED BY <3>5, <3>6
  <2> HIDE DEF Lower
  <2> QED BY <2>2, <2>3, <1>2, EveryRound
<1>10. H <= MaxPage
  <2>1. H \in Nat
    BY <1>1
  <2> SUFFICES ASSUME H > MaxPage PROVE FALSE
    BY <2>1, <1>2
  <2> HIDE DEF H
  <2> DEFINE g == [d \in 0 .. MaxPage |-> at[d]]
  <2>2. g \in [0 .. MaxPage -> PageIds]
    BY <1>1, <1>9
  <2>3. IsFiniteSet(0 .. MaxPage) /\ Cardinality(0 .. MaxPage) = MaxPage + 1
    BY <1>2, FS_Interval
  <2>4. \E i, j \in 0 .. MaxPage : i # j /\ g[i] = g[j]
    <3>1. Cardinality(PageIds) < Cardinality(0 .. MaxPage)
      BY <2>3, <1>2
    <3> HIDE DEF g
    <3> QED BY <2>2, <2>3, <3>1, <1>2, FS_PigeonHole
  <2>5. PICK i, j \in 0 .. MaxPage : i # j /\ at[i] = at[j]
    BY <2>4
  <2>6. ht[at[i]] = H - i /\ ht[at[j]] = H - j
    <3>1. i <= H /\ j <= H
      BY <2>1, <1>2
    <3> QED BY <3>1, <1>9
  <2> QED BY <2>1, <2>5, <2>6
<1>11. at[MaxPage] \in Edge /\ ht[at[MaxPage]] = 0
  <2>1. MaxPage \in Lower /\ H \in Nat
    BY <1>1, <1>2, <1>9
  <2> HIDE DEF H
  <2> QED BY <2>1, <1>2, <1>10
<1>12. at[MaxPage] \in LeavesOf(pages) /\ lo[at[MaxPage]] = 0
  BY <1>1, <1>5, <1>11
<1> QED BY <1>0, <1>12

-----------------------------------------------------------------------------
(* The chain of leaves *)

(* s lists leaves whose intervals follow one another from 0 to MaxKey.     *)
Row(lo, hi, s) ==
  /\ s \in Seq(LeavesOf(pages)) /\ Len(s) >= 1
  /\ lo[s[1]] = 0 /\ hi[s[Len(s)]] = MaxKey + 1
  /\ \A i \in 1 .. Len(s) - 1 : hi[s[i]] = lo[s[i + 1]]

(* In a row every leaf lies before all that follow it. *)
LEMMA RowAscends ==
  ASSUME NEW lo, NEW hi, NEW s, Row(lo, hi, s), Intervals(pages, lo, hi),
         NEW i \in 1 .. Len(s), NEW j \in 1 .. Len(s), i < j
  PROVE  hi[s[i]] <= lo[s[j]]
<1>1. /\ Len(s) \in Nat /\ \A k \in 1 .. Len(s) : s[k] \in LeavesOf(pages)
      /\ \A k \in 1 .. Len(s) - 1 : hi[s[k]] = lo[s[k + 1]]
  BY DEF Row
<1>2. \A k \in 1 .. Len(s) : lo[s[k]] \in Nat /\ hi[s[k]] \in Nat /\ lo[s[k]] < hi[s[k]]
  BY <1>1 DEF Intervals
<1> DEFINE n == Len(s) - i - 1
           Behind == {d \in 0 .. n : hi[s[i]] <= lo[s[i + 1 + d]]}
<1>3. n \in Nat /\ i \in Int /\ j \in Int /\ j - i - 1 \in 0 .. n /\ i + 1 + (j - i - 1) = j
  BY <1>1
<1>4. 0 \in Behind
  <2>1. i \in 1 .. Len(s) - 1 /\ i + 1 + 0 = i + 1
    BY <1>1, <1>3
  <2>2. hi[s[i]] = lo[s[i + 1]] /\ hi[s[i]] \in Nat
    BY <2>1, <1>1, <1>2
  <2>3. hi[s[i]] <= lo[s[i + 1 + 0]]
    BY <2>1, <2>2
  <2> QED BY <2>3, <1>3
<1>5. ASSUME NEW d \in 1 .. n, d - 1 \in Behind PROVE d \in Behind
  <2> DEFINE m == i + d
  <2>1. /\ m \in 1 .. Len(s) - 1 /\ m \in 1 .. Len(s) /\ m + 1 \in 1 .. Len(s)
        /\ i + 1 + (d - 1) = m /\ i + 1 + d = m + 1 /\ d \in 0 .. n
    BY <1>1, <1>3
  <2>2. hi[s[i]] <= lo[s[i + 1 + (d - 1)]]
    BY <1>5
  <2> HIDE DEF m
  <2>3. hi[s[i]] <= lo[s[m]] /\ lo[s[m]] < hi[s[m]] /\ hi[s[m]] = lo[s[m + 1]]
    BY <2>1, <2>2, <1>1, <1>2
  <2>4. hi[s[i]] \in Nat /\ lo[s[m]] \in Nat /\ hi[s[m]] \in Nat
    BY <2>1, <1>2
  <2>5. hi[s[i]] <= lo[s[i + 1 + d]]
    BY <2>1, <2>3, <2>4
  <2> QED BY <2>1, <2>5
<1>6. j - i - 1 \in Behind
  <2> HIDE DEF Behind, n
  <2> QED BY <1>3, <1>4, <1>5, EveryRound
<1>7. hi[s[i]] <= lo[s[i + 1 + (j - i - 1)]]
  BY <1>6
<1> QED BY <1>3, <1>7

(* Along their next pointers the leaves form a row, and the prev pointers  *)
(* lead back.                                                              *)
LEMMA LeafChainIsRow ==
  ASSUME NEW a, NEW b, NEW lo, NEW hi, NEW ht, Tree(pages, header.root, a, b, lo, hi, ht),
         Linked(pages, lo, hi)
  PROVE  /\ Row(lo, hi, LeafChain)
         /\ \A i \in 1 .. Len(LeafChain) :
              pages[LeafChain[i]].prev = IF i = 1 THEN NULL ELSE LeafChain[i - 1]
<1> DEFINE next == NextOf(pages)
           L == LeavesOf(pages)
           first == FindLeaf(0)
<1>1. first \in L /\ lo[first] = 0
  BY LeftmostLeaf
<1>2. /\ DOMAIN next = PageIds /\ L \subseteq PageIds /\ 0 \notin PageIds
      /\ \A p \in L : next[p] = pages[p].next
  BY NullIsNoPage DEF NextOf, LeavesOf, NULL
<1>3. \A p \in L : lo[p] \in Nat /\ hi[p] \in Nat /\ lo[p] < hi[p]
  BY LeafFacts
<1>4. MaxPage \in Nat /\ IsFiniteSet(PageIds) /\ Cardinality(PageIds) = MaxPage
  BY FileAssumption, FS_Interval DEF PageIds
<1> HIDE DEF first, next
<1>5. \A p \in L : /\ lo[p] = 0 => pages[p].prev = NULL
                   /\ hi[p] = MaxKey + 1 => next[p] = 0
                   /\ hi[p] # MaxKey + 1 =>
                        /\ next[p] \in L /\ lo[next[p]] = hi[p] /\ pages[next[p]].prev = p
  BY <1>2 DEF Linked, LinkedLeaf, Before, NULL
<1> HIDE DEF L
<1>6. Ranked(next, first, L, lo)
  <2>1. \A p \in L : lo[p] \in Int /\ (next[p] = 0 \/ (next[p] \in L /\ lo[p] < lo[next[p]]))
    BY <1>3, <1>5
  <2> QED BY <2>1, <1>1, <1>2 DEF Ranked
<1>7. PICK c, n : IsChain(next, first, c, n) /\ n >= 1 /\ ChainNodes(c, n) \subseteq L
  <2>1. IsFiniteSet(L)
    BY <1>2, <1>4, FS_Subset
  <2> QED BY <2>1, <1>6, RankedChain
<1>8. n <= MaxPage /\ n \in Nat
  <2>1. n <= Cardinality(DOMAIN next)
    BY <1>2, <1>4, <1>7, ChainIsShort
  <2> QED BY <2>1, <1>2, <1>4, <1>7 DEF IsChain
<1> DEFINE s == [k \in 1 .. n |-> c[k - 1]]
<1>9. LeafChain = s
  <2>1. NodesFrom(next, first, MaxPage) = s
    BY <1>4, <1>7, <1>8, NodesOfTheChain
  <2> HIDE DEF s
  <2> QED BY <2>1 DEF LeafChain, Following, NextOf, next, first
<1>10. \A k \in 0 .. n - 1 : c[k] \in L /\ c[k + 1] = next[c[k]]
  BY <1>7 DEF IsChain, ChainNodes
<1>11. c[0] = first /\ c[n] = 0
  BY <1>7 DEF IsChain
<1>12. \A i \in 1 .. n : s[i] \in L
  <2> TAKE i \in 1 .. n
  <2>1. i - 1 \in 0 .. n - 1
    BY <1>8
  <2> QED BY <2>1, <1>10
<1>13. \A i \in 1 .. n - 1 : /\ s[i + 1] = next[s[i]] /\ s[i + 1] \in L
                             /\ hi[s[i]] = lo[s[i + 1]] /\ pages[s[i + 1]].prev = s[i]
  <2> TAKE i \in 1 .. n - 1
  <2>1. i - 1 \in 0 .. n - 1 /\ (i - 1) + 1 = i /\ i \in 1 .. n /\ i + 1 \in 1 .. n /\ (i + 1) - 1 = i
    BY <1>8
  <2>2. s[i] = c[i - 1] /\ s[i + 1] = c[i]
    BY <2>1
  <2>3. s[i + 1] = next[s[i]]
    BY <2>1, <2>2, <1>10
  <2>4. s[i] \in L /\ s[i + 1] \in L
    BY <2>1, <1>12
  <2> HIDE DEF s
  <2>5. next[s[i]] # 0
    BY <2>3, <2>4, <1>2
  <2> QED BY <2>3, <2>4, <2>5, <1>5
<1>14. s[1] = first
  <2>1. 1 \in 1 .. n /\ 1 - 1 = 0
    BY <1>7, <1>8
  <2> QED BY <2>1, <1>11
<1>15. s[n] \in L /\ hi[s[n]] = MaxKey + 1
  <2>1. n \in 1 .. n /\ n - 1 \in 0 .. n - 1 /\ (n - 1) + 1 = n
    BY <1>7, <1>8
  <2>2. s[n] = c[n - 1]
    BY <2>1
  <2>3. next[c[n - 1]] = 0 /\ c[n - 1] \in L
    BY <2>1, <1>10, <1>11
  <2> HIDE DEF s
  <2>4. hi[c[n - 1]] = MaxKey + 1
    BY <2>3, <1>2, <1>5
  <2> QED BY <2>2, <2>3, <2>4
<1>16. s \in Seq(L) /\ Len(s) = n
  <2>1. s \in [1 .. n -> L]
    BY <1>12
  <2> HIDE DEF s
  <2> QED BY <2>1, <1>8, SeqDef, LenProperties
<1> HIDE DEF s
<1>17. Row(lo, hi, s)
  BY <1>1, <1>7, <1>13, <1>14, <1>15, <1>16 DEF Row, L
<1>18. \A i \in 1 .. n : pages[s[i]].prev = IF i = 1 THEN NULL ELSE s[i - 1]
  <2> TAKE i \in 1 .. n
  <2>1. CASE i = 1
    BY <2>1, <1>1, <1>5, <1>14
  <2>2. CASE i # 1
    <3>1. i - 1 \in 1 .. n - 1 /\ (i - 1) + 1 = i
      BY <2>2, <1>8
    <3>2. pages[s[i]].prev = s[i - 1]
      BY <3>1, <1>13
    <3> QED BY <2>2, <3>2
  <2> QED BY <2>1, <2>2
<1> QED BY <1>9, <1>16, <1>17, <1>18

(* Along a row of leaves the keys ascend. *)
LEMMA RowKeysAscend ==
  ASSUME NEW a, NEW b, NEW lo, NEW hi, NEW ht, Tree(pages, header.root, a, b, lo, hi, ht),
         NEW s, Row(lo, hi, s)
  PROVE  LET entries == FlattenSeq([i \in DOMAIN s |-> pages[s[i]].entries])
         IN  \A m \in 1 .. Len(entries) - 1 : entries[m].key < entries[m + 1].key
<1> DEFINE blocks == [i \in DOMAIN s |-> pages[s[i]].entries]
           entries == FlattenSeq(blocks)
<1>1. /\ Len(s) \in Nat /\ DOMAIN s = 1 .. Len(s)
      /\ \A i \in 1 .. Len(s) : s[i] \in LeavesOf(pages)
  BY DEF Row
<1>2. \A p \in LeavesOf(pages) :
        /\ pages[p].entries \in Seq(LeafEntry) /\ Ascending(pages[p].entries)
        /\ \A j \in 1 .. Len(pages[p].entries) : /\ pages[p].entries[j].key \in Int
                                                 /\ lo[p] <= pages[p].entries[j].key
                                                 /\ pages[p].entries[j].key < hi[p]
        /\ lo[p] \in Int /\ hi[p] \in Int
  <2> TAKE p \in LeavesOf(pages)
  <2>1. /\ LeafCovers(pages[p], lo[p], hi[p]) /\ lo[p] \in Int /\ hi[p] \in Int
    BY LeafFacts
  <2> QED BY <2>1, EntryFacts DEF LeafCovers
<1>3. Intervals(pages, lo, hi)
  BY LeavesHaveIntervals
<1>4. /\ blocks \in Seq(Seq(LeafEntry)) /\ Len(blocks) = Len(s)
      /\ \A i \in 1 .. Len(s) : blocks[i] = pages[s[i]].entries
  <2>1. \A i \in 1 .. Len(s) : blocks[i] = pages[s[i]].entries /\ blocks[i] \in Seq(LeafEntry)
    BY <1>1, <1>2
  <2>2. blocks \in [1 .. Len(s) -> Seq(LeafEntry)]
    BY <2>1, <1>1
  <2> HIDE DEF blocks
  <2> QED BY <2>1, <2>2, <1>1, SeqDef, LenProperties
<1> HIDE DEF blocks
<1>5. PICK blk, off : FlatOf(blocks, Len(s), entries, blk, off)
  BY <1>4, Flattening
<1> HIDE DEF entries
<1>6. ASSUME NEW m \in 1 .. Len(entries) - 1 PROVE entries[m].key < entries[m + 1].key
  <2>1. Len(entries) \in Nat
    BY <1>5 DEF FlatOf
  <2> DEFINE l == m + 1
  <2>2. m \in 1 .. Len(entries) /\ l \in 1 .. Len(entries) /\ m < l
    BY <2>1
  <2> HIDE DEF l
  <2>3. /\ blk[m] \in 1 .. Len(s) /\ off[m] \in 1 .. Len(blocks[blk[m]])
        /\ entries[m] = blocks[blk[m]][off[m]]
        /\ blk[l] \in 1 .. Len(s) /\ off[l] \in 1 .. Len(blocks[blk[l]])
        /\ entries[l] = blocks[blk[l]][off[l]]
        /\ blk[m] < blk[l] \/ (blk[m] = blk[l] /\ off[m] < off[l])
    BY <2>2, <1>5 DEF FlatOf
  <2>4. CASE blk[m] = blk[l] /\ off[m] < off[l]
    <3>1. Ascending(blocks[blk[m]])
      BY <2>3, <1>1, <1>2, <1>4
    <3>2. entries[m].key < entries[l].key
      BY <2>3, <2>4, <3>1 DEF Ascending
    <3> QED BY <3>2 DEF l
  <2>5. CASE blk[m] < blk[l]
    <3> DEFINE p == s[blk[m]]
               q == s[blk[l]]
    <3>1. p \in LeavesOf(pages) /\ q \in LeavesOf(pages)
      BY <2>3, <1>1
    <3>2. hi[p] <= lo[q]
      BY <2>3, <2>5, <1>3, RowAscends
    <3>3. /\ entries[m] = pages[p].entries[off[m]] /\ off[m] \in 1 .. Len(pages[p].entries)
          /\ entries[l] = pages[q].entries[off[l]] /\ off[l] \in 1 .. Len(pages[q].entries)
      BY <2>3, <1>4
    <3> HIDE DEF p, q
    <3>4. /\ entries[m].key < hi[p] /\ lo[q] <= entries[l].key
          /\ entries[m].key \in Int /\ entries[l].key \in Int /\ hi[p] \in Int /\ lo[q] \in Int
      BY <3>1, <3>3, <1>2
    <3>5. entries[m].key < entries[l].key
      BY <3>2, <3>4
    <3> QED BY <3>5 DEF l
  <2> QED BY <2>3, <2>4, <2>5
<1> QED BY <1>6 DEF entries, blocks

(* At every step of every call, also between a split and the insertion of  *)
(* its separator, keys ascend strictly along the chain of leaves.          *)
THEOREM ChainIsSorted == Spec => []KeysAscend
<1>1. IInv => KeysAscend
  <2> SUFFICES ASSUME IInv PROVE KeysAscend
    OBVIOUS
  <2>1. PICK lo, hi, ht :
          /\ Tree(pages, header.root, LeftHalf(call), RightHalf(call), lo, hi, ht)
          /\ Linked(pages, lo, hi)
    BY DEF IInv, TreeInv, Good, IsTree
  <2>2. Row(lo, hi, LeafChain)
    BY <2>1, LeafChainIsRow
  <2>3. \A m \in 1 .. Len(ChainedEntries) - 1 : ChainedEntries[m].key < ChainedEntries[m + 1].key
    BY <2>1, <2>2, RowKeysAscend DEF ChainedEntries
  <2> QED BY <2>3 DEF KeysAscend
<1> QED BY <1>1, TreeIsSound, PTL

-----------------------------------------------------------------------------
(* The levels of the tree *)

(* s lists the members of S in the order lo gives them. *)
Listing(S, lo, s) ==
  /\ s \in Seq(S) /\ \A p \in S : lo[p] \in Int /\ \E i \in 1 .. Len(s) : s[i] = p
  /\ \A i, j \in 1 .. Len(s) : i < j => lo[s[i]] < lo[s[j]]

(* There is one such list. *)
LEMMA OneListing ==
  ASSUME NEW S, NEW lo, NEW s, NEW t, Listing(S, lo, s), Listing(S, lo, t)
  PROVE  s = t
<1>1. /\ Len(s) \in Nat /\ Len(t) \in Nat /\ DOMAIN s = 1 .. Len(s) /\ DOMAIN t = 1 .. Len(t)
      /\ \A i \in 1 .. Len(s) : s[i] \in S /\ lo[s[i]] \in Int
      /\ \A i \in 1 .. Len(t) : t[i] \in S /\ lo[t[i]] \in Int
      /\ \A p \in S : \E i \in 1 .. Len(s) : s[i] = p
      /\ \A p \in S : \E i \in 1 .. Len(t) : t[i] = p
      /\ \A i, j \in 1 .. Len(s) : i < j => lo[s[i]] < lo[s[j]]
      /\ \A i, j \in 1 .. Len(t) : i < j => lo[t[i]] < lo[t[j]]
  BY LenProperties, ElementOfSeq DEF Listing
<1>2. \A i, j \in 1 .. Len(s) : s[i] = s[j] => i = j
  <2> TAKE i, j \in 1 .. Len(s)
  <2>1. i < j => lo[s[i]] < lo[s[j]]
    BY <1>1
  <2>2. j < i => lo[s[j]] < lo[s[i]]
    BY <1>1
  <2>3. lo[s[i]] \in Int /\ i \in Int /\ j \in Int
    BY <1>1
  <2> QED BY <2>1, <2>2, <2>3
<1>3. \A i, j \in 1 .. Len(t) : t[i] = t[j] => i = j
  <2> TAKE i, j \in 1 .. Len(t)
  <2>1. i < j => lo[t[i]] < lo[t[j]]
    BY <1>1
  <2>2. j < i => lo[t[j]] < lo[t[i]]
    BY <1>1
  <2>3. lo[t[i]] \in Int /\ i \in Int /\ j \in Int
    BY <1>1
  <2> QED BY <2>1, <2>2, <2>3
<1>0. Len(s) \in Nat /\ Len(t) \in Nat
  BY <1>1
<1> DEFINE n == IF Len(s) <= Len(t) THEN Len(s) ELSE Len(t)
           Differ == {i \in 1 .. n : s[i] # t[i]}
<1>4. n \in Nat /\ \A i \in 1 .. n : i \in 1 .. Len(s) /\ i \in 1 .. Len(t)
  BY <1>1
<1>5. \A i \in 1 .. n : s[i] = t[i]
  <2> SUFFICES ASSUME Differ # {} PROVE FALSE
    OBVIOUS
  <2>1. Differ \in SUBSET Nat
    BY <1>4
  <2>2. PICK i \in Differ : \A j \in Differ : i <= j
    <3> HIDE DEF Differ
    <3> QED BY <2>1, LeastElement
  <2>3. i \in 1 .. n /\ s[i] # t[i]
    BY <2>2
  <2>4. \A j \in 1 .. n : j < i => s[j] = t[j]
    <3> HIDE DEF n
    <3> QED BY <2>2, <2>3, <1>4
  <2> HIDE DEF n, Differ
  <2>5. PICK j \in 1 .. Len(t) : t[j] = s[i]
    BY <2>3, <1>1, <1>4
  <2>6. PICK k \in 1 .. Len(s) : s[k] = t[i]
    BY <2>3, <1>1, <1>4
  <2>7. ~(j < i)
    <3> SUFFICES ASSUME j < i PROVE FALSE
      OBVIOUS
    <3>1. j \in 1 .. n
      BY <2>3, <1>4
    <3> QED BY <3>1, <2>3, <2>4, <2>5, <1>2, <1>4
  <2>8. ~(k < i)
    <3> SUFFICES ASSUME k < i PROVE FALSE
      OBVIOUS
    <3>1. k \in 1 .. n
      BY <2>3, <1>4
    <3> QED BY <3>1, <2>3, <2>4, <2>6, <1>3, <1>4
  <2>9. i < j /\ i < k
    BY <2>3, <2>5, <2>6, <2>7, <2>8, <1>4
  <2>10. lo[t[i]] < lo[s[i]] /\ lo[s[i]] < lo[t[i]]
    BY <2>3, <2>5, <2>6, <2>9, <1>1, <1>4
  <2>11. lo[s[i]] \in Int /\ lo[t[i]] \in Int
    BY <2>3, <1>1, <1>4
  <2> QED BY <2>10, <2>11
<1>6. Len(s) = Len(t)
  <2>1. ASSUME Len(s) < Len(t) PROVE FALSE
    <3>1. Len(s) + 1 \in 1 .. Len(t) /\ n = Len(s)
      BY <2>1, <1>0
    <3> HIDE DEF n
    <3>2. PICK k \in 1 .. Len(s) : s[k] = t[Len(s) + 1]
      BY <3>1, <1>1
    <3>3. t[k] = t[Len(s) + 1] /\ k \in 1 .. Len(t) /\ k # Len(s) + 1
      BY <3>1, <3>2, <1>1, <1>4, <1>5
    <3> QED BY <3>1, <3>3, <1>3
  <2>2. ASSUME Len(t) < Len(s) PROVE FALSE
    <3>1. Len(t) + 1 \in 1 .. Len(s) /\ n = Len(t)
      BY <2>2, <1>0
    <3> HIDE DEF n
    <3>2. PICK k \in 1 .. Len(t) : t[k] = s[Len(t) + 1]
      BY <3>1, <1>1
    <3>3. s[k] = s[Len(t) + 1] /\ k \in 1 .. Len(s) /\ k # Len(t) + 1
      BY <3>1, <3>2, <1>1, <1>4, <1>5
    <3> QED BY <3>1, <3>3, <1>2
  <2> HIDE DEF n
  <2> QED BY <2>1, <2>2, <1>0
<1>7. \A i \in 1 .. Len(s) : s[i] = t[i]
  BY <1>0, <1>5, <1>6
<1>8. s \in Seq(S) /\ t \in Seq(S)
  BY DEF Listing
<1> HIDE DEF n, Differ
<1> QED BY <1>6, <1>7, <1>8, SeqEqual

(* All nodes one step below those of x, in order: a level of Levels.       *)
KidLists(x) == [i \in DOMAIN x |-> IF pages[x[i]].type = "INTERNAL" THEN Kids(pages[x[i]]) ELSE <<>>]
NextLevel(x) == FlattenSeq(KidLists(x))

LEMMA NextLevelFacts ==
  ASSUME NEW lo, NEW hi, NEW ht, Tree(pages, header.root, NULL, NULL, lo, hi, ht),
         NEW x \in Seq(NodesOf(pages))
  PROVE  /\ NextLevel(x) \in Seq(NodesOf(pages))
         /\ \E blk, off : FlatOf(KidLists(x), Len(x), NextLevel(x), blk, off)
         /\ \A i \in 1 .. Len(x) :
              KidLists(x)[i] = IF pages[x[i]].type = "INTERNAL" THEN Kids(pages[x[i]]) ELSE <<>>
<1> DEFINE N == NodesOf(pages)
<1>1. Len(x) \in Nat /\ DOMAIN x = 1 .. Len(x) /\ \A i \in 1 .. Len(x) : x[i] \in N
  BY LenProperties, ElementOfSeq
<1>2. \A p \in N : pages[p].type = "INTERNAL" => Kids(pages[p]) \in Seq(N)
  <2> TAKE p \in N
  <2> HAVE pages[p].type = "INTERNAL"
  <2>1. p \in InnersOf(pages)
    BY DEF NodesOf, LeavesOf, InnersOf
  <2>2. pages[p].entries \in Seq(InternalEntry)
    BY <2>1, SoundFacts
  <2> DEFINE e == pages[p].entries
             rest == [i \in DOMAIN e |-> e[i].right_child]
  <2>3. Len(e) \in Nat /\ DOMAIN e = 1 .. Len(e)
    BY <2>2, EntryFacts
  <2>4. \A i \in Positions(pages[p]) : Kid(pages[p], i) \in N
    BY <2>1, KidFacts
  <2>5. pages[p].left \in N
    <3>1. 1 \in Positions(pages[p])
      BY <2>3 DEF Positions
    <3> QED BY <3>1, <2>4 DEF Kid
  <2>6. \A i \in 1 .. Len(e) : rest[i] \in N
    <3> TAKE i \in 1 .. Len(e)
    <3>1. i + 1 \in Positions(pages[p]) /\ i + 1 # 1 /\ (i + 1) - 1 = i
      BY <2>3 DEF Positions
    <3>2. Kid(pages[p], i + 1) = e[i].right_child
      BY <3>1 DEF Kid
    <3>3. rest[i] = e[i].right_child
      BY <2>3
    <3> QED BY <3>1, <3>2, <3>3, <2>4
  <2>7. rest \in [1 .. Len(e) -> N]
    BY <2>3, <2>6
  <2>8. Kids(pages[p]) = <<pages[p].left>> \o rest
    BY DEF Kids
  <2> HIDE DEF rest, e, N
  <2>9. rest \in Seq(N)
    BY <2>3, <2>7, SeqDef
  <2>10. <<pages[p].left>> \in Seq(N)
    BY <2>5
  <2> QED BY <2>8, <2>9, <2>10, ConcatProperties
<1>3. \A i \in 1 .. Len(x) :
        /\ KidLists(x)[i] = IF pages[x[i]].type = "INTERNAL" THEN Kids(pages[x[i]]) ELSE <<>>
        /\ KidLists(x)[i] \in Seq(N)
  BY <1>1, <1>2 DEF KidLists
<1>4. KidLists(x) \in Seq(Seq(N)) /\ Len(KidLists(x)) = Len(x)
  <2> DEFINE k == KidLists(x)
  <2>1. DOMAIN k = 1 .. Len(x) /\ k = [i \in 1 .. Len(x) |-> k[i]]
    BY <1>1 DEF KidLists
  <2> HIDE DEF k, N
  <2>2. k \in [1 .. Len(x) -> Seq(N)]
    BY <2>1, <1>3 DEF k
  <2> QED BY <2>2, <1>1, SeqDef, LenProperties DEF k
<1> HIDE DEF N
<1> QED BY <1>3, <1>4, Flattening DEF NextLevel, N

(* The nodes of one height. *)
LevelAt(ht, h) == {p \in NodesOf(pages) : ht[p] = h}

(* No interval leaves that of the root. *)
LEMMA NodesEndInside ==
  ASSUME NEW pg, NEW root, NEW lo, NEW hi, NEW ht, Tree(pg, root, NULL, NULL, lo, hi, ht)
  PROVE  \A p \in NodesOf(pg) : hi[p] <= MaxKey + 1
<1> DEFINE H == ht[root]
           Inside == {d \in 0 .. H : \A p \in NodesOf(pg) : ht[p] + d = H => hi[p] <= MaxKey + 1}
<1>1. /\ \A p \in NodesOf(pg) : hi[p] \in Nat /\ ht[p] \in Nat /\ ht[p] <= H /\ p # NULL
      /\ root \in NodesOf(pg) /\ hi[root] = MaxKey + 1 /\ MaxKey \in Nat
  BY NullIsNoPage, SizeFacts DEF Tree, Typed, RootSound, End, NodesOf, LeavesOf, InnersOf
<1>2. H \in Nat
  BY <1>1
<1>3. ASSUME NEW q \in NodesOf(pg), q # root
      PROVE  \E p \in NodesOf(pg) : ht[p] = ht[q] + 1 /\ hi[q] <= hi[p]
  <2> DEFINE p == pg[q].parent
  <2>1. p \in InnersOf(pg) /\ \E i \in Positions(pg[p]) : Kid(pg[p], i) = q
    BY <1>1, <1>3, PlaceFacts
  <2> HIDE DEF p
  <2>2. PICK i \in Positions(pg[p]) : Kid(pg[p], i) = q
    BY <2>1
  <2>3. /\ InnerCovers(pg[p], lo[p], hi[p]) /\ lo[p] < hi[p] /\ lo[p] \in Int /\ hi[p] \in Int
        /\ KidSound(pg, root, NULL, NULL, lo, hi, ht, p, i) /\ p \in NodesOf(pg)
    BY <2>1, SoundFacts
  <2>4. ht[p] = ht[q] + 1 /\ End(NULL, NULL, hi, q) = EntryHigh(pg[p], i, hi[p])
    BY <2>2, <2>3 DEF KidSound
  <2>5. hi[q] = EntryHigh(pg[p], i, hi[p])
    BY <2>4, <1>1, <1>3 DEF End
  <2>6. EntryHigh(pg[p], i, hi[p]) <= hi[p]
    BY <2>3, KidInside
  <2> QED BY <2>3, <2>4, <2>5, <2>6
<1>4. 0 \in Inside
  <2> SUFFICES ASSUME NEW p \in NodesOf(pg), ht[p] + 0 = H PROVE hi[p] <= MaxKey + 1
    BY <1>2
  <2>1. p = root
    <3> SUFFICES ASSUME p # root PROVE FALSE
      OBVIOUS
    <3>1. PICK q \in NodesOf(pg) : ht[q] = ht[p] + 1
      BY <1>3
    <3>2. ht[q] <= H /\ ht[p] \in Nat
      BY <1>1
    <3> HIDE DEF H
    <3> QED BY <3>1, <3>2, <1>2
  <2> QED BY <2>1, <1>1
<1>5. ASSUME NEW d \in 1 .. H, d - 1 \in Inside PROVE d \in Inside
  <2>1. d \in 0 .. H
    BY <1>2
  <2> SUFFICES ASSUME NEW p \in NodesOf(pg), ht[p] + d = H PROVE hi[p] <= MaxKey + 1
    BY <2>1
  <2>2. CASE p = root
    BY <2>2, <1>1
  <2>3. CASE p # root
    <3>1. PICK q \in NodesOf(pg) : ht[q] = ht[p] + 1 /\ hi[p] <= hi[q]
      BY <2>3, <1>3
    <3>2. ht[q] + (d - 1) = H
      <4>1. ht[p] \in Nat
        BY <1>1
      <4> HIDE DEF H
      <4> QED BY <4>1, <3>1, <1>2
    <3>3. hi[q] <= MaxKey + 1
      BY <3>2, <1>5
    <3> QED BY <3>1, <3>3, <1>1
  <2> QED BY <2>2, <2>3
<1>6. \A d \in 0 .. H : d \in Inside
  <2> HIDE DEF Inside, H
  <2> QED BY <1>2, <1>4, <1>5, EveryRound
<1> SUFFICES ASSUME NEW p \in NodesOf(pg) PROVE hi[p] <= MaxKey + 1
  OBVIOUS
<1>7. H - ht[p] \in 0 .. H /\ ht[p] + (H - ht[p]) = H
  <2>1. ht[p] \in Nat /\ ht[p] <= H
    BY <1>1
  <2> HIDE DEF H
  <2> QED BY <2>1, <1>2
<1> QED BY <1>6, <1>7

(* Of two nodes of the same height one ends before the other begins.       *)
LEMMA LevelIsDisjoint ==
  ASSUME NEW lo, NEW hi, NEW ht, Tree(pages, header.root, NULL, NULL, lo, hi, ht),
         NEW p \in NodesOf(pages), NEW q \in NodesOf(pages), ht[p] = ht[q], lo[p] < lo[q]
  PROVE  hi[p] <= lo[q]
<1>1. /\ lo[p] \in Nat /\ hi[p] \in Nat /\ lo[q] \in Nat /\ hi[q] \in Nat
      /\ ht[p] \in Nat /\ lo[q] < hi[q] /\ ht[p] <= ht[header.root] /\ ht[header.root] \in Nat
  BY DEF Tree, Typed, Ranges, RootSound, NodesOf, LeavesOf, InnersOf
<1> SUFFICES ASSUME lo[q] < hi[p] PROVE FALSE
  BY <1>1
<1>2. lo[q] \in 0 .. MaxKey
  <2>1. hi[p] <= MaxKey + 1
    BY NodesEndInside
  <2> QED BY <2>1, <1>1, SizeFacts
<1>3. ht[p] \in 0 .. ht[header.root]
  BY <1>1
<1>4. PICK x \in NodesOf(pages) : OnLevel(pages, lo, hi, ht, ht[p], lo[q]) = {x}
  BY <1>2, <1>3, OneNodePerLevel
<1>5. p \in OnLevel(pages, lo, hi, ht, ht[p], lo[q]) /\ q \in OnLevel(pages, lo, hi, ht, ht[p], lo[q])
  BY <1>1 DEF OnLevel
<1> QED BY <1>1, <1>4, <1>5

(* The next level of a level lists the nodes one step lower.               *)
LEMMA LevelBelow ==
  ASSUME NEW lo, NEW hi, NEW ht, Tree(pages, header.root, NULL, NULL, lo, hi, ht),
         NEW h \in Nat, h < ht[header.root], NEW x, Listing(LevelAt(ht, h + 1), lo, x)
  PROVE  Listing(LevelAt(ht, h), lo, NextLevel(x))
<1> DEFINE N == NodesOf(pages)
           up == LevelAt(ht, h + 1)
           dn == LevelAt(ht, h)
           y == NextLevel(x)
<1>1. /\ x \in Seq(up) /\ Len(x) \in Nat /\ \A i \in 1 .. Len(x) : x[i] \in up
      /\ \A p \in up : \E i \in 1 .. Len(x) : x[i] = p
      /\ \A i, j \in 1 .. Len(x) : i < j => lo[x[i]] < lo[x[j]]
  BY LenProperties, ElementOfSeq DEF Listing
<1>2. /\ \A p \in N : lo[p] \in Nat /\ hi[p] \in Nat /\ ht[p] \in Nat /\ lo[p] < hi[p]
      /\ \A p \in LeavesOf(pages) : ht[p] = 0
      /\ N = LeavesOf(pages) \cup InnersOf(pages)
  BY DEF Tree, Typed, Ranges, NodesOf, LeavesOf, InnersOf
<1>3. \A p \in up : /\ p \in InnersOf(pages) /\ p \in N /\ ht[p] = h + 1 /\ pages[p].type = "INTERNAL"
                    /\ pages[p].entries \in Seq(InternalEntry)
  <2> TAKE p \in up
  <2>1. p \in N /\ ht[p] = h + 1 /\ h + 1 # 0
    BY DEF LevelAt
  <2>2. p \in InnersOf(pages)
    BY <2>1, <1>2
  <2> QED BY <2>1, <2>2, SoundFacts
<1>4. x \in Seq(N)
  <2>1. up \subseteq N
    BY DEF LevelAt
  <2> HIDE DEF up, N
  <2> QED BY <1>1, <2>1, SeqMonotonic
<1>5. /\ y \in Seq(N)
      /\ \E blk, off : FlatOf(KidLists(x), Len(x), y, blk, off)
      /\ \A i \in 1 .. Len(x) :
           KidLists(x)[i] = IF pages[x[i]].type = "INTERNAL" THEN Kids(pages[x[i]]) ELSE <<>>
  BY <1>4, NextLevelFacts
<1> HIDE DEF up, N, y
<1>6. PICK blk, off : FlatOf(KidLists(x), Len(x), y, blk, off)
  BY <1>5
<1>7. \A i \in 1 .. Len(x) : /\ Len(KidLists(x)[i]) = Len(pages[x[i]].entries) + 1
                             /\ 1 .. Len(KidLists(x)[i]) = Positions(pages[x[i]])
                             /\ \A j \in Positions(pages[x[i]]) : KidLists(x)[i][j] = Kid(pages[x[i]], j)
  <2> TAKE i \in 1 .. Len(x)
  <2>1. KidLists(x)[i] = Kids(pages[x[i]]) /\ pages[x[i]].entries \in Seq(InternalEntry)
    BY <1>1, <1>3, <1>5
  <2> QED BY <2>1, KidsByPosition DEF Positions
<1>8. \A m \in 1 .. Len(y) : /\ x[blk[m]] \in up /\ off[m] \in Positions(pages[x[blk[m]]])
                             /\ y[m] = Kid(pages[x[blk[m]]], off[m])
  <2> TAKE m \in 1 .. Len(y)
  <2>1. /\ blk[m] \in 1 .. Len(x) /\ off[m] \in 1 .. Len(KidLists(x)[blk[m]])
        /\ y[m] = KidLists(x)[blk[m]][off[m]]
    BY <1>6 DEF FlatOf
  <2> QED BY <2>1, <1>1, <1>7
<1>9. ASSUME NEW p \in up, NEW i \in Positions(pages[p])
      PROVE  /\ Kid(pages[p], i) \in N /\ ht[Kid(pages[p], i)] = h
             /\ lo[Kid(pages[p], i)] = EntryLow(pages[p], i, lo[p])
  <2> DEFINE c == Kid(pages[p], i)
  <2>1. p \in InnersOf(pages) /\ ht[p] = h + 1
    BY <1>3
  <2>2. c \in N /\ ht[p] = ht[c] + 1 /\ lo[c] = EntryLow(pages[p], i, lo[p])
    <3>1. KidSound(pages, header.root, NULL, NULL, lo, hi, ht, p, i)
      BY <2>1, SoundFacts
    <3> QED BY <3>1 DEF KidSound, N
  <2> HIDE DEF c
  <2>3. ht[c] = h
    BY <2>1, <2>2, <1>2
  <2> QED BY <2>2, <2>3 DEF c
<1>10. \A p \in up : /\ InnerCovers(pages[p], lo[p], hi[p]) /\ lo[p] < hi[p]
                     /\ lo[p] \in Int /\ hi[p] \in Int
  BY <1>3, SoundFacts
<1>11. \A m \in 1 .. Len(y) : y[m] \in dn
  <2> TAKE m \in 1 .. Len(y)
  <2> DEFINE p == x[blk[m]]
             i == off[m]
  <2>2. p \in up /\ i \in Positions(pages[p]) /\ y[m] = Kid(pages[p], i)
    BY <1>8
  <2> HIDE DEF p, i
  <2>3. Kid(pages[p], i) \in N /\ ht[Kid(pages[p], i)] = h
    BY <2>2, <1>9
  <2>1. y[m] \in N /\ ht[y[m]] = h
    BY <2>2, <2>3
  <2> QED BY <2>1 DEF LevelAt, N
<1>12. y \in Seq(dn)
  <2>1. Len(y) \in Nat /\ y \in [1 .. Len(y) -> N]
    BY <1>5, LenProperties
  <2> HIDE DEF dn
  <2>2. y \in [1 .. Len(y) -> dn]
    BY <2>1, <1>11
  <2> QED BY <2>1, <2>2, SeqDef
<1>13. ASSUME NEW q \in dn PROVE \E m \in 1 .. Len(y) : y[m] = q
  <2>1. q \in N /\ ht[q] = h
    BY DEF LevelAt, N
  <2>2. q # header.root
    BY <2>1
  <2>3. PICK p \in InnersOf(pages) : q \in Range(Kids(pages[p])) /\ ht[p] = ht[q] + 1
    BY <2>1, <2>2, AboveIt DEF N
  <2>4. p \in up
    BY <2>1, <2>3, <1>2 DEF up, LevelAt, N
  <2>5. PICK j \in Positions(pages[p]) : q = Kid(pages[p], j)
    BY <2>3, <2>4, <1>3, KidSet
  <2>6. PICK i \in 1 .. Len(x) : x[i] = p
    BY <2>4, <1>1
  <2>7. j \in 1 .. Len(KidLists(x)[i]) /\ KidLists(x)[i][j] = q
    BY <2>5, <2>6, <1>7
  <2>8. PICK m \in 1 .. Len(y) : blk[m] = i /\ off[m] = j
    BY <2>7, <1>6 DEF FlatOf
  <2>9. y[m] = KidLists(x)[i][j]
    BY <2>8, <1>6 DEF FlatOf
  <2> QED BY <2>7, <2>9
<1>14. ASSUME NEW l \in 1 .. Len(y), NEW m \in 1 .. Len(y), l < m PROVE lo[y[l]] < lo[y[m]]
  <2> DEFINE p == x[blk[l]]
             q == x[blk[m]]
             i == off[l]
             j == off[m]
  <2>1. /\ p \in up /\ i \in Positions(pages[p]) /\ y[l] = Kid(pages[p], i)
        /\ q \in up /\ j \in Positions(pages[q]) /\ y[m] = Kid(pages[q], j)
    BY <1>8
  <2>2. /\ blk[l] \in 1 .. Len(x) /\ blk[m] \in 1 .. Len(x)
        /\ blk[l] < blk[m] \/ (blk[l] = blk[m] /\ i < j)
    BY <1>6, <1>14 DEF FlatOf
  <2>3. (lo[p] < lo[q] /\ p # q) \/ (p = q /\ i < j)
    <3>1. lo[p] \in Int /\ lo[q] \in Int
      BY <2>1, <1>10
    <3>2. blk[l] < blk[m] => lo[p] < lo[q]
      BY <2>2, <1>1
    <3>3. blk[l] = blk[m] => p = q
      OBVIOUS
    <3> HIDE DEF p, q
    <3>4. lo[p] < lo[q] => p # q
      BY <3>1
    <3> QED BY <3>2, <3>3, <3>4, <2>2
  <2> HIDE DEF p, q, i, j
  <2>4. lo[y[l]] = EntryLow(pages[p], i, lo[p]) /\ lo[y[m]] = EntryLow(pages[q], j, lo[q])
    BY <2>1, <1>9
  <2>5. CASE p = q /\ i < j
    <3>1. /\ EntryLow(pages[p], i, lo[p]) < EntryHigh(pages[p], i, hi[p])
          /\ EntryHigh(pages[p], i, hi[p]) <= EntryLow(pages[p], j, lo[p])
          /\ EntryLow(pages[p], i, lo[p]) \in Int /\ EntryHigh(pages[p], i, hi[p]) \in Int
          /\ EntryLow(pages[p], j, lo[p]) \in Int
      BY <2>1, <2>5, <1>10, KidsFollow
    <3> QED BY <3>1, <2>4, <2>5
  <2>6. CASE lo[p] < lo[q]
    <3>1. hi[p] <= lo[q]
      <4>1. p \in N /\ q \in N /\ ht[p] = ht[q]
        BY <2>1, <1>3
      <4> QED BY <4>1, <2>6, LevelIsDisjoint DEF N
    <3>2. y[l] \in N /\ lo[y[l]] \in Nat
      BY <2>1, <1>2, <1>9
    <3>3. EntryLow(pages[p], i, lo[p]) < hi[p]
      <4>1. /\ InnerCovers(pages[p], lo[p], hi[p]) /\ lo[p] < hi[p] /\ lo[p] \in Int /\ hi[p] \in Int
        BY <2>1, <1>10
      <4>2. Len(pages[p].entries) \in Nat
        BY <4>1, EntryFacts DEF InnerCovers
      <4>3. CASE i = 1
        BY <4>1, <4>3 DEF EntryLow
      <4>4. CASE i # 1
        <5>1. i - 1 \in 1 .. Len(pages[p].entries)
          BY <2>1, <4>2, <4>4 DEF Positions
        <5> QED BY <4>1, <4>4, <5>1 DEF EntryLow, InnerCovers
      <4> QED BY <4>3, <4>4
    <3>4. lo[q] <= EntryLow(pages[q], j, lo[q]) /\ EntryLow(pages[q], j, lo[q]) \in Int
      BY <2>1, <1>10, KidInside
    <3>5. hi[p] \in Int /\ lo[q] \in Int
      BY <2>1, <1>10
    <3> QED BY <3>1, <3>2, <3>3, <3>4, <3>5, <2>4
  <2> QED BY <2>3, <2>5, <2>6
<1>15. \A p \in dn : lo[p] \in Int
  BY <1>2 DEF LevelAt, N
<1> HIDE DEF dn
<1>16. Listing(dn, lo, y)
  BY <1>12, <1>13, <1>14, <1>15 DEF Listing
<1> QED BY <1>16 DEF dn, y

(* Level d of the tree lists the nodes d steps below the root, for every d *)
(* down to the leaves.                                                     *)
LEMMA LevelsAreListed ==
  ASSUME NEW lo, NEW hi, NEW ht, Tree(pages, header.root, NULL, NULL, lo, hi, ht)
  PROVE  \A d \in 0 .. ht[header.root] : Listing(LevelAt(ht, ht[header.root] - d), lo, Levels[d])
<1> DEFINE root == header.root
           H == ht[root]
           N == NodesOf(pages)
           X == Seq(N)
           step == [x \in X \X (1 .. MaxPage) |-> NextLevel(x[1])]
           Stacks(g) == g = [d \in 0 .. MaxPage |-> IF d = 0 THEN <<root>> ELSE NextLevel(g[d - 1])]
<1>0. Levels = CHOOSE g : Stacks(g)
  BY DEF Levels, NextLevel, KidLists
<1>1. H \in Nat /\ H < MaxPage /\ MaxPage \in Nat
  BY TreeIsLow, FileAssumption
<1>2. /\ root \in N /\ \A p \in N : lo[p] \in Nat /\ ht[p] \in Nat /\ ht[p] <= H
  BY DEF Tree, RootSound, Typed, NodesOf, LeavesOf, InnersOf
<1>3. \A x \in X : NextLevel(x) \in X
  BY NextLevelFacts
<1> HIDE DEF N, X
<1>4. \E f : Stacks(f)
  <2>1. IsLoop(X, <<root>>, MaxPage, step)
    <3>1. step \in [X \X (1 .. MaxPage) -> X]
      <4>1. \A x \in X \X (1 .. MaxPage) : NextLevel(x[1]) \in X
        BY <1>3
      <4> QED BY <4>1
    <3>2. <<root>> \in X
      BY <1>2 DEF X
    <3> HIDE DEF step
    <3> QED BY <3>1, <3>2, <1>1 DEF IsLoop
  <2>2. PICK f : LoopRun(X, <<root>>, MaxPage, step, f)
    <3> HIDE DEF step
    <3> QED BY <2>1, LoopRuns
  <2>3. \A d \in 0 .. MaxPage : f[d] = IF d = 0 THEN <<root>> ELSE NextLevel(f[d - 1])
    <3> TAKE d \in 0 .. MaxPage
    <3>1. CASE d = 0
      BY <3>1, <2>2 DEF LoopRun
    <3>2. CASE d # 0
      <4>1. d \in 1 .. MaxPage /\ d - 1 \in 0 .. MaxPage
        BY <3>2, <1>1
      <4>2. f[d - 1] \in X /\ f[d] = step[<<f[d - 1], d>>]
        BY <4>1, <2>2 DEF LoopRun
      <4> QED BY <4>1, <4>2, <3>2
    <3> QED BY <3>1, <3>2
  <2>4. f = [d \in 0 .. MaxPage |-> f[d]]
    BY <2>2 DEF LoopRun
  <2>5. Stacks(f)
    BY <2>3, <2>4
  <2> QED BY <2>5
<1>5. Stacks(Levels)
  <2>1. Stacks(CHOOSE g : Stacks(g))
    <3> HIDE DEF Stacks
    <3> QED BY <1>4
  <2> HIDE DEF Stacks
  <2> QED BY <2>1, <1>0
<1>6. \A d \in 0 .. MaxPage : Levels[d] = IF d = 0 THEN <<root>> ELSE NextLevel(Levels[d - 1])
  BY <1>5
<1> HIDE DEF Stacks, step
<1> DEFINE Listed == {d \in 0 .. H : Listing(LevelAt(ht, H - d), lo, Levels[d])}
<1>7. 0 \in Listed
  <2>1. Levels[0] = <<root>> /\ H - 0 = H /\ 0 \in 0 .. H
    BY <1>1, <1>6
  <2>2. LevelAt(ht, H) = {root}
    <3>1. root \in LevelAt(ht, H)
      BY <1>2 DEF LevelAt, N
    <3>2. ASSUME NEW q \in N, ht[q] = H, q # root PROVE FALSE
      <4>1. PICK p \in InnersOf(pages) : ht[p] = ht[q] + 1
        BY <3>2, AboveIt DEF N
      <4>2. p \in N
        BY DEF N, NodesOf
      <4>3. ht[p] <= H /\ ht[p] = H + 1
        BY <4>1, <4>2, <3>2, <1>2
      <4> QED BY <4>3, <1>1
    <3> QED BY <3>1, <3>2 DEF LevelAt, N
  <2>3. Listing({root}, lo, <<root>>)
    <3>1. <<root>> \in Seq({root}) /\ Len(<<root>>) = 1 /\ <<root>>[1] = root
      OBVIOUS
    <3>2. lo[root] \in Int /\ 1 \in 1 .. 1
      BY <1>2
    <3>3. \A i, j \in 1 .. 1 : ~(i < j)
      OBVIOUS
    <3> QED BY <3>1, <3>2, <3>3 DEF Listing
  <2> HIDE DEF H
  <2> QED BY <2>1, <2>2, <2>3
<1>8. ASSUME NEW d \in 1 .. H, d - 1 \in Listed PROVE d \in Listed
  <2> DEFINE h == H - d
  <2>1. h \in Nat /\ h < H /\ H - (d - 1) = h + 1 /\ d \in 0 .. H /\ d \in 0 .. MaxPage /\ d # 0
    <3> HIDE DEF H
    <3> QED BY <1>1
  <2>2. Listing(LevelAt(ht, h + 1), lo, Levels[d - 1])
    BY <2>1, <1>8
  <2>3. Levels[d] = NextLevel(Levels[d - 1])
    BY <2>1, <1>6
  <2> DEFINE x == Levels[d - 1]
  <2> HIDE DEF h, x
  <2>4. Listing(LevelAt(ht, h), lo, NextLevel(x))
    BY <2>1, <2>2, LevelBelow DEF x
  <2> QED BY <2>1, <2>3, <2>4 DEF h, x
<1>9. \A d \in 0 .. H : d \in Listed
  <2> HIDE DEF Listed, H
  <2> QED BY <1>1, <1>7, <1>8, EveryRound
<1> QED BY <1>9

(* A row misses no leaf. *)
LEMMA RowIsListing ==
  ASSUME NEW lo, NEW hi, NEW ht, Tree(pages, header.root, NULL, NULL, lo, hi, ht),
         Linked(pages, lo, hi), NEW s, Row(lo, hi, s)
  PROVE  Listing(LeavesOf(pages), lo, s)
<1> DEFINE L == LeavesOf(pages)
<1>1. /\ s \in Seq(L) /\ Len(s) \in Nat /\ Len(s) >= 1 /\ \A i \in 1 .. Len(s) : s[i] \in L
      /\ lo[s[1]] = 0 /\ hi[s[Len(s)]] = MaxKey + 1
      /\ \A i \in 1 .. Len(s) - 1 : hi[s[i]] = lo[s[i + 1]]
  BY LenProperties, ElementOfSeq DEF Row
<1>2. \A p \in L : lo[p] \in Nat /\ hi[p] \in Nat /\ lo[p] < hi[p] /\ hi[p] <= MaxKey + 1
  <2>1. \A p \in L : hi[p] <= MaxKey + 1
    BY DEF Linked, LinkedLeaf
  <2> QED BY <2>1, LeafFacts
<1>3. Intervals(pages, lo, hi) /\ MaxKey \in Nat
  BY LeavesHaveIntervals, SizeFacts
<1>4. ASSUME NEW i \in 1 .. Len(s), NEW j \in 1 .. Len(s), i < j PROVE lo[s[i]] < lo[s[j]]
  <2>1. hi[s[i]] <= lo[s[j]]
    BY <1>3, <1>4, RowAscends
  <2>2. s[i] \in L /\ s[j] \in L
    BY <1>1
  <2> HIDE DEF L
  <2> QED BY <2>1, <2>2, <1>2
<1> HIDE DEF L
<1>5. ASSUME NEW p \in L PROVE \E i \in 1 .. Len(s) : s[i] = p
  <2> DEFINE Past == {i \in 1 .. Len(s) : lo[p] < hi[s[i]]}
  <2>1. lo[p] \in 0 .. MaxKey
    BY <1>2, <1>3
  <2>2. Past # {} /\ Past \in SUBSET Nat
    <3>1. lo[p] < hi[s[Len(s)]] /\ Len(s) \in 1 .. Len(s)
      BY <2>1, <1>1, <1>3
    <3> QED BY <3>1
  <2>3. PICK i \in Past : \A j \in Past : i <= j
    <3> HIDE DEF Past
    <3> QED BY <2>2, LeastElement
  <2>4. i \in 1 .. Len(s) /\ lo[p] < hi[s[i]]
    BY <2>3
  <2>5. lo[s[i]] <= lo[p]
    <3>1. CASE i = 1
      BY <3>1, <2>1, <1>1
    <3>2. CASE i # 1
      <4>1. i - 1 \in 1 .. Len(s) /\ ~(i <= i - 1) /\ i - 1 \in 1 .. Len(s) - 1 /\ (i - 1) + 1 = i
        BY <2>4, <3>2, <1>1
      <4>2. i - 1 \notin Past
        <5> HIDE DEF Past
        <5> QED BY <2>3, <4>1
      <4>3. ~(lo[p] < hi[s[i - 1]])
        BY <4>1, <4>2
      <4>4. hi[s[i - 1]] = lo[s[i]] /\ hi[s[i - 1]] \in Nat
        BY <4>1, <1>1, <1>2
      <4> QED BY <4>3, <4>4, <2>1
    <3> QED BY <3>1, <3>2
  <2> DEFINE k == lo[p]
  <2>6. k \in 0 .. MaxKey /\ lo[p] <= k /\ k < hi[p] /\ lo[s[i]] <= k /\ k < hi[s[i]] /\ s[i] \in L
    BY <2>1, <2>4, <2>5, <1>1, <1>2
  <2> HIDE DEF k
  <2>7. p = FindLeaf(k) /\ s[i] = FindLeaf(k)
    BY <2>6, FindLeafFacts DEF L
  <2> QED BY <2>4, <2>7
<1>6. \A p \in L : lo[p] \in Int
  BY <1>2
<1>7. Listing(L, lo, s)
  BY <1>1, <1>4, <1>5, <1>6 DEF Listing
<1> QED BY <1>7 DEF L

(* After every call the chain of leaves, forwards and backwards, is the    *)
(* bottom level of the tree, and above it are internal nodes only.         *)
LEMMA LinkedFacts ==
  ASSUME IInv, call = Idle
  PROVE  LeavesAreLinked
<1>1. PICK lo, hi, ht : Tree(pages, header.root, NULL, NULL, lo, hi, ht) /\ Linked(pages, lo, hi)
  BY IdleFacts DEF IInv
<1> DEFINE H == ht[header.root]
<1>2. H \in Nat /\ H < MaxPage /\ MaxPage \in Nat
  BY <1>1, TreeIsLow, FileAssumption
<1>3. /\ Row(lo, hi, LeafChain)
      /\ \A i \in 1 .. Len(LeafChain) :
           pages[LeafChain[i]].prev = IF i = 1 THEN NULL ELSE LeafChain[i - 1]
  BY <1>1, LeafChainIsRow
<1>4. Listing(LeavesOf(pages), lo, LeafChain)
  BY <1>1, <1>3, RowIsListing
<1>5. \A d \in 0 .. H : Listing(LevelAt(ht, H - d), lo, Levels[d])
  BY <1>1, LevelsAreListed
<1>6. \A p \in NodesOf(pages) : ht[p] \in Nat /\ (ht[p] = 0 <=> p \in LeavesOf(pages))
  BY <1>1 DEF Tree, Typed, Ranges, NodesOf, LeavesOf, InnersOf
<1>7. LevelAt(ht, 0) = LeavesOf(pages)
  BY <1>6 DEF LevelAt, NodesOf
<1>8. Levels[H] = LeafChain
  <2>1. H \in 0 .. H /\ H - H = 0
    BY <1>2
  <2>2. Listing(LeavesOf(pages), lo, Levels[H])
    BY <2>1, <1>5, <1>7
  <2> QED BY <2>2, <1>4, OneListing
<1>9. ASSUME NEW d \in 0 .. H - 1, NEW p \in Range(Levels[d]) PROVE pages[p].type = "INTERNAL"
  <2>1. d \in 0 .. H /\ H - d # 0
    BY <1>2
  <2>2. Levels[d] \in Seq(LevelAt(ht, H - d))
    BY <2>1, <1>5 DEF Listing
  <2>3. p \in LevelAt(ht, H - d)
    BY <2>2, RangeOfSeq
  <2>4. p \in NodesOf(pages) /\ ht[p] = H - d
    BY <2>3 DEF LevelAt
  <2> QED BY <2>1, <2>4, <1>6 DEF NodesOf, LeavesOf, InnersOf
<1>10. Range(LeafChain) = LeafPages /\ DOMAIN LeafChain = 1 .. Len(LeafChain)
  <2>1. /\ LeafChain \in Seq(LeavesOf(pages))
        /\ \A p \in LeavesOf(pages) : \E i \in 1 .. Len(LeafChain) : LeafChain[i] = p
    BY <1>4 DEF Listing
  <2>2. DOMAIN LeafChain = 1 .. Len(LeafChain)
    BY <2>1, LenProperties
  <2>3. \A i \in 1 .. Len(LeafChain) : LeafChain[i] \in LeavesOf(pages)
    BY <2>1, ElementOfSeq
  <2>4. LeavesOf(pages) = LeafPages
    BY DEF LeavesOf, LeafPages
  <2> QED BY <2>1, <2>2, <2>3, <2>4 DEF Range
<1>11. H \in 0 .. MaxPage
  BY <1>2
<1> HIDE DEF H
<1> QED BY <1>3, <1>8, <1>9, <1>10, <1>11 DEF LeavesAreLinked

(* After every call child, parent and sibling pointers agree.              *)
THEOREM PointersAgree == Spec => []TreeIsLinked
<1>1. IInv => LeavesAreLinked
  BY LinkedFacts DEF LeavesAreLinked
<1>2. Spec => []LeavesAreLinked
  BY <1>1, TreeIsSound, PTL
<1> QED BY <1>2, ParentsAreRight, PTL DEF TreeIsLinked

-----------------------------------------------------------------------------
(* The tree beside the row heap *)

(* A tree rests on its own pages alone. *)
LEMMA TreeUndisturbed ==
  ASSUME NEW pg, NEW root, NEW lo, NEW hi, NEW ht, Tree(pg, root, NULL, NULL, lo, hi, ht),
         NEW pg2 \in [PageIds -> Node],
         LeavesOf(pg2) = LeavesOf(pg), InnersOf(pg2) = InnersOf(pg),
         \A p \in NodesOf(pg) : pg2[p] = pg[p]
  PROVE  Tree(pg2, root, NULL, NULL, lo, hi, ht)
<1>1. NodesOf(pg2) = NodesOf(pg)
  BY DEF NodesOf
<1>2. \A p \in LeavesOf(pg) \cup InnersOf(pg) : pg2[p] = pg[p]
  BY DEF NodesOf
<1>3. Typed(pg2, lo, hi, ht)
  BY DEF Tree, Typed
<1>4. Ranges(pg2, lo, hi, ht)
  BY <1>1, <1>2 DEF Tree, Ranges
<1>5. AllKidsSound(pg2, root, NULL, NULL, lo, hi, ht)
  <2> SUFFICES ASSUME NEW p \in InnersOf(pg), NEW i \in Positions(pg[p])
               PROVE  KidSound(pg2, root, NULL, NULL, lo, hi, ht, p, i)
    BY <1>2 DEF AllKidsSound
  <2>1. KidSound(pg, root, NULL, NULL, lo, hi, ht, p, i) /\ pg2[p] = pg[p]
    BY <1>2 DEF Tree, AllKidsSound
  <2> QED BY <2>1, <1>1 DEF KidSound
<1>6. Places(pg2, root, NULL)
  <2> SUFFICES ASSUME NEW c \in NodesOf(pg), c # root PROVE HasPlace(pg2, c)
    BY <1>1 DEF Places
  <2>1. HasPlace(pg, c)
    BY NullIsNoPage DEF Tree, Places, NodesOf, LeavesOf, InnersOf
  <2>2. pg[c].parent \in InnersOf(pg)
    BY <2>1 DEF HasPlace
  <2>3. pg2[c].parent = pg[c].parent /\ pg2[pg[c].parent] = pg[pg[c].parent]
    BY <2>2, <1>2 DEF NodesOf
  <2> QED BY <2>1, <2>3 DEF HasPlace
<1>7. RootSound(pg2, root, NULL, NULL, lo, hi, ht) /\ HalvesSound(pg2, root, NULL, NULL, lo, hi, ht)
  BY <1>1 DEF Tree, RootSound, HalvesSound
<1> QED BY <1>3, <1>4, <1>5, <1>6, <1>7 DEF Tree

(* Between two calls of bptree.c the heap may take a page. *)
LEMMA HeapGrows ==
  ASSUME NEW hp, TreeInv(hp), call = Idle, MayAlloc, NEW y, y = NewPage,
         pages' = [pages EXCEPT ![NewPage] = [ZeroNode EXCEPT !.type = "HEAP"]],
         header' = HeaderAfterAlloc, call' = call
  PROVE  /\ TreeInv(hp \cup {y})' /\ Dictionary' = Dictionary
         /\ y \in PageIds \ hp /\ y > 0
<1> DEFINE m == [ZeroNode EXCEPT !.type = "HEAP"]
<1>1. /\ Allocated(pages, header, hp) /\ Sized(pages) /\ Filled(pages, header.root, call)
      /\ pages \in [PageIds -> Node] /\ header \in HeaderType
  BY IdleFacts
<1>2. PICK lo, hi, ht : Tree(pages, header.root, NULL, NULL, lo, hi, ht) /\ Linked(pages, lo, hi)
  BY IdleFacts
<1>3. m \in Node /\ m.type = "HEAP" /\ m.entries = <<>>
  <2>1. NULL \in Links /\ <<>> \in Seq(LeafEntry)
    BY PageFacts
  <2> QED BY <2>1 DEF ZeroNode, Node
<1> HIDE DEF m
<1>4. pages' = [pages EXCEPT ![y] = m]
  BY DEF m
<1>5. /\ header.free # NULL \/ header.next <= MaxPage
      /\ y = PageTaken(pages, header) /\ y \in PageIds
      /\ header' \in HeaderType /\ header'.root = header.root
      /\ header'.free = (IF header.free # NULL THEN pages[header.free].next ELSE NULL)
      /\ header'.next = (IF header.free # NULL THEN header.next ELSE header.next + 1)
  BY <1>1, AllocFacts
<1>6. /\ pages' \in [PageIds -> Node] /\ pages'[y] = m
      /\ \A p \in PageIds : p # y => pages'[p] = pages[p]
  BY <1>1, <1>3, <1>4, <1>5
<1>20. pages'[y].type = "HEAP" /\ pages'[y].entries = <<>>
  BY <1>3, <1>6
<1>7. /\ Allocated(pages', header', hp \cup {y}) /\ y \in PageIds \ hp
      /\ LeavesOf(pages') = LeavesOf(pages) /\ InnersOf(pages') = InnersOf(pages)
      /\ y \notin NodesOf(pages)
  BY ONLY <1>1, <1>20, <1>5, <1>6, HeapTakes
<1>8. \A p \in NodesOf(pages) : pages'[p] = pages[p]
  BY <1>6, <1>7 DEF NodesOf, LeavesOf, InnersOf
<1>9. Tree(pages', header'.root, NULL, NULL, lo, hi, ht)
  <2>1. Tree(pages', header.root, NULL, NULL, lo, hi, ht)
    BY ONLY <1>2, <1>6, <1>7, <1>8, TreeUndisturbed
  <2> QED BY <2>1, <1>5
<1>10. Sized(pages')
  <2>1. Len(<<>>) = 0
    OBVIOUS
  <2>2. Len(pages'[y].entries) = 0 /\ 0 <= MaxInternal
    BY <2>1, <1>20, SizeFacts
  <2> SUFFICES ASSUME NEW p \in PageIds
               PROVE  Len(pages'[p].entries) <= IF pages'[p].type = "LEAF" THEN MaxLeaf ELSE MaxInternal
    BY DEF Sized
  <2>3. CASE p = y
    BY <2>2, <2>3, <1>20
  <2>4. CASE p # y
    BY <2>4, <1>1, <1>6 DEF Sized
  <2> QED BY <2>3, <2>4
<1>11. Filled(pages', header'.root, call')
  BY <1>1, <1>5, <1>7, <1>8 DEF Filled, Exempt, NodesOf, Idle, Call
<1>12. CallIsSound(pages', call')
  BY IdleIsSound
<1>17. Linked(pages', lo, hi)
  <2>1. \A q \in LeavesOf(pages) : pages'[q].next = pages[q].next /\ pages'[q].prev = pages[q].prev
    BY <1>8 DEF NodesOf
  <2> QED BY <2>1, <1>2, <1>7, LinksKept
<1>13. IsTree(pages', header'.root, call')
  BY <1>9, <1>17, WholeTree, IdleIsSound
<1>14. TreeInv(hp \cup {y})'
  BY <1>7, <1>10, <1>11, <1>12, <1>13 DEF TreeInv, Good
<1>15. DictOf(pages') = DictOf(pages)
  BY <1>7, <1>8, DictStays DEF NodesOf
<1>16. y > 0
  BY <1>5 DEF PageIds
<1> QED BY <1>7, <1>14, <1>15, <1>16, DictionaryIsDictOf

(* What a statement that indexes a row finds, and what one that takes a    *)
(* row out of the index does.                                              *)
LEMMA MatchFacts ==
  ASSUME NEW hp, TreeInv(hp), call = Idle, NEW k \in Keys,
         Matches(pages[FindLeaf(k)], k) # {}
  PROVE  \E r \in Refs : <<k, r>> \in Dictionary
<1>1. PICK lo, hi, ht : Tree(pages, header.root, NULL, NULL, lo, hi, ht)
  BY IdleFacts
<1>2. k \in 0 .. MaxKey
  BY SizeFacts DEF Keys
<1> DEFINE x == FindLeaf(k)
<1>3. x \in LeavesOf(pages)
  BY <1>1, <1>2, FindLeafFacts
<1>4. pages[x].entries \in Seq(LeafEntry)
  BY <1>1, <1>3, LeafFacts
<1> DEFINE s == pages[x].entries
<1>5. PICK i : i \in Matches(pages[x], k)
  OBVIOUS
<1>6. i \in 1 .. Len(s) /\ s[i].key = k
  BY <1>4, <1>5, EntryFacts DEF Matches
<1>7. Pairs(pages[x]) = {<<s[j].key, s[j].row_ref>> : j \in 1 .. Len(s)} /\ Pairs(pages[x]) \subseteq Keys \X Refs
  BY <1>4, PairsByPosition
<1> HIDE DEF x, s
<1>8. <<k, s[i].row_ref>> \in Pairs(pages[x])
  BY <1>6, <1>7
<1>9. <<k, s[i].row_ref>> \in DictOf(pages) /\ s[i].row_ref \in Refs
  BY <1>3, <1>7, <1>8 DEF DictOf
<1> QED BY <1>9, DictionaryIsDictOf

=============================================================================
