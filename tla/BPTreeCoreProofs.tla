-------------------------- MODULE BPTreeCoreProofs --------------------------
(***************************************************************************)
(* Trees of pages, for every fan-out, key range and file size.  A tree is  *)
(* sound (Tree) when every node covers an interval of keys, assigned to it *)
(* by its parent's separators, and lies one level below its parent.  The   *)
(* lemmas say what each operation of bptree.c on nodes does to intervals   *)
(* and heights, that descending finds the one leaf of a key, and what      *)
(* taking a page from the allocator or giving it back does to the file.    *)
(***************************************************************************)
EXTENDS BPTree, LinkedListProofs, SequenceTheorems

-----------------------------------------------------------------------------
(* Sequences *)

(* What InsertAt returns, position by position. *)
LEMMA Insertion ==
  ASSUME NEW S, NEW s \in Seq(S), NEW e \in S, NEW i \in 1 .. Len(s) + 1
  PROVE  /\ InsertAt(s, i, e) \in Seq(S) /\ Len(InsertAt(s, i, e)) = Len(s) + 1
         /\ \A j \in 1 .. Len(s) + 1 :
              InsertAt(s, i, e)[j] = IF j < i THEN s[j] ELSE IF j = i THEN e ELSE s[j - 1]
<1> DEFINE a == SubSeq(s, 1, i - 1)
           b == SubSeq(s, i, Len(s))
<1>0. Len(s) \in Nat
  BY LenProperties
<1>1. a \in Seq(S) /\ Len(a) = i - 1 /\ \A j \in 1 .. i - 1 : a[j] = s[j]
  BY SubSeqProperties
<1>2. b \in Seq(S) /\ Len(b) = Len(s) - i + 1 /\ \A j \in 1 .. Len(s) - i + 1 : b[j] = s[i + j - 1]
  BY SubSeqProperties
<1>3. InsertAt(s, i, e) = (a \o <<e>>) \o b
  BY DEF InsertAt
<1> HIDE DEF a, b
<1> DEFINE one == <<e>>
<1>o. one \in Seq(S) /\ Len(one) = 1 /\ one[1] = e
  OBVIOUS
<1> HIDE DEF one
<1> DEFINE c == a \o one
<1>4. /\ c \in Seq(S) /\ Len(c) = i
      /\ \A j \in 1 .. i : c[j] = IF j < i THEN s[j] ELSE e
  <2>1. /\ c \in Seq(S) /\ Len(c) = Len(a) + Len(one)
        /\ \A j \in 1 .. Len(a) + Len(one) : c[j] = IF j <= Len(a) THEN a[j] ELSE one[j - Len(a)]
    BY <1>1, <1>o, ConcatProperties
  <2> HIDE DEF c
  <2>2. i \in Nat /\ \A j \in 1 .. i : j < i => a[j] = s[j]
    BY <1>0, <1>1
  <2>3. \A j \in 1 .. i : j = i => one[j - (i - 1)] = e
    BY <1>0, <1>o
  <2>4. Len(a) + Len(one) = i
    BY <1>0, <1>1, <1>o
  <2>5. \A j \in 1 .. i : c[j] = IF j < i THEN a[j] ELSE one[j - (i - 1)]
    <3> TAKE j \in 1 .. i
    <3>1. Len(a) = i - 1 /\ (j <= i - 1 <=> j < i)
      BY <1>0, <1>1
    <3> QED BY <2>1, <2>4, <3>1
  <2> QED BY <2>1, <2>2, <2>3, <2>4, <2>5
<1> HIDE DEF c
<1> DEFINE t == c \o b
<1>5. /\ t \in Seq(S) /\ Len(t) = Len(c) + Len(b)
      /\ \A j \in 1 .. Len(c) + Len(b) : t[j] = IF j <= Len(c) THEN c[j] ELSE b[j - Len(c)]
  BY <1>2, <1>4, ConcatProperties
<1>6. InsertAt(s, i, e) = t
  BY <1>3 DEF c, one
<1> HIDE DEF t
<1>7. Len(c) + Len(b) = Len(s) + 1 /\ Len(c) = i
  BY <1>0, <1>2, <1>4
<1>8. \A j \in 1 .. Len(s) + 1 : j > i => b[j - i] = s[j - 1]
  <2> TAKE j \in 1 .. Len(s) + 1
  <2> HAVE j > i
  <2>1. j - i \in 1 .. Len(s) - i + 1 /\ i + (j - i) - 1 = j - 1
    BY <1>0
  <2> QED BY <2>1, <1>2
<1>9. \A j \in 1 .. Len(s) + 1 : t[j] = IF j < i THEN s[j] ELSE IF j = i THEN e ELSE s[j - 1]
  <2> TAKE j \in 1 .. Len(s) + 1
  <2>1. i \in Nat /\ j \in Nat /\ t[j] = IF j <= i THEN c[j] ELSE b[j - i]
    BY <1>0, <1>5, <1>7
  <2>2. CASE j <= i
    <3>1. t[j] = c[j] /\ j \in 1 .. i
      BY <2>1, <2>2
    <3> QED BY <1>4, <2>1, <2>2, <3>1
  <2>3. CASE j > i
    <3>1. t[j] = b[j - i] /\ ~(j < i) /\ j # i
      BY <2>1, <2>3
    <3> QED BY <1>8, <2>3, <3>1
  <2> QED BY <2>1, <2>2, <2>3
<1> QED BY <1>5, <1>6, <1>7, <1>9

(* What RemoveAt returns, position by position. *)
LEMMA Removal ==
  ASSUME NEW S, NEW s \in Seq(S), NEW i \in 1 .. Len(s)
  PROVE  /\ RemoveAt(s, i) \in Seq(S) /\ Len(RemoveAt(s, i)) = Len(s) - 1
         /\ \A j \in 1 .. Len(s) - 1 : RemoveAt(s, i)[j] = IF j < i THEN s[j] ELSE s[j + 1]
<1> DEFINE a == SubSeq(s, 1, i - 1)
           b == SubSeq(s, i + 1, Len(s))
<1>0. Len(s) \in Nat
  BY LenProperties
<1>1. a \in Seq(S) /\ Len(a) = i - 1 /\ \A j \in 1 .. i - 1 : a[j] = s[j]
  BY SubSeqProperties
<1>2. b \in Seq(S) /\ Len(b) = Len(s) - i /\ \A j \in 1 .. Len(s) - i : b[j] = s[i + j]
  BY SubSeqProperties
<1>3. RemoveAt(s, i) = a \o b
  BY DEF RemoveAt
<1> HIDE DEF a, b
<1> DEFINE c == a \o b
<1>c. /\ c \in Seq(S) /\ Len(c) = Len(a) + Len(b)
      /\ \A j \in 1 .. Len(a) + Len(b) : c[j] = IF j <= Len(a) THEN a[j] ELSE b[j - Len(a)]
  BY <1>1, <1>2, ConcatProperties
<1> HIDE DEF c
<1>4. Len(c) = Len(s) - 1
  BY <1>1, <1>2, <1>c
<1>5. \A j \in 1 .. Len(s) - 1 : c[j] = IF j < i THEN a[j] ELSE b[j - (i - 1)]
  <2> TAKE j \in 1 .. Len(s) - 1
  <2>1. Len(a) = i - 1 /\ (j <= i - 1 <=> j < i) /\ Len(a) + Len(b) = Len(s) - 1
    BY <1>0, <1>1, <1>2
  <2> QED BY <1>c, <2>1
<1>6. \A j \in 1 .. Len(s) - 1 : j >= i => b[j - (i - 1)] = s[j + 1]
  <2> TAKE j \in 1 .. Len(s) - 1
  <2> HAVE j >= i
  <2>1. j - (i - 1) \in 1 .. Len(s) - i /\ i + (j - (i - 1)) = j + 1
    OBVIOUS
  <2> QED BY <2>1, <1>2
<1>7. \A j \in 1 .. Len(s) - 1 : c[j] = IF j < i THEN s[j] ELSE s[j + 1]
  BY <1>1, <1>5, <1>6
<1>8. RemoveAt(s, i) = c
  BY <1>3 DEF c
<1> QED BY <1>4, <1>7, <1>8, <1>c

(* What SubSeq returns, position by position; the part may be empty. *)
LEMMA Part ==
  ASSUME NEW S, NEW s \in Seq(S), NEW m \in 1 .. Len(s) + 1, NEW n \in m - 1 .. Len(s)
  PROVE  /\ SubSeq(s, m, n) \in Seq(S) /\ Len(SubSeq(s, m, n)) = n - m + 1
         /\ \A j \in 1 .. n - m + 1 : SubSeq(s, m, n)[j] = s[m + j - 1]
BY SubSeqProperties

-----------------------------------------------------------------------------
(* Nodes *)

(* Keys ascend strictly. *)
Ascending(entries) ==
  \A i, j \in 1 .. Len(entries) : i < j => entries[i].key < entries[j].key

(* The children of an internal node by position, and the interval of keys  *)
(* the separators assign to each, if the node covers [lo, hi).             *)
Positions(node) == 1 .. Len(node.entries) + 1
Kid(node, i) == IF i = 1 THEN node.left ELSE node.entries[i - 1].right_child
EntryLow(node, i, lo) == IF i = 1 THEN lo ELSE node.entries[i - 1].key
EntryHigh(node, i, hi) == IF i > Len(node.entries) THEN hi ELSE node.entries[i].key

(* The entries of a node, whichever kind it is. *)
Entry == [key : Keys, row_ref : Refs] \cup [key : Keys, right_child : PageIds]

(* Entries are numbered from 1, and their keys are keys. *)
LEMMA EntryFacts ==
  /\ \A s \in Seq(LeafEntry) :
       /\ Len(s) \in Nat /\ DOMAIN s = 1 .. Len(s)
       /\ \A i \in 1 .. Len(s) : s[i] \in LeafEntry /\ s[i].key \in Keys /\ s[i].key \in Int
  /\ \A s \in Seq(InternalEntry) :
       /\ Len(s) \in Nat /\ DOMAIN s = 1 .. Len(s)
       /\ \A i \in 1 .. Len(s) : /\ s[i] \in InternalEntry /\ s[i].key \in Keys /\ s[i].key \in Int
                                /\ s[i].right_child \in PageIds
<1>1. \A e \in LeafEntry : e.key \in Keys /\ e.key \in Int
  BY TreeAssumption DEF LeafEntry, Keys
<1>2. \A e \in InternalEntry : e.key \in Keys /\ e.key \in Int /\ e.right_child \in PageIds
  BY TreeAssumption DEF InternalEntry, Keys
<1>3. \A s \in Seq(LeafEntry) :
        Len(s) \in Nat /\ DOMAIN s = 1 .. Len(s) /\ \A i \in 1 .. Len(s) : s[i] \in LeafEntry
  BY LenProperties, ElementOfSeq
<1>4. \A s \in Seq(InternalEntry) :
        Len(s) \in Nat /\ DOMAIN s = 1 .. Len(s) /\ \A i \in 1 .. Len(s) : s[i] \in InternalEntry
  BY LenProperties, ElementOfSeq
<1> QED BY <1>1, <1>2, <1>3, <1>4

(* Kids lists the children in the order of Kid. *)
LEMMA KidsByPosition ==
  ASSUME NEW node, node.entries \in Seq(InternalEntry)
  PROVE  /\ DOMAIN Kids(node) = Positions(node) /\ Len(Kids(node)) = Len(node.entries) + 1
         /\ \A i \in Positions(node) : Kids(node)[i] = Kid(node, i)
<1> DEFINE s == node.entries
           rest == [i \in DOMAIN s |-> s[i].right_child]
<1>1. DOMAIN s = 1 .. Len(s) /\ Len(s) \in Nat
  BY EntryFacts
<1>2. \A i \in DOMAIN s : s[i].right_child \in PageIds
  BY EntryFacts
<1>3. rest \in Seq(PageIds) /\ Len(rest) = Len(s)
  BY <1>1, <1>2
<1>4. \A i \in 1 .. Len(s) : rest[i] = s[i].right_child
  BY <1>1
<1>5. Kids(node) = <<node.left>> \o rest
  BY DEF Kids
<1> HIDE DEF rest
<1> DEFINE P == {node.left} \cup PageIds
           one == <<node.left>>
<1>6. rest \in Seq(P) /\ one \in Seq(P) /\ Len(one) = 1 /\ one[1] = node.left
  BY <1>3
<1> HIDE DEF P, one
<1> DEFINE c == one \o rest
<1>7. /\ c \in Seq(P) /\ Len(c) = Len(one) + Len(rest)
      /\ \A i \in 1 .. Len(one) + Len(rest) : c[i] = IF i <= Len(one) THEN one[i] ELSE rest[i - Len(one)]
  BY <1>6, ConcatProperties
<1>8. Kids(node) = c
  BY <1>5 DEF one
<1> HIDE DEF c
<1>9. DOMAIN c = 1 .. Len(s) + 1 /\ Len(c) = Len(s) + 1
  BY <1>1, <1>3, <1>6, <1>7, LenProperties
<1>10. \A i \in 1 .. Len(s) + 1 : c[i] = IF i = 1 THEN node.left ELSE rest[i - 1]
  BY <1>1, <1>3, <1>6, <1>7
<1>11. \A i \in 1 .. Len(s) + 1 : i # 1 => rest[i - 1] = s[i - 1].right_child
  BY <1>1, <1>4
<1> QED BY <1>1, <1>8, <1>9, <1>10, <1>11 DEF Positions, Kid

(* A set of numbers that holds every number below one of its own.          *)
LEMMA Rest ==
  ASSUME NEW n \in Nat, NEW S \in SUBSET (1 .. n), S # 1 .. n
  PROVE  (1 .. n) \ S \in SUBSET Nat /\ (1 .. n) \ S # {}
<1>1. (1 .. n) \ S # {}
  OBVIOUS
<1> QED BY <1>1

(* A set of positions that contains with each all before it is determined  *)
(* by its size.                                                            *)
LEMMA InitialPart ==
  ASSUME NEW n \in Nat, NEW S \in SUBSET (1 .. n),
         \A i \in S : \A j \in 1 .. n : j < i => j \in S
  PROVE  Cardinality(S) \in 0 .. n /\ S = 1 .. Cardinality(S)
<1>1. CASE S = 1 .. n
  <2>1. Cardinality(1 .. n) = n
    BY FS_Interval
  <2> QED BY <1>1, <2>1
<1>2. CASE S # 1 .. n
  <2> DEFINE T == (1 .. n) \ S
  <2>1. T \in SUBSET Nat /\ T # {}
    BY <1>2, Rest
  <2>2. PICK m \in T : \A i \in T : m <= i
    <3> HIDE DEF T
    <3> QED BY <2>1, LeastElement
  <2>3. m \in 1 .. n /\ m \notin S
    BY <2>2
  <2>4. \A i \in 1 .. n : i < m => i \in S
    BY <2>2
  <2>5. \A i \in S : i < m
    BY <2>3
  <2>6. S = 1 .. m - 1
    <3>1. \A i \in S : i \in 1 .. m - 1
      BY <2>3, <2>5
    <3>2. \A i \in 1 .. m - 1 : i \in S
      BY <2>3, <2>4
    <3> HIDE DEF T
    <3> QED BY <3>1, <3>2
  <2>7. Cardinality(1 .. m - 1) = m - 1
    BY <2>3, FS_Interval
  <2> QED BY <2>3, <2>6, <2>7
<1> QED BY <1>1, <1>2

(* The binary search of a leaf. *)
LEMMA LeafFindFacts ==
  ASSUME NEW node, node.entries \in Seq(LeafEntry), Ascending(node.entries), NEW k \in Int
  PROVE  /\ LeafFind(node, k) \in 0 .. Len(node.entries)
         /\ \A i \in 1 .. Len(node.entries) : node.entries[i].key < k <=> i <= LeafFind(node, k)
<1> DEFINE s == node.entries
           S == {i \in DOMAIN s : s[i].key < k}
<1>1. DOMAIN s = 1 .. Len(s) /\ Len(s) \in Nat
  BY EntryFacts
<1>2. \A i \in 1 .. Len(s) : s[i].key \in Int
  BY EntryFacts
<1>3. S \in SUBSET (1 .. Len(s))
  BY <1>1
<1>4. \A i \in S : \A j \in 1 .. Len(s) : j < i => j \in S
  <2> TAKE i \in S
  <2> TAKE j \in 1 .. Len(s)
  <2> HAVE j < i
  <2>1. s[j].key < s[i].key /\ s[i].key < k
    BY <1>1 DEF Ascending
  <2> QED BY <1>1, <1>2, <2>1
<1>5. LeafFind(node, k) = Cardinality(S)
  BY DEF LeafFind
<1>6. \A i \in 1 .. Len(s) : s[i].key < k <=> i \in S
  BY <1>1
<1> HIDE DEF s, S
<1>7. Cardinality(S) \in 0 .. Len(s) /\ S = 1 .. Cardinality(S)
  BY <1>1, <1>3, <1>4, InitialPart
<1>8. \A i \in 1 .. Len(s) : s[i].key < k <=> i <= Cardinality(S)
  BY <1>1, <1>6, <1>7
<1> QED BY <1>5, <1>7, <1>8 DEF s

(* The binary search of an internal node. *)
LEMMA InternalFindFacts ==
  ASSUME NEW node, node.entries \in Seq(InternalEntry), Ascending(node.entries), NEW k \in Int
  PROVE  /\ InternalFind(node, k) \in 0 .. Len(node.entries)
         /\ \A i \in 1 .. Len(node.entries) :
              node.entries[i].key <= k <=> i <= InternalFind(node, k)
<1> DEFINE s == node.entries
           S == {i \in DOMAIN s : s[i].key <= k}
<1>1. DOMAIN s = 1 .. Len(s) /\ Len(s) \in Nat
  BY EntryFacts
<1>2. \A i \in 1 .. Len(s) : s[i].key \in Int
  BY EntryFacts
<1>3. S \in SUBSET (1 .. Len(s))
  BY <1>1
<1>4. \A i \in S : \A j \in 1 .. Len(s) : j < i => j \in S
  <2> TAKE i \in S
  <2> TAKE j \in 1 .. Len(s)
  <2> HAVE j < i
  <2>1. s[j].key < s[i].key /\ s[i].key <= k
    BY <1>1 DEF Ascending
  <2> QED BY <1>1, <1>2, <2>1
<1>5. InternalFind(node, k) = Cardinality(S)
  BY DEF InternalFind
<1>6. \A i \in 1 .. Len(s) : s[i].key <= k <=> i \in S
  BY <1>1
<1> HIDE DEF s, S
<1>7. Cardinality(S) \in 0 .. Len(s) /\ S = 1 .. Cardinality(S)
  BY <1>1, <1>3, <1>4, InitialPart
<1>8. \A i \in 1 .. Len(s) : s[i].key <= k <=> i <= Cardinality(S)
  BY <1>1, <1>6, <1>7
<1> QED BY <1>5, <1>7, <1>8 DEF s

(* A key goes to the one child whose interval contains it.                 *)
LEMMA RouteInNode ==
  ASSUME NEW node, node.entries \in Seq(InternalEntry), Ascending(node.entries),
         NEW k \in Int, NEW lo \in Int, NEW hi \in Int, lo <= k, k < hi
  PROVE  LET m == InternalFind(node, k) + 1
         IN  /\ m \in Positions(node) /\ ChildFor(node, k) = Kid(node, m)
             /\ EntryLow(node, m, lo) <= k /\ k < EntryHigh(node, m, hi)
             /\ \A i \in Positions(node) :
                  EntryLow(node, i, lo) <= k /\ k < EntryHigh(node, i, hi) => i = m
<1> DEFINE s == node.entries
           n == InternalFind(node, k)
<1>1. n \in 0 .. Len(s) /\ \A i \in 1 .. Len(s) : s[i].key <= k <=> i <= n
  BY InternalFindFacts
<1>2. Len(s) \in Nat /\ \A i \in 1 .. Len(s) : s[i].key \in Int
  BY EntryFacts
<1>3. ChildFor(node, k) = Kids(node)[n + 1]
  BY DEF ChildFor
<1> HIDE DEF n
<1>4. n + 1 \in Positions(node)
  BY <1>1, <1>2 DEF Positions
<1>5. Kids(node)[n + 1] = Kid(node, n + 1)
  BY <1>4, KidsByPosition
<1>6. EntryLow(node, n + 1, lo) <= k
  <2>1. CASE n = 0
    BY <2>1 DEF EntryLow
  <2>2. CASE n # 0
    <3>1. n \in 1 .. Len(s) /\ s[n].key <= k
      BY <1>1, <2>2
    <3> QED BY <3>1, <2>2, <1>1 DEF EntryLow
  <2> QED BY <2>1, <2>2
<1>7. k < EntryHigh(node, n + 1, hi)
  <2>1. CASE n = Len(s)
    BY <2>1, <1>2 DEF EntryHigh
  <2>2. CASE n # Len(s)
    <3>1. n + 1 \in 1 .. Len(s) /\ ~(s[n + 1].key <= k)
      BY <1>1, <2>2
    <3> QED BY <3>1, <1>2 DEF EntryHigh
  <2> QED BY <2>1, <2>2
<1>8. ASSUME NEW i \in Positions(node), EntryLow(node, i, lo) <= k, k < EntryHigh(node, i, hi)
      PROVE  i = n + 1
  <2>1. i \in 1 .. Len(s) + 1
    BY DEF Positions
  <2>2. i <= n + 1
    <3> SUFFICES ASSUME i > n + 1 PROVE FALSE
      BY <2>1, <1>1
    <3>1. i - 1 \in 1 .. Len(s) /\ i # 1 /\ ~(i - 1 <= n)
      BY <2>1, <1>1
    <3>2. s[i - 1].key <= k
      BY <3>1, <1>8 DEF EntryLow
    <3> QED BY <3>1, <3>2, <1>1
  <2>3. i >= n + 1
    <3> SUFFICES ASSUME i <= n PROVE FALSE
      BY <2>1, <1>1
    <3>1. i \in 1 .. Len(s) /\ s[i].key <= k
      BY <2>1, <1>1
    <3>2. k < s[i].key
      BY <3>1, <1>2, <1>8 DEF EntryHigh
    <3> QED BY <3>1, <3>2, <1>2
  <2> QED BY <2>1, <2>2, <2>3, <1>1
<1> QED BY <1>3, <1>4, <1>5, <1>6, <1>7, <1>8 DEF n

(* An entry put where its key belongs leaves the keys ascending. *)
LEMMA InsertKeepsOrder ==
  ASSUME NEW S, NEW s \in Seq(S), NEW e \in S, NEW m \in 1 .. Len(s) + 1,
         \A x \in S : x.key \in Int, Ascending(s),
         \A i \in 1 .. Len(s) : IF i < m THEN s[i].key < e.key ELSE e.key < s[i].key
  PROVE  Ascending(InsertAt(s, m, e))
<1> DEFINE t == InsertAt(s, m, e)
<1>1. Len(s) \in Nat /\ \A i \in 1 .. Len(s) : s[i].key \in Int
  BY LenProperties, ElementOfSeq
<1>2. /\ Len(t) = Len(s) + 1
      /\ \A j \in 1 .. Len(s) + 1 : t[j] = IF j < m THEN s[j] ELSE IF j = m THEN e ELSE s[j - 1]
  BY Insertion
<1> HIDE DEF t
<1> SUFFICES ASSUME NEW i \in 1 .. Len(s) + 1, NEW j \in 1 .. Len(s) + 1, i < j
             PROVE  t[i].key < t[j].key
  BY <1>2 DEF Ascending, t
<1>3. e.key \in Int
  OBVIOUS
<1>4. i \in Int /\ j \in Int /\ m \in Int
  BY <1>1
<1>5. /\ i < m => i \in 1 .. Len(s) /\ t[i] = s[i]
      /\ i = m => t[i] = e
      /\ i > m => i - 1 \in 1 .. Len(s) /\ t[i] = s[i - 1]
  BY <1>1, <1>2, <1>4
<1>6. /\ j < m => j \in 1 .. Len(s) /\ t[j] = s[j]
      /\ j = m => t[j] = e
      /\ j > m => j - 1 \in 1 .. Len(s) /\ t[j] = s[j - 1]
  BY <1>1, <1>2, <1>4
<1>7. CASE j < m
  BY <1>1, <1>4, <1>5, <1>6, <1>7 DEF Ascending
<1>8. CASE j = m
  BY <1>1, <1>4, <1>5, <1>6, <1>8
<1>9. CASE j > m
  <2>1. CASE i < m
    <3>1. s[i].key < e.key
      BY <2>1, <1>5
    <3>2. e.key < s[j - 1].key \/ s[j - 1].key = e.key
      BY <1>4, <1>6, <1>9
    <3>3. s[i].key \in Int /\ s[j - 1].key \in Int
      BY <1>1, <1>5, <1>6, <2>1, <1>9
    <3> QED BY SMTT(30), <3>1, <3>2, <3>3, <1>3, <1>5, <1>6, <1>9, <2>1
  <2>2. CASE i = m
    <3>1. e.key < s[j - 1].key
      BY <1>4, <1>6, <1>9, <2>2
    <3> QED BY <3>1, <1>5, <1>6, <1>9, <2>2
  <2>3. CASE i > m
    <3>1. i - 1 < j - 1
      BY <1>4
    <3>2. s[i - 1].key < s[j - 1].key
      BY <3>1, <1>5, <1>6, <1>9, <2>3 DEF Ascending
    <3> QED BY <3>2, <1>5, <1>6, <1>9, <2>3
  <2> QED BY <2>1, <2>2, <2>3, <1>4
<1> QED BY <1>4, <1>7, <1>8, <1>9

(* Taking an entry out leaves the keys ascending. *)
LEMMA RemovalKeepsOrder ==
  ASSUME NEW S, NEW s \in Seq(S), NEW m \in 1 .. Len(s), Ascending(s)
  PROVE  Ascending(RemoveAt(s, m))
<1> DEFINE t == RemoveAt(s, m)
<1>1. Len(s) \in Nat
  BY LenProperties
<1>2. /\ Len(t) = Len(s) - 1
      /\ \A j \in 1 .. Len(s) - 1 : t[j] = IF j < m THEN s[j] ELSE s[j + 1]
  BY Removal
<1> HIDE DEF t
<1> SUFFICES ASSUME NEW i \in 1 .. Len(s) - 1, NEW j \in 1 .. Len(s) - 1, i < j
             PROVE  t[i].key < t[j].key
  BY <1>2 DEF Ascending, t
<1> DEFINE a == IF i < m THEN i ELSE i + 1
           b == IF j < m THEN j ELSE j + 1
<1>3. a \in 1 .. Len(s) /\ b \in 1 .. Len(s) /\ a < b
  BY <1>1
<1>4. t[i] = s[a] /\ t[j] = s[b]
  BY <1>2
<1> HIDE DEF a, b
<1> QED BY <1>3, <1>4 DEF Ascending

(* Keys ascend in every part of a node. *)
LEMMA PartKeepsOrder ==
  ASSUME NEW S, NEW s \in Seq(S), NEW m \in 1 .. Len(s) + 1, NEW n \in m - 1 .. Len(s), Ascending(s)
  PROVE  Ascending(SubSeq(s, m, n))
<1> DEFINE t == SubSeq(s, m, n)
<1>1. Len(s) \in Nat
  BY LenProperties
<1>2. Len(t) = n - m + 1 /\ \A j \in 1 .. n - m + 1 : t[j] = s[m + j - 1]
  BY Part
<1> HIDE DEF t
<1> SUFFICES ASSUME NEW i \in 1 .. n - m + 1, NEW j \in 1 .. n - m + 1, i < j
             PROVE  t[i].key < t[j].key
  BY <1>2 DEF Ascending, t
<1>3. m + i - 1 \in 1 .. Len(s) /\ m + j - 1 \in 1 .. Len(s) /\ m + i - 1 < m + j - 1
  BY <1>1
<1> QED BY <1>2, <1>3 DEF Ascending

(* A new separator splits one child's interval and moves the children      *)
(* behind it by one position.                                              *)
ChildInserted(node, new, e, m) ==
  /\ m \in Positions(node)
  /\ new.entries \in Seq(InternalEntry) /\ Ascending(new.entries)
  /\ Len(new.entries) = Len(node.entries) + 1
  /\ \A i \in 1 .. Len(new.entries) :
       new.entries[i] = IF i < m THEN node.entries[i]
                        ELSE IF i = m THEN e ELSE node.entries[i - 1]
  /\ \A i \in Positions(new) :
       Kid(new, i) = IF i <= m THEN Kid(node, i)
                     ELSE IF i = m + 1 THEN e.right_child ELSE Kid(node, i - 1)
  /\ \A i \in Positions(new) : \A l :
       EntryLow(new, i, l) = IF i <= m THEN EntryLow(node, i, l)
                             ELSE IF i = m + 1 THEN e.key ELSE EntryLow(node, i - 1, l)
  /\ \A i \in Positions(new) : \A h :
       EntryHigh(new, i, h) = IF i < m THEN EntryHigh(node, i, h)
                              ELSE IF i = m THEN e.key ELSE EntryHigh(node, i - 1, h)

(* insert_into_parent puts the separator and the child behind it where the *)
(* key belongs.                                                            *)
LEMMA InsertChild ==
  ASSUME NEW node, node.entries \in Seq(InternalEntry), Ascending(node.entries),
         NEW e \in InternalEntry,
         \A i \in 1 .. Len(node.entries) : node.entries[i].key # e.key,
         NEW new, new.left = node.left,
         new.entries = InsertAt(node.entries, InternalFind(node, e.key) + 1, e)
  PROVE  ChildInserted(node, new, e, InternalFind(node, e.key) + 1)
<1> DEFINE s == node.entries
           m == InternalFind(node, e.key) + 1
           t == InsertAt(s, m, e)
<1>1. Len(s) \in Nat /\ \A i \in 1 .. Len(s) : s[i].key \in Int
  BY EntryFacts
<1>2. e.key \in Int
  BY DEF InternalEntry, Keys
<1>3. /\ InternalFind(node, e.key) \in 0 .. Len(s)
      /\ \A i \in 1 .. Len(s) : s[i].key <= e.key <=> i <= InternalFind(node, e.key)
  BY <1>2, InternalFindFacts
<1>4. m \in 1 .. Len(s) + 1 /\ \A i \in 1 .. Len(s) : IF i < m THEN s[i].key < e.key ELSE e.key < s[i].key
  BY <1>1, <1>2, <1>3
<1>5. new.entries = t /\ new.left = node.left
  OBVIOUS
<1> HIDE DEF m
<1>6. /\ t \in Seq(InternalEntry) /\ Len(t) = Len(s) + 1
      /\ \A j \in 1 .. Len(s) + 1 : t[j] = IF j < m THEN s[j] ELSE IF j = m THEN e ELSE s[j - 1]
  <2>1. m \in 1 .. Len(s) + 1 /\ s \in Seq(InternalEntry) /\ e \in InternalEntry
    BY <1>4
  <2> HIDE DEF s
  <2> QED BY <2>1, Insertion
<1>7. \A x \in InternalEntry : x.key \in Int
  BY DEF InternalEntry, Keys
<1>8. Ascending(t)
  BY <1>4, <1>7, InsertKeepsOrder
<1> HIDE DEF t
<1>9. m \in Int /\ Positions(new) = 1 .. Len(s) + 2 /\ m \in Positions(node)
  BY <1>1, <1>4, <1>5, <1>6 DEF Positions
<1>10. ASSUME NEW i \in Positions(new), i # 1
       PROVE  /\ t[i - 1] = IF i <= m THEN s[i - 1] ELSE IF i = m + 1 THEN e ELSE s[i - 2]
              /\ i > m + 1 => i - 1 # 1
  <2>1. i - 1 \in 1 .. Len(s) + 1 /\ i \in Int
    BY <1>1, <1>9, <1>10
  <2>2. t[i - 1] = IF i - 1 < m THEN s[i - 1] ELSE IF i - 1 = m THEN e ELSE s[(i - 1) - 1]
    BY <2>1, <1>6
  <2>3. (i - 1 < m <=> i <= m) /\ (i - 1 = m <=> i = m + 1) /\ (i - 1) - 1 = i - 2
    BY <2>1, <1>9
  <2> QED BY <2>1, <2>2, <2>3, <1>1, <1>4
<1>11. \A i \in Positions(new) : i = 1 => i <= m /\ i # m + 1
  BY <1>1, <1>4
<1>12. \A i \in Positions(new) : i # 1 =>
         /\ Kid(new, i) = t[i - 1].right_child
         /\ \A lo : EntryLow(new, i, lo) = t[i - 1].key
  BY <1>5 DEF Kid, EntryLow
<1>13. \A i : i # 1 => /\ Kid(node, i) = s[i - 1].right_child
                      /\ \A lo : EntryLow(node, i, lo) = s[i - 1].key
  BY DEF Kid, EntryLow
<1>15. ASSUME NEW i \in Positions(new)
       PROVE  /\ Kid(new, i) = IF i <= m THEN Kid(node, i)
                               ELSE IF i = m + 1 THEN e.right_child ELSE Kid(node, i - 1)
              /\ \A lo : EntryLow(new, i, lo) = IF i <= m THEN EntryLow(node, i, lo)
                                                 ELSE IF i = m + 1 THEN e.key ELSE EntryLow(node, i - 1, lo)
  <2>1. CASE i = 1
    BY <2>1, <1>5, <1>11 DEF Kid, EntryLow
  <2>2. CASE i # 1
    <3>1. i \in Int /\ (i - 1) - 1 = i - 2
      BY <1>1, <1>9
    <3>2. CASE i <= m
      BY <2>2, <3>2, <1>10, <1>12, <1>13
    <3>3. CASE i = m + 1
      <4>1. ~(i <= m)
        BY <3>3, <1>9
      <4> QED BY <2>2, <3>3, <4>1, <1>10, <1>12
    <3>4. CASE i > m + 1
      <4>1. ~(i <= m) /\ i # m + 1 /\ i - 1 # 1
        BY <2>2, <3>1, <3>4, <1>9, <1>10
      <4>2. t[i - 1] = s[i - 2]
        BY <2>2, <4>1, <1>10
      <4>3. /\ Kid(node, i - 1) = s[i - 2].right_child
            /\ \A lo : EntryLow(node, i - 1, lo) = s[i - 2].key
        BY <3>1, <4>1, <1>13
      <4> HIDE DEF s
      <4> QED BY <2>2, <4>1, <4>2, <4>3, <1>12
    <3> QED BY <3>1, <3>2, <3>3, <3>4, <1>9
  <2> QED BY <2>1, <2>2
<1>14. ASSUME NEW i \in Positions(new), NEW hi
       PROVE  EntryHigh(new, i, hi) = IF i < m THEN EntryHigh(node, i, hi)
                                      ELSE IF i = m THEN e.key ELSE EntryHigh(node, i - 1, hi)
  <2>1. i \in 1 .. Len(s) + 2 /\ i \in Int
    BY <1>1, <1>9
  <2>2. CASE i = Len(s) + 2
    <3>1. i > Len(t) /\ ~(i < m) /\ i # m /\ i - 1 > Len(s)
      BY <2>1, <2>2, <1>1, <1>4, <1>6
    <3> QED BY <3>1, <1>5 DEF EntryHigh
  <2>3. CASE i # Len(s) + 2
    <3>1. i \in 1 .. Len(s) + 1 /\ ~(i > Len(t))
      BY <2>1, <2>3, <1>1, <1>6
    <3>2. EntryHigh(new, i, hi) = t[i].key
      BY <3>1, <1>5 DEF EntryHigh
    <3>3. CASE i < m
      <4>1. t[i] = s[i] /\ ~(i > Len(s))
        BY <3>1, <3>3, <1>1, <1>4, <1>6
      <4> QED BY <3>2, <3>3, <4>1 DEF EntryHigh
    <3>4. CASE i = m
      BY <3>1, <3>2, <3>4, <1>6
    <3>5. CASE i > m
      <4>1. t[i] = s[i - 1] /\ ~(i - 1 > Len(s)) /\ ~(i < m) /\ i # m
        BY <3>1, <3>5, <1>1, <1>4, <1>6
      <4> QED BY <3>2, <4>1 DEF EntryHigh
    <3> QED BY <2>1, <1>9, <3>3, <3>4, <3>5
  <2> QED BY <2>2, <2>3
<1>16. \A i \in 1 .. Len(t) : t[i] = IF i < m THEN s[i] ELSE IF i = m THEN e ELSE s[i - 1]
  BY <1>6
<1>17. ChildInserted(node, new, e, m)
  BY <1>5, <1>6, <1>8, <1>9, <1>14, <1>15, <1>16 DEF ChildInserted
<1> QED BY <1>17 DEF m

(* A separator taken out takes the child on its right with it, whose       *)
(* interval falls to the child on its left.                                *)
ChildRemoved(node, new, m) ==
  /\ new.entries \in Seq(InternalEntry) /\ Ascending(new.entries)
  /\ Len(new.entries) = Len(node.entries) - 1
  /\ \A i \in 1 .. Len(new.entries) :
       new.entries[i] = IF i < m THEN node.entries[i] ELSE node.entries[i + 1]
  /\ \A i \in Positions(new) :
       Kid(new, i) = IF i <= m THEN Kid(node, i) ELSE Kid(node, i + 1)
  /\ \A i \in Positions(new) : \A l :
       EntryLow(new, i, l) = IF i <= m THEN EntryLow(node, i, l) ELSE EntryLow(node, i + 1, l)
  /\ \A i \in Positions(new) : \A h :
       EntryHigh(new, i, h) = IF i < m THEN EntryHigh(node, i, h) ELSE EntryHigh(node, i + 1, h)

(* delete_entry_from_internal takes out a separator and the child behind   *)
(* it.                                                                     *)
LEMMA RemoveChild ==
  ASSUME NEW node, node.entries \in Seq(InternalEntry), Ascending(node.entries),
         NEW m \in 1 .. Len(node.entries),
         NEW new, new.left = node.left, new.entries = RemoveAt(node.entries, m)
  PROVE  ChildRemoved(node, new, m)
<1> DEFINE s == node.entries
           t == RemoveAt(s, m)
<1>1. Len(s) \in Nat /\ m \in Int
  BY EntryFacts
<1>2. new.entries = t /\ new.left = node.left
  OBVIOUS
<1>3. /\ t \in Seq(InternalEntry) /\ Len(t) = Len(s) - 1
      /\ \A j \in 1 .. Len(s) - 1 : t[j] = IF j < m THEN s[j] ELSE s[j + 1]
  BY Removal
<1>4. Ascending(t)
  BY RemovalKeepsOrder
<1> HIDE DEF t
<1>5. Positions(new) = 1 .. Len(s)
  BY <1>1, <1>2, <1>3 DEF Positions
<1>6. ASSUME NEW i \in Positions(new), i # 1
      PROVE  t[i - 1] = IF i <= m THEN s[i - 1] ELSE s[i]
  <2>1. i - 1 \in 1 .. Len(s) - 1 /\ i \in Int
    BY <1>1, <1>5, <1>6
  <2>2. (i - 1 < m <=> i <= m) /\ (i - 1) + 1 = i
    BY <2>1, <1>1
  <2> QED BY <2>1, <2>2, <1>3
<1>7. \A i \in Positions(new) : i \in Int /\ (i = 1 => i <= m) /\ (i + 1) - 1 = i /\ i + 1 # 1
  BY <1>1, <1>5
<1>8. ASSUME NEW i \in Positions(new)
      PROVE  Kid(new, i) = IF i <= m THEN Kid(node, i) ELSE Kid(node, i + 1)
  <2>1. CASE i = 1
    BY <2>1, <1>2, <1>7 DEF Kid
  <2>2. CASE i # 1
    BY <2>2, <1>2, <1>6, <1>7 DEF Kid
  <2> QED BY <2>1, <2>2
<1>9. ASSUME NEW i \in Positions(new), NEW lo
      PROVE  EntryLow(new, i, lo) = IF i <= m THEN EntryLow(node, i, lo)
                                    ELSE EntryLow(node, i + 1, lo)
  <2>1. CASE i = 1
    BY <2>1, <1>7 DEF EntryLow
  <2>2. CASE i # 1
    BY <2>2, <1>2, <1>6, <1>7 DEF EntryLow
  <2> QED BY <2>1, <2>2
<1>10. ASSUME NEW i \in Positions(new), NEW hi
       PROVE  EntryHigh(new, i, hi) = IF i < m THEN EntryHigh(node, i, hi)
                                      ELSE EntryHigh(node, i + 1, hi)
  <2>1. i \in 1 .. Len(s) /\ i \in Int
    BY <1>1, <1>5
  <2>2. CASE i = Len(s)
    <3>1. i > Len(t) /\ ~(i < m) /\ i + 1 > Len(s)
      BY <2>1, <2>2, <1>1, <1>3
    <3> QED BY <3>1, <1>2 DEF EntryHigh
  <2>3. CASE i # Len(s)
    <3>1. i \in 1 .. Len(s) - 1 /\ ~(i > Len(t)) /\ ~(i > Len(s)) /\ ~(i + 1 > Len(s))
      BY <2>1, <2>3, <1>1, <1>3
    <3>2. EntryHigh(new, i, hi) = t[i].key
      BY <3>1, <1>2 DEF EntryHigh
    <3> QED BY <3>1, <3>2, <1>3 DEF EntryHigh
  <2> QED BY <2>2, <2>3
<1>11. \A i \in 1 .. Len(t) : t[i] = IF i < m THEN s[i] ELSE s[i + 1]
  BY <1>3
<1> QED BY <1>2, <1>3, <1>4, <1>8, <1>9, <1>10, <1>11 DEF ChildRemoved

(* Another separator moves the border between two children.                *)
ChildRekeyed(node, new, m, k) ==
  /\ new.entries \in Seq(InternalEntry) /\ Ascending(new.entries)
  /\ Len(new.entries) = Len(node.entries)
  /\ \A i \in 1 .. Len(new.entries) :
       new.entries[i].key = IF i = m THEN k ELSE node.entries[i].key
  /\ \A i \in Positions(new) : Kid(new, i) = Kid(node, i)
  /\ \A i \in Positions(new) : \A l :
       EntryLow(new, i, l) = IF i = m + 1 THEN k ELSE EntryLow(node, i, l)
  /\ \A i \in Positions(new) : \A h :
       EntryHigh(new, i, h) = IF i = m THEN k ELSE EntryHigh(node, i, h)

(* A separator gets another key that lies between its neighbours; the      *)
(* children stay.                                                          *)
LEMMA RekeyChild ==
  ASSUME NEW node, node.entries \in Seq(InternalEntry), Ascending(node.entries),
         NEW m \in 1 .. Len(node.entries), NEW k \in Keys,
         \A i \in 1 .. Len(node.entries) :
           /\ i < m => node.entries[i].key < k
           /\ m < i => k < node.entries[i].key,
         NEW new, new.left = node.left,
         new.entries = [node.entries EXCEPT ![m] = [@ EXCEPT !.key = k]]
  PROVE  ChildRekeyed(node, new, m, k)
<1> DEFINE s == node.entries
           e == [s[m] EXCEPT !.key = k]
           t == [s EXCEPT ![m] = e]
<1>1. /\ Len(s) \in Nat /\ m \in Int /\ k \in Int
      /\ \A i \in 1 .. Len(s) : s[i] \in InternalEntry /\ s[i].key \in Int
  BY EntryFacts DEF Keys
<1>2. e \in InternalEntry /\ e.key = k /\ e.right_child = s[m].right_child
  BY <1>1 DEF InternalEntry
<1>3. new.entries = t /\ new.left = node.left
  OBVIOUS
<1> HIDE DEF e
<1>4. /\ t \in Seq(InternalEntry) /\ Len(t) = Len(s)
      /\ \A i \in 1 .. Len(s) : t[i] = IF i = m THEN e ELSE s[i]
  BY <1>2, ExceptSeq
<1> HIDE DEF t
<1>5. \A i \in 1 .. Len(s) : /\ t[i].key = IF i = m THEN k ELSE s[i].key
                             /\ t[i].right_child = s[i].right_child
  BY <1>2, <1>4
<1>6. Ascending(t)
  <2> SUFFICES ASSUME NEW i \in 1 .. Len(s), NEW j \in 1 .. Len(s), i < j
               PROVE  t[i].key < t[j].key
    BY <1>4 DEF Ascending
  <2>1. s[i].key < s[j].key
    BY DEF Ascending
  <2> QED BY <2>1, <1>1, <1>5
<1>7. Positions(new) = 1 .. Len(s) + 1 /\ Positions(node) = 1 .. Len(s) + 1
  BY <1>3, <1>4 DEF Positions
<1>8. \A i \in Positions(new) : i # 1 => i - 1 \in 1 .. Len(s) /\ (i - 1 = m <=> i = m + 1)
  BY <1>1, <1>7
<1>9. \A i \in Positions(new) : /\ i = 1 => i # m + 1
                                /\ ~(i > Len(s)) => i \in 1 .. Len(s)
                                /\ i > Len(s) => i # m
  BY <1>1, <1>7
<1>10. \A i \in Positions(new) : Kid(new, i) = Kid(node, i)
  BY <1>3, <1>5, <1>8 DEF Kid
<1>11. \A i \in Positions(new) : \A lo :
         EntryLow(new, i, lo) = IF i = m + 1 THEN k ELSE EntryLow(node, i, lo)
  BY <1>3, <1>5, <1>8, <1>9 DEF EntryLow
<1>12. \A i \in Positions(new) : \A hi :
         EntryHigh(new, i, hi) = IF i = m THEN k ELSE EntryHigh(node, i, hi)
  BY <1>3, <1>4, <1>5, <1>9 DEF EntryHigh
<1> QED BY <1>3, <1>4, <1>5, <1>6, <1>10, <1>11, <1>12 DEF ChildRekeyed

(* A node split at its entry n + 1: the left part keeps the first          *)
(* children, the right part takes the others.                              *)
AreHalves(node, n, left, right) ==
  /\ left.left = node.left /\ left.entries = SubSeq(node.entries, 1, n)
  /\ right.left = node.entries[n + 1].right_child
  /\ right.entries = SubSeq(node.entries, n + 2, Len(node.entries))

HalfEntries(node, n, left, right) ==
  /\ left.entries \in Seq(InternalEntry) /\ Ascending(left.entries)
  /\ right.entries \in Seq(InternalEntry) /\ Ascending(right.entries)
  /\ Len(left.entries) = n /\ Len(right.entries) = Len(node.entries) - n - 1
  /\ \A i \in 1 .. n : left.entries[i] = node.entries[i]
  /\ \A i \in 1 .. Len(node.entries) - n - 1 : right.entries[i] = node.entries[n + 1 + i]

HalfChildren(node, n, left, right, middle) ==
  /\ \A i \in Positions(left) :
       /\ Kid(left, i) = Kid(node, i)
       /\ \A l : EntryLow(left, i, l) = EntryLow(node, i, l)
       /\ \A h : EntryHigh(left, i, middle) = EntryHigh(node, i, h)
  /\ \A i \in Positions(right) :
       /\ n + 1 + i \in Positions(node)
       /\ Kid(right, i) = Kid(node, n + 1 + i)
       /\ \A l : EntryLow(right, i, middle) = EntryLow(node, n + 1 + i, l)
       /\ \A h : EntryHigh(right, i, h) = EntryHigh(node, n + 1 + i, h)

(* split_internal deals the children out to the two halves and keeps their *)
(* order.                                                                  *)
LEMMA SplitChildren ==
  ASSUME NEW node, node.entries \in Seq(InternalEntry), Ascending(node.entries),
         NEW n \in 1 .. Len(node.entries) - 1, NEW left, NEW right,
         AreHalves(node, n, left, right)
  PROVE  /\ HalfEntries(node, n, left, right)
         /\ Positions(left) = 1 .. n + 1
         /\ Positions(right) = 1 .. Len(node.entries) - n
         /\ HalfChildren(node, n, left, right, node.entries[n + 1].key)
<1> DEFINE all == node.entries
           middle == all[n + 1].key
           s == SubSeq(all, 1, n)
           t == SubSeq(all, n + 2, Len(all))
<1>1. Len(all) \in Nat /\ n \in Nat /\ n + 1 <= Len(all)
  BY EntryFacts
<1>2. s \in Seq(InternalEntry) /\ Len(s) = n /\ \A j \in 1 .. n : s[j] = all[j]
  BY <1>1, Part
<1>3. /\ t \in Seq(InternalEntry) /\ Len(t) = Len(all) - n - 1
      /\ \A j \in 1 .. Len(all) - n - 1 : t[j] = all[n + 1 + j]
  BY <1>1, Part
<1>4. Ascending(s) /\ Ascending(t)
  <2>1. 1 \in 1 .. Len(all) + 1 /\ n \in 1 - 1 .. Len(all)
    BY <1>1
  <2>2. n + 2 \in 1 .. Len(all) + 1 /\ Len(all) \in (n + 2) - 1 .. Len(all)
    BY <1>1
  <2>3. all \in Seq(InternalEntry) /\ Ascending(all)
    OBVIOUS
  <2> HIDE DEF all
  <2> QED BY <2>1, <2>2, <2>3, PartKeepsOrder
<1> HIDE DEF s, t
<1>5. /\ left.entries = s /\ left.left = node.left
      /\ right.entries = t /\ right.left = all[n + 1].right_child
  BY DEF AreHalves, s, t
<1>6. Positions(left) = 1 .. n + 1 /\ Positions(right) = 1 .. Len(all) - n
  BY <1>1, <1>2, <1>3, <1>5 DEF Positions
<1>7. ASSUME NEW i \in 1 .. n + 1
      PROVE  /\ Kid(left, i) = Kid(node, i)
             /\ \A lo : EntryLow(left, i, lo) = EntryLow(node, i, lo)
             /\ \A hi : EntryHigh(left, i, middle) = EntryHigh(node, i, hi)
  <2>1. i # 1 => s[i - 1] = all[i - 1]
    <3>1. i # 1 => i - 1 \in 1 .. n
      BY <1>1
    <3> QED BY <3>1, <1>2
  <2>2. i > Len(s) => i = n + 1
    BY <1>1, <1>2
  <2>3. ~(i > Len(s)) => s[i] = all[i]
    BY <1>1, <1>2
  <2>4. ~(i > Len(all))
    BY <1>1
  <2> QED BY <2>1, <2>2, <2>3, <2>4, <1>5 DEF Kid, EntryLow, EntryHigh
<1>8. ASSUME NEW i \in 1 .. Len(all) - n
      PROVE  /\ n + 1 + i \in Positions(node)
             /\ Kid(right, i) = Kid(node, n + 1 + i)
             /\ \A lo : EntryLow(right, i, middle) = EntryLow(node, n + 1 + i, lo)
             /\ \A hi : EntryHigh(right, i, hi) = EntryHigh(node, n + 1 + i, hi)
  <2>1. n + 1 + i \in Positions(node) /\ n + 1 + i # 1 /\ (n + 1 + i) - 1 = n + i /\ i \in Int
    BY <1>1 DEF Positions
  <2>2. /\ Kid(right, i) = all[n + i].right_child
        /\ \A lo : EntryLow(right, i, middle) = all[n + i].key
    <3>1. CASE i = 1
      <4>1. n + i = n + 1
        BY <3>1
      <4> QED BY <3>1, <4>1, <1>5 DEF Kid, EntryLow
    <3>2. CASE i # 1
      <4>1. i - 1 \in 1 .. Len(all) - n - 1 /\ n + 1 + (i - 1) = n + i
        BY <3>2, <1>1
      <4>2. t[i - 1] = all[n + i]
        BY <4>1, <1>3
      <4> QED BY <3>2, <4>2, <1>5 DEF Kid, EntryLow
    <3> QED BY <3>1, <3>2
  <2>3. /\ Kid(node, n + 1 + i) = all[n + i].right_child
        /\ \A lo : EntryLow(node, n + 1 + i, lo) = all[n + i].key
    BY <2>1 DEF Kid, EntryLow
  <2>4. \A hi : EntryHigh(right, i, hi) = EntryHigh(node, n + 1 + i, hi)
    <3>1. i > Len(t) <=> n + 1 + i > Len(all)
      BY <2>1, <1>1, <1>3
    <3>2. ~(i > Len(t)) => t[i] = all[n + 1 + i]
      BY <2>1, <1>1, <1>3
    <3> QED BY <3>1, <3>2, <1>5 DEF EntryHigh
  <2> QED BY <2>1, <2>2, <2>3, <2>4
<1>9. HalfEntries(node, n, left, right)
  BY <1>2, <1>3, <1>4, <1>5 DEF HalfEntries
<1>10. HalfChildren(node, n, left, right, middle)
  BY <1>6, <1>7, <1>8 DEF HalfChildren
<1> QED BY <1>6, <1>9, <1>10

-----------------------------------------------------------------------------
(* Sound trees *)

LeavesOf(pg) == {p \in PageIds : pg[p].type = "LEAF"}
InnersOf(pg) == {p \in PageIds : pg[p].type = "INTERNAL"}
NodesOf(pg) == LeavesOf(pg) \cup InnersOf(pg)

(* The keys of a node belong to the interval [l, h) it covers.  Those of   *)
(* an internal node lie inside it, so that no child is left without keys.  *)
LeafCovers(node, l, h) ==
  /\ node.entries \in Seq(LeafEntry) /\ Ascending(node.entries)
  /\ \A i \in 1 .. Len(node.entries) : l <= node.entries[i].key /\ node.entries[i].key < h
InnerCovers(node, l, h) ==
  /\ node.entries \in Seq(InternalEntry) /\ Ascending(node.entries)
  /\ \A i \in 1 .. Len(node.entries) : l < node.entries[i].key /\ node.entries[i].key < h

Ranges(pg, lo, hi, ht) ==
  \A p \in NodesOf(pg) :
    /\ lo[p] < hi[p]
    /\ pg[p].type = "LEAF" => ht[p] = 0 /\ LeafCovers(pg[p], lo[p], hi[p])
    /\ pg[p].type = "INTERNAL" => ht[p] > 0 /\ InnerCovers(pg[p], lo[p], hi[p])

(* A node a has been split and its right half b has no parent entry yet    *)
(* (both NULL when there is no such pair): for its parent, a still covers  *)
(* the two intervals.                                                      *)
End(a, b, hi, p) == IF p = a THEN hi[b] ELSE hi[p]

KidSound(pg, root, a, b, lo, hi, ht, p, i) ==
  LET c == Kid(pg[p], i)
  IN  /\ c \in NodesOf(pg) /\ c # root /\ c # b /\ pg[c].parent = p
      /\ ht[p] = ht[c] + 1
      /\ lo[c] = EntryLow(pg[p], i, lo[p])
      /\ End(a, b, hi, c) = EntryHigh(pg[p], i, hi[p])

AllKidsSound(pg, root, a, b, lo, hi, ht) ==
  \A p \in InnersOf(pg) : \A i \in Positions(pg[p]) : KidSound(pg, root, a, b, lo, hi, ht, p, i)

HasPlace(pg, c) ==
  /\ pg[c].parent \in InnersOf(pg)
  /\ \E i \in Positions(pg[pg[c].parent]) : Kid(pg[pg[c].parent], i) = c

Places(pg, root, b) == \A c \in NodesOf(pg) : c # root /\ c # b => HasPlace(pg, c)

RootSound(pg, root, a, b, lo, hi, ht) ==
  /\ root \in NodesOf(pg) /\ pg[root].parent = NULL
  /\ lo[root] = 0 /\ End(a, b, hi, root) = MaxKey + 1
  /\ \A p \in NodesOf(pg) : ht[p] <= ht[root]

HalvesSound(pg, root, a, b, lo, hi, ht) ==
  \/ a = NULL /\ b = NULL
  \/ /\ a \in NodesOf(pg) /\ b \in NodesOf(pg) /\ a # b /\ b # root
     /\ ht[a] = ht[b] /\ hi[a] = lo[b]

Typed(pg, lo, hi, ht) ==
  /\ pg \in [PageIds -> Node]
  /\ lo \in [PageIds -> Nat] /\ hi \in [PageIds -> Nat] /\ ht \in [PageIds -> Nat]

Tree(pg, root, a, b, lo, hi, ht) ==
  /\ Typed(pg, lo, hi, ht)
  /\ Ranges(pg, lo, hi, ht)
  /\ AllKidsSound(pg, root, a, b, lo, hi, ht)
  /\ Places(pg, root, b)
  /\ RootSound(pg, root, a, b, lo, hi, ht)
  /\ HalvesSound(pg, root, a, b, lo, hi, ht)

(* Two pages that are the same to the tree: the links between leaves may   *)
(* differ.                                                                 *)
SameNode(n, m) ==
  n.type = m.type /\ n.parent = m.parent /\ n.left = m.left /\ n.entries = m.entries

(* What is said of children and intervals depends on left and entries      *)
(* only.                                                                   *)
LEMMA SameNodeFacts ==
  ASSUME NEW n, NEW m, m.left = n.left, m.entries = n.entries
  PROVE  /\ Positions(m) = Positions(n)
         /\ \A i : Kid(m, i) = Kid(n, i)
         /\ \A i, l : EntryLow(m, i, l) = EntryLow(n, i, l)
         /\ \A i, h : EntryHigh(m, i, h) = EntryHigh(n, i, h)
         /\ \A l, h : (LeafCovers(m, l, h) <=> LeafCovers(n, l, h))
         /\ \A l, h : (InnerCovers(m, l, h) <=> InnerCovers(n, l, h))
BY DEF Positions, Kid, EntryLow, EntryHigh, LeafCovers, InnerCovers

(* Page number 0 is nobody's. *)
LEMMA NullIsNoPage == NULL \notin PageIds /\ PageIds \subseteq Nat
BY FileAssumption DEF NULL, PageIds

(* What a tree says of one internal node. *)
LEMMA IsSound ==
  ASSUME NEW pg, NEW root, NEW a, NEW b, NEW lo, NEW hi, NEW ht, NEW p, NEW i,
         NEW c, Kid(pg[p], i) = c, c \in NodesOf(pg), c # root, c # b, pg[c].parent = p,
         ht[p] = ht[c] + 1, lo[c] = EntryLow(pg[p], i, lo[p]),
         End(a, b, hi, c) = EntryHigh(pg[p], i, hi[p])
  PROVE  KidSound(pg, root, a, b, lo, hi, ht, p, i)
BY DEF KidSound

(* What a tree says of one child, spelled out. *)
LEMMA KidFacts ==
  ASSUME NEW pg, NEW root, NEW a, NEW b, NEW lo, NEW hi, NEW ht,
         Tree(pg, root, a, b, lo, hi, ht), NEW p \in InnersOf(pg), NEW i \in Positions(pg[p])
  PROVE  /\ pg[p].entries \in Seq(InternalEntry) /\ Ascending(pg[p].entries)
         /\ Kid(pg[p], i) \in NodesOf(pg) /\ Kid(pg[p], i) # root /\ Kid(pg[p], i) # b
         /\ pg[Kid(pg[p], i)].parent = p /\ ht[p] = ht[Kid(pg[p], i)] + 1
         /\ lo[Kid(pg[p], i)] = EntryLow(pg[p], i, lo[p])
         /\ End(a, b, hi, Kid(pg[p], i)) = EntryHigh(pg[p], i, hi[p])
<1>1. KidSound(pg, root, a, b, lo, hi, ht, p, i)
  BY DEF Tree, AllKidsSound
<1>2. InnerCovers(pg[p], lo[p], hi[p])
  BY DEF Tree, Ranges, NodesOf, InnersOf
<1> QED BY <1>1, <1>2 DEF KidSound, InnerCovers

(* The intervals of a node's children follow one another. *)
LEMMA KidsFollow ==
  ASSUME NEW node, NEW l \in Int, NEW h \in Int, InnerCovers(node, l, h), l < h,
         NEW i \in Positions(node), NEW j \in Positions(node), i < j
  PROVE  /\ EntryLow(node, i, l) \in Int /\ EntryHigh(node, i, h) \in Int
         /\ EntryLow(node, j, l) \in Int /\ EntryHigh(node, j, h) \in Int
         /\ EntryLow(node, i, l) < EntryHigh(node, i, h)
         /\ EntryHigh(node, i, h) <= EntryLow(node, j, l)
         /\ EntryLow(node, j, l) < EntryHigh(node, j, h)
<1> DEFINE s == node.entries
<1>1. /\ Len(s) \in Nat /\ \A x \in 1 .. Len(s) : s[x].key \in Int
      /\ \A x, y \in 1 .. Len(s) : x < y => s[x].key < s[y].key
      /\ \A x \in 1 .. Len(s) : l < s[x].key /\ s[x].key < h
  BY EntryFacts DEF InnerCovers, Ascending
<1> HIDE DEF s
<1>2. i \in 1 .. Len(s) /\ j - 1 \in 1 .. Len(s) /\ j \in 2 .. Len(s) + 1
  BY <1>1 DEF Positions, s
<1>3. EntryHigh(node, i, h) = s[i].key
  BY <1>1, <1>2 DEF EntryHigh, s
<1>4. EntryLow(node, j, l) = s[j - 1].key
  BY <1>1, <1>2 DEF EntryLow, s
<1>5. s[i].key <= s[j - 1].key
  <2>1. CASE i = j - 1
    BY <2>1, <1>1, <1>2
  <2>2. CASE i # j - 1
    BY <2>2, <1>1, <1>2
  <2> QED BY <2>1, <2>2
<1>6. EntryLow(node, i, l) \in Int /\ EntryLow(node, i, l) < s[i].key
  <2>1. CASE i = 1
    BY <2>1, <1>1, <1>2 DEF EntryLow
  <2>2. CASE i # 1
    <3>1. i - 1 \in 1 .. Len(s) /\ i - 1 < i
      BY <2>2, <1>1, <1>2
    <3>2. EntryLow(node, i, l) = s[i - 1].key
      BY <2>2 DEF EntryLow, s
    <3> QED BY <3>1, <3>2, <1>1, <1>2
  <2> QED BY <2>1, <2>2
<1>7. EntryHigh(node, j, h) \in Int /\ s[j - 1].key < EntryHigh(node, j, h)
  <2>1. CASE j > Len(s)
    BY <2>1, <1>1, <1>2 DEF EntryHigh, s
  <2>2. CASE ~(j > Len(s))
    <3>1. j \in 1 .. Len(s) /\ j - 1 < j
      BY <2>2, <1>1, <1>2
    <3>2. EntryHigh(node, j, h) = s[j].key
      BY <2>2 DEF EntryHigh, s
    <3> QED BY <3>1, <3>2, <1>1, <1>2
  <2> QED BY <2>1, <2>2
<1> QED BY <1>1, <1>2, <1>3, <1>4, <1>5, <1>6, <1>7

(* No page is the child of two positions. *)
LEMMA KidsDiffer ==
  ASSUME NEW pg, NEW root, NEW a, NEW b, NEW lo, NEW hi, NEW ht,
         Tree(pg, root, a, b, lo, hi, ht), NEW p \in InnersOf(pg),
         NEW i \in Positions(pg[p]), NEW j \in Positions(pg[p]), Kid(pg[p], i) = Kid(pg[p], j)
  PROVE  i = j
<1>1. /\ InnerCovers(pg[p], lo[p], hi[p]) /\ lo[p] < hi[p] /\ lo[p] \in Int /\ hi[p] \in Int
  BY DEF Tree, Ranges, NodesOf, InnersOf, Typed
<1>2. EntryLow(pg[p], i, lo[p]) = EntryLow(pg[p], j, lo[p])
  BY SMTT(30), KidFacts
<1>3. i \in Int /\ j \in Int
  BY <1>1, EntryFacts DEF Positions, InnerCovers
<1>4. ASSUME i < j PROVE FALSE
  <2>1. /\ EntryLow(pg[p], i, lo[p]) \in Int /\ EntryHigh(pg[p], i, hi[p]) \in Int
        /\ EntryLow(pg[p], j, lo[p]) \in Int
        /\ EntryLow(pg[p], i, lo[p]) < EntryHigh(pg[p], i, hi[p])
        /\ EntryHigh(pg[p], i, hi[p]) <= EntryLow(pg[p], j, lo[p])
    BY <1>1, <1>4, KidsFollow
  <2> QED BY <2>1, <1>2
<1>5. ASSUME j < i PROVE FALSE
  <2>1. /\ EntryLow(pg[p], j, lo[p]) \in Int /\ EntryHigh(pg[p], j, hi[p]) \in Int
        /\ EntryLow(pg[p], i, lo[p]) \in Int
        /\ EntryLow(pg[p], j, lo[p]) < EntryHigh(pg[p], j, hi[p])
        /\ EntryHigh(pg[p], j, hi[p]) <= EntryLow(pg[p], i, lo[p])
    BY <1>1, <1>5, KidsFollow
  <2> QED BY <2>1, <1>2
<1> QED BY <1>3, <1>4, <1>5

-----------------------------------------------------------------------------
(* What the operations do to a tree *)

(* A leaf gets other entries of its interval. *)
LEMMA LeafRewrite ==
  ASSUME NEW pg, NEW root, NEW a, NEW b, NEW lo, NEW hi, NEW ht,
         Tree(pg, root, a, b, lo, hi, ht),
         NEW x \in LeavesOf(pg), NEW pg2 \in [PageIds -> Node],
         pg2[x].type = "LEAF", pg2[x].parent = pg[x].parent, LeafCovers(pg2[x], lo[x], hi[x]),
         \A p \in PageIds : p # x => SameNode(pg[p], pg2[p])
  PROVE  Tree(pg2, root, a, b, lo, hi, ht)
<1>1. LeavesOf(pg2) = LeavesOf(pg) /\ InnersOf(pg2) = InnersOf(pg) /\ NodesOf(pg2) = NodesOf(pg)
  BY DEF LeavesOf, InnersOf, NodesOf, SameNode
<1>2. \A p \in PageIds : pg2[p].parent = pg[p].parent /\ pg2[p].type = pg[p].type
  BY DEF SameNode, LeavesOf
<1>3. \A p \in InnersOf(pg) : pg2[p].left = pg[p].left /\ pg2[p].entries = pg[p].entries
  BY DEF SameNode, LeavesOf, InnersOf
<1>4. \A p \in InnersOf(pg) :
        /\ Positions(pg2[p]) = Positions(pg[p])
        /\ \A i : Kid(pg2[p], i) = Kid(pg[p], i)
        /\ \A i, l : EntryLow(pg2[p], i, l) = EntryLow(pg[p], i, l)
        /\ \A i, h : EntryHigh(pg2[p], i, h) = EntryHigh(pg[p], i, h)
        /\ \A l, h : (InnerCovers(pg2[p], l, h) <=> InnerCovers(pg[p], l, h))
  BY <1>3, SameNodeFacts
<1>5. \A p \in LeavesOf(pg) : p # x =>
        \A l, h : (LeafCovers(pg2[p], l, h) <=> LeafCovers(pg[p], l, h))
  BY SameNodeFacts DEF SameNode, LeavesOf
<1>6. Ranges(pg2, lo, hi, ht)
  BY <1>1, <1>2, <1>4, <1>5 DEF Tree, Ranges, LeavesOf, InnersOf, NodesOf
<1>7. AllKidsSound(pg2, root, a, b, lo, hi, ht)
  <2> SUFFICES ASSUME NEW p \in InnersOf(pg), NEW i \in Positions(pg[p])
               PROVE  KidSound(pg2, root, a, b, lo, hi, ht, p, i)
    BY <1>1, <1>4 DEF AllKidsSound
  <2>1. KidSound(pg, root, a, b, lo, hi, ht, p, i)
    BY DEF Tree, AllKidsSound
  <2> DEFINE c == Kid(pg[p], i)
  <2>2. /\ c \in NodesOf(pg) /\ c # root /\ c # b /\ pg[c].parent = p /\ ht[p] = ht[c] + 1
        /\ lo[c] = EntryLow(pg[p], i, lo[p])
        /\ End(a, b, hi, c) = EntryHigh(pg[p], i, hi[p])
    BY <2>1 DEF KidSound
  <2>3. /\ Kid(pg2[p], i) = c /\ EntryLow(pg2[p], i, lo[p]) = EntryLow(pg[p], i, lo[p])
        /\ EntryHigh(pg2[p], i, hi[p]) = EntryHigh(pg[p], i, hi[p])
    BY <1>4
  <2> HIDE DEF c
  <2>4. c \in NodesOf(pg2) /\ pg2[c].parent = p
    BY <2>2, <1>1, <1>2 DEF NodesOf, LeavesOf, InnersOf
  <2> QED BY <2>2, <2>3, <2>4, IsSound
<1>8. Places(pg2, root, b)
  BY <1>1, <1>2, <1>4 DEF Tree, Places, HasPlace, NodesOf, LeavesOf, InnersOf
<1>9. RootSound(pg2, root, a, b, lo, hi, ht) /\ HalvesSound(pg2, root, a, b, lo, hi, ht)
  BY <1>1, <1>2 DEF Tree, RootSound, HalvesSound, NodesOf, LeavesOf, InnersOf
<1> QED BY <1>6, <1>7, <1>8, <1>9 DEF Tree, Typed

(* A leaf is split: the right half y is a leaf without a place. *)
LEMMA LeafSplit ==
  ASSUME NEW pg, NEW root, NEW lo, NEW hi, NEW ht, Tree(pg, root, NULL, NULL, lo, hi, ht),
         NEW x \in LeavesOf(pg), NEW y \in PageIds, y \notin NodesOf(pg),
         NEW mid \in Nat, lo[x] < mid, mid < hi[x], NEW pg2 \in [PageIds -> Node],
         pg2[x].type = "LEAF", pg2[x].parent = pg[x].parent, LeafCovers(pg2[x], lo[x], mid),
         pg2[y].type = "LEAF", LeafCovers(pg2[y], mid, hi[x]),
         \A p \in PageIds : p # x /\ p # y => SameNode(pg[p], pg2[p])
  PROVE  Tree(pg2, root, x, y, [lo EXCEPT ![y] = mid], [hi EXCEPT ![x] = mid, ![y] = hi[x]],
              [ht EXCEPT ![y] = ht[x]])
<1> DEFINE lo2 == [lo EXCEPT ![y] = mid]
           hi2 == [hi EXCEPT ![x] = mid, ![y] = hi[x]]
           ht2 == [ht EXCEPT ![y] = ht[x]]
<1>0. x \in PageIds /\ x \in NodesOf(pg) /\ x # y /\ pg[x].type = "LEAF" /\ ht[x] = 0
  BY DEF LeavesOf, NodesOf, Tree, Ranges
<1>1. /\ lo2 \in [PageIds -> Nat] /\ hi2 \in [PageIds -> Nat] /\ ht2 \in [PageIds -> Nat]
      /\ lo2[y] = mid /\ hi2[y] = hi[x] /\ ht2[y] = 0 /\ hi2[x] = mid
      /\ \A p \in PageIds : p # y => lo2[p] = lo[p] /\ ht2[p] = ht[p]
      /\ \A p \in PageIds : p # y /\ p # x => hi2[p] = hi[p]
  BY <1>0 DEF Tree, Typed
<1> HIDE DEF lo2, hi2, ht2
<1>2. /\ LeavesOf(pg2) = LeavesOf(pg) \cup {y} /\ InnersOf(pg2) = InnersOf(pg)
      /\ NodesOf(pg2) = NodesOf(pg) \cup {y} /\ y \notin InnersOf(pg) /\ x \notin InnersOf(pg)
      /\ NodesOf(pg) \subseteq PageIds /\ InnersOf(pg) \subseteq NodesOf(pg)
  BY <1>0 DEF LeavesOf, InnersOf, NodesOf, SameNode
<1>3. \A p \in PageIds : p # y => pg2[p].parent = pg[p].parent /\ pg2[p].type = pg[p].type
  BY <1>0 DEF SameNode, LeavesOf
<1>4. \A p \in InnersOf(pg) :
        /\ Positions(pg2[p]) = Positions(pg[p])
        /\ \A i : Kid(pg2[p], i) = Kid(pg[p], i)
        /\ \A i, l : EntryLow(pg2[p], i, l) = EntryLow(pg[p], i, l)
        /\ \A i, h : EntryHigh(pg2[p], i, h) = EntryHigh(pg[p], i, h)
        /\ \A l, h : (InnerCovers(pg2[p], l, h) <=> InnerCovers(pg[p], l, h))
  <2>1. \A p \in InnersOf(pg) : pg2[p].left = pg[p].left /\ pg2[p].entries = pg[p].entries
    BY <1>2 DEF SameNode, InnersOf
  <2> QED BY <2>1, SameNodeFacts
<1>5. \A p \in LeavesOf(pg) : p # x =>
        \A l, h : (LeafCovers(pg2[p], l, h) <=> LeafCovers(pg[p], l, h))
  <2>1. \A p \in LeavesOf(pg) : p # x => pg2[p].left = pg[p].left /\ pg2[p].entries = pg[p].entries
    BY <1>2 DEF SameNode, LeavesOf, NodesOf
  <2> QED BY <2>1, SameNodeFacts
<1>6. Ranges(pg2, lo2, hi2, ht2)
  <2> SUFFICES ASSUME NEW p \in NodesOf(pg2)
               PROVE  /\ lo2[p] < hi2[p]
                      /\ pg2[p].type = "LEAF" => ht2[p] = 0 /\ LeafCovers(pg2[p], lo2[p], hi2[p])
                      /\ pg2[p].type = "INTERNAL" => ht2[p] > 0 /\ InnerCovers(pg2[p], lo2[p], hi2[p])
    BY DEF Ranges
  <2>1. CASE p = x
    BY <2>1, <1>0, <1>1
  <2>2. CASE p = y
    BY <2>2, <1>0, <1>1
  <2>3. CASE p # x /\ p # y
    <3>1. p \in NodesOf(pg) /\ p \in PageIds
      BY <2>3, <1>2
    <3>2. /\ lo[p] < hi[p]
          /\ pg[p].type = "LEAF" => ht[p] = 0 /\ LeafCovers(pg[p], lo[p], hi[p])
          /\ pg[p].type = "INTERNAL" => ht[p] > 0 /\ InnerCovers(pg[p], lo[p], hi[p])
      BY <3>1 DEF Tree, Ranges
    <3>3. lo2[p] = lo[p] /\ hi2[p] = hi[p] /\ ht2[p] = ht[p]
      BY <3>1, <2>3, <1>1
    <3>4. pg[p].type = "LEAF" => p \in LeavesOf(pg)
      BY <3>1 DEF LeavesOf
    <3>5. pg[p].type = "INTERNAL" => p \in InnersOf(pg)
      BY <3>1 DEF InnersOf
    <3> QED BY <3>1, <3>2, <3>3, <3>4, <3>5, <2>3, <1>3, <1>4, <1>5
  <2> QED BY <2>1, <2>2, <2>3
<1>7. \A c \in NodesOf(pg) : End(x, y, hi2, c) = End(NULL, NULL, hi, c)
  BY <1>0, <1>1, <1>2, NullIsNoPage DEF End
<1>8. AllKidsSound(pg2, root, x, y, lo2, hi2, ht2)
  <2> SUFFICES ASSUME NEW p \in InnersOf(pg), NEW i \in Positions(pg[p])
               PROVE  KidSound(pg2, root, x, y, lo2, hi2, ht2, p, i)
    BY <1>2, <1>4 DEF AllKidsSound
  <2>1. KidSound(pg, root, NULL, NULL, lo, hi, ht, p, i)
    BY DEF Tree, AllKidsSound
  <2> DEFINE c == Kid(pg[p], i)
  <2>2. /\ c \in NodesOf(pg) /\ c # root /\ pg[c].parent = p /\ ht[p] = ht[c] + 1
        /\ lo[c] = EntryLow(pg[p], i, lo[p])
        /\ End(NULL, NULL, hi, c) = EntryHigh(pg[p], i, hi[p])
    BY <2>1 DEF KidSound
  <2>3. /\ Kid(pg2[p], i) = c /\ EntryLow(pg2[p], i, lo[p]) = EntryLow(pg[p], i, lo[p])
        /\ EntryHigh(pg2[p], i, hi[p]) = EntryHigh(pg[p], i, hi[p])
    BY <1>4
  <2> HIDE DEF c
  <2>4. p # y /\ p # x /\ c # y /\ c \in PageIds /\ p \in PageIds
    BY <1>2, <2>2
  <2>5. c \in NodesOf(pg2) /\ pg2[c].parent = p
    BY <2>2, <2>4, <1>2, <1>3
  <2>6. lo2[c] = lo[c] /\ lo2[p] = lo[p] /\ ht2[c] = ht[c] /\ ht2[p] = ht[p] /\ hi2[p] = hi[p]
    BY <2>4, <1>1
  <2>7. End(x, y, hi2, c) = End(NULL, NULL, hi, c)
    BY <2>2, <1>7
  <2> QED BY <2>2, <2>3, <2>4, <2>5, <2>6, <2>7, IsSound
<1>9. Places(pg2, root, y)
  <2> SUFFICES ASSUME NEW c \in NodesOf(pg), c # root, c # y
               PROVE  HasPlace(pg2, c)
    BY <1>2 DEF Places
  <2>1. HasPlace(pg, c) /\ pg2[c].parent = pg[c].parent
    BY <1>2, <1>3, NullIsNoPage DEF Tree, Places
  <2> QED BY <2>1, <1>2, <1>4 DEF HasPlace
<1>10. RootSound(pg2, root, x, y, lo2, hi2, ht2)
  <2>1. root \in NodesOf(pg) /\ root # y /\ root \in PageIds
    BY <1>2 DEF Tree, RootSound
  <2> QED BY <2>1, <1>0, <1>1, <1>2, <1>3, <1>7 DEF Tree, RootSound, Typed
<1>11. HalvesSound(pg2, root, x, y, lo2, hi2, ht2)
  BY <1>0, <1>1, <1>2 DEF Tree, RootSound, HalvesSound
<1> QED BY <1>1, <1>6, <1>8, <1>9, <1>10, <1>11 DEF Tree, Typed, lo2, hi2, ht2

(* The positions of the two halves of a node, and how they count in the    *)
(* whole.                                                                  *)
LEMMA Shift ==
  ASSUME NEW len \in Nat, NEW n \in Nat, n > 0, n + 1 <= len
  PROVE  /\ n + 1 \in 1 .. len
         /\ \A i \in 1 .. n : i \in 1 .. len /\ i < n + 1
         /\ \A i \in 1 .. n + 1 : i \in 1 .. len + 1
         /\ \A i \in 1 .. len - n - 1 : n + 1 + i \in 1 .. len /\ n + 1 < n + 1 + i
         /\ \A i \in 1 .. len - n : n + 1 + i \in 1 .. len + 1 /\ n + 1 + i \notin 1 .. n + 1
         /\ \A i \in 1 .. len + 1 : i \in 1 .. n + 1 \/ \E j \in 1 .. len - n : i = n + 1 + j
<1>1. ASSUME NEW i \in 1 .. len + 1, i \notin 1 .. n + 1
      PROVE  i - n - 1 \in 1 .. len - n /\ i = n + 1 + (i - n - 1)
  BY <1>1
<1> QED BY <1>1

(* The halves of an internal node cover the halves of its interval.        *)
HalvesSplit(node, n, left, right, l, h, mid) ==
  /\ mid \in Keys /\ mid \in Nat /\ l < mid /\ mid < h
  /\ InnerCovers(left, l, mid) /\ InnerCovers(right, mid, h)
  /\ \A i \in Positions(left) :
       /\ i \in Positions(node)
       /\ Kid(left, i) = Kid(node, i)
       /\ EntryLow(left, i, l) = EntryLow(node, i, l)
       /\ EntryHigh(left, i, mid) = EntryHigh(node, i, h)
  /\ \A i \in Positions(right) :
       /\ n + 1 + i \in Positions(node) /\ n + 1 + i \notin Positions(left)
       /\ Kid(right, i) = Kid(node, n + 1 + i)
       /\ EntryLow(right, i, mid) = EntryLow(node, n + 1 + i, l)
       /\ EntryHigh(right, i, h) = EntryHigh(node, n + 1 + i, h)
  /\ \A i \in Positions(node) :
       i \in Positions(left) \/ \E j \in Positions(right) : i = n + 1 + j

(* The two halves of an internal node cover the two halves of its          *)
(* interval.                                                               *)
LEMMA HalvesCover ==
  ASSUME NEW node, NEW l \in Nat, NEW h \in Nat, InnerCovers(node, l, h),
         NEW n \in 1 .. Len(node.entries) - 1, NEW left, NEW right,
         AreHalves(node, n, left, right)
  PROVE  HalvesSplit(node, n, left, right, l, h, node.entries[n + 1].key)
<1> DEFINE all == node.entries
           mid == all[n + 1].key
           len == Len(all)
<1>1. /\ all \in Seq(InternalEntry) /\ Ascending(all) /\ len \in Nat
      /\ \A i \in 1 .. len : /\ all[i].key \in Int /\ all[i].key \in Keys
                             /\ l < all[i].key /\ all[i].key < h
  BY EntryFacts DEF InnerCovers
<1>2. n \in Nat /\ n > 0 /\ len \in Nat /\ n + 1 <= len
  BY <1>1
<1>4. /\ HalfEntries(node, n, left, right) /\ HalfChildren(node, n, left, right, mid)
      /\ Positions(left) = 1 .. n + 1 /\ Positions(right) = 1 .. len - n
  BY <1>1, SplitChildren
<1>6. /\ left.entries \in Seq(InternalEntry) /\ Ascending(left.entries)
      /\ right.entries \in Seq(InternalEntry) /\ Ascending(right.entries)
      /\ Len(left.entries) = n /\ Len(right.entries) = len - n - 1
      /\ \A i \in 1 .. n : left.entries[i] = all[i]
      /\ \A i \in 1 .. len - n - 1 : right.entries[i] = all[n + 1 + i]
  BY <1>4 DEF HalfEntries
<1>11. Positions(node) = 1 .. len + 1
  BY DEF Positions
<1> HIDE DEF len
<1>5. /\ n + 1 \in 1 .. len
      /\ \A i \in 1 .. n : i \in 1 .. len /\ i < n + 1
      /\ \A i \in 1 .. n + 1 : i \in 1 .. len + 1
      /\ \A i \in 1 .. len - n - 1 : n + 1 + i \in 1 .. len /\ n + 1 < n + 1 + i
      /\ \A i \in 1 .. len - n : n + 1 + i \in 1 .. len + 1 /\ n + 1 + i \notin 1 .. n + 1
      /\ \A i \in 1 .. len + 1 : i \in 1 .. n + 1 \/ \E j \in 1 .. len - n : i = n + 1 + j
  BY <1>2, Shift
<1>3. mid \in Keys /\ mid \in Nat /\ l < mid /\ mid < h
  BY <1>1, <1>5 DEF Keys
<1> HIDE DEF mid, all
<1>9. InnerCovers(left, l, mid)
  <2> SUFFICES ASSUME NEW i \in 1 .. n PROVE l < left.entries[i].key /\ left.entries[i].key < mid
    BY <1>6 DEF InnerCovers
  <2>1. i \in 1 .. len /\ i < n + 1
    BY <1>5
  <2>2. l < all[i].key /\ all[i].key < all[n + 1].key
    BY <2>1, <1>1, <1>5 DEF Ascending, len
  <2> QED BY <2>2, <1>6 DEF mid
<1>10. InnerCovers(right, mid, h)
  <2> SUFFICES ASSUME NEW i \in 1 .. len - n - 1
               PROVE mid < right.entries[i].key /\ right.entries[i].key < h
    BY <1>6 DEF InnerCovers
  <2>1. n + 1 + i \in 1 .. len /\ n + 1 < n + 1 + i
    BY <1>5
  <2>2. all[n + 1 + i].key < h /\ all[n + 1].key < all[n + 1 + i].key
    BY <2>1, <1>1, <1>5 DEF Ascending, len
  <2> QED BY <2>2, <1>6 DEF mid
<1>12. /\ \A i \in Positions(left) :
           /\ Kid(left, i) = Kid(node, i)
           /\ EntryLow(left, i, l) = EntryLow(node, i, l)
           /\ EntryHigh(left, i, mid) = EntryHigh(node, i, h)
       /\ \A i \in Positions(right) :
           /\ Kid(right, i) = Kid(node, n + 1 + i)
           /\ EntryLow(right, i, mid) = EntryLow(node, n + 1 + i, l)
           /\ EntryHigh(right, i, h) = EntryHigh(node, n + 1 + i, h)
  BY <1>4 DEF HalfChildren
<1>13. \A i \in Positions(left) : i \in Positions(node)
  BY <1>4, <1>5, <1>11
<1>14. \A i \in Positions(right) : n + 1 + i \in Positions(node) /\ n + 1 + i \notin Positions(left)
  BY <1>4, <1>5, <1>11
<1>15. \A i \in Positions(node) : i \in Positions(left) \/ \E j \in Positions(right) : i = n + 1 + j
  BY <1>4, <1>5, <1>11
<1>16. HalvesSplit(node, n, left, right, l, h, mid)
  BY <1>3, <1>9, <1>10, <1>12, <1>13, <1>14, <1>15 DEF HalvesSplit
<1> QED BY <1>16 DEF mid, all

(* An internal node is split: the right half y takes the last children     *)
(* and has no place yet, the middle key is the border.                     *)
LEMMA InnerSplit ==
  ASSUME NEW pg, NEW root, NEW lo, NEW hi, NEW ht, Tree(pg, root, NULL, NULL, lo, hi, ht),
         NEW x \in InnersOf(pg), NEW y \in PageIds, y \notin NodesOf(pg),
         NEW n \in 1 .. Len(pg[x].entries) - 1, NEW pg2 \in [PageIds -> Node],
         AreHalves(pg[x], n, pg2[x], pg2[y]),
         pg2[x].type = "INTERNAL", pg2[x].parent = pg[x].parent, pg2[y].type = "INTERNAL",
         \A p \in PageIds : p # x /\ p # y =>
           /\ pg2[p].type = pg[p].type /\ pg2[p].left = pg[p].left
           /\ pg2[p].entries = pg[p].entries
           /\ pg2[p].parent = IF p \in MovedChildren(pg2[y]) THEN y ELSE pg[p].parent
  PROVE  LET mid == pg[x].entries[n + 1].key
         IN  /\ mid \in Keys
             /\ Tree(pg2, root, x, y, [lo EXCEPT ![y] = mid], [hi EXCEPT ![x] = mid, ![y] = hi[x]],
                     [ht EXCEPT ![y] = ht[x]])
<1> DEFINE mid == pg[x].entries[n + 1].key
           lo2 == [lo EXCEPT ![y] = mid]
           hi2 == [hi EXCEPT ![x] = mid, ![y] = hi[x]]
           ht2 == [ht EXCEPT ![y] = ht[x]]
           all == pg[x].entries
           Moved == MovedChildren(pg2[y])
<1>0. /\ x \in PageIds /\ x \in NodesOf(pg) /\ x # y /\ pg[x].type = "INTERNAL" /\ ht[x] > 0
      /\ InnerCovers(pg[x], lo[x], hi[x]) /\ pg[x] \in Node /\ lo[x] < hi[x]
      /\ lo[x] \in Nat /\ hi[x] \in Nat /\ ht[x] \in Nat
  BY DEF InnersOf, NodesOf, Tree, Ranges, Typed
<1> DEFINE left == pg2[x]
           right == pg2[y]
<1>h. HalvesSplit(pg[x], n, left, right, lo[x], hi[x], mid)
  <2>1. AreHalves(pg[x], n, left, right)
    OBVIOUS
  <2> HIDE DEF left, right
  <2> QED BY <2>1, <1>0, HalvesCover
<1> HIDE DEF mid
<1>s. /\ mid \in Keys /\ mid \in Nat /\ lo[x] < mid /\ mid < hi[x]
      /\ InnerCovers(left, lo[x], mid) /\ InnerCovers(right, mid, hi[x])
      /\ \A i \in Positions(left) :
           /\ i \in Positions(pg[x])
           /\ Kid(left, i) = Kid(pg[x], i)
           /\ EntryLow(left, i, lo[x]) = EntryLow(pg[x], i, lo[x])
           /\ EntryHigh(left, i, mid) = EntryHigh(pg[x], i, hi[x])
      /\ \A i \in Positions(right) :
           /\ n + 1 + i \in Positions(pg[x]) /\ n + 1 + i \notin Positions(left)
           /\ Kid(right, i) = Kid(pg[x], n + 1 + i)
           /\ EntryLow(right, i, mid) = EntryLow(pg[x], n + 1 + i, lo[x])
           /\ EntryHigh(right, i, hi[x]) = EntryHigh(pg[x], n + 1 + i, hi[x])
      /\ \A i \in Positions(pg[x]) :
           i \in Positions(left) \/ \E j \in Positions(right) : i = n + 1 + j
  BY <1>h DEF HalvesSplit
<1>1. /\ lo2 \in [PageIds -> Nat] /\ hi2 \in [PageIds -> Nat] /\ ht2 \in [PageIds -> Nat]
      /\ lo2[y] = mid /\ hi2[y] = hi[x] /\ ht2[y] = ht[x] /\ hi2[x] = mid
      /\ \A p \in PageIds : p # y => lo2[p] = lo[p] /\ ht2[p] = ht[p]
      /\ \A p \in PageIds : p # y /\ p # x => hi2[p] = hi[p]
  BY <1>0, <1>s DEF Tree, Typed
<1> HIDE DEF lo2, hi2, ht2, mid
<1>2. /\ LeavesOf(pg2) = LeavesOf(pg) /\ InnersOf(pg2) = InnersOf(pg) \cup {y}
      /\ NodesOf(pg2) = NodesOf(pg) \cup {y} /\ y \notin InnersOf(pg) /\ x \notin LeavesOf(pg)
      /\ NodesOf(pg) \subseteq PageIds /\ InnersOf(pg) \subseteq NodesOf(pg)
  BY <1>0, <1>s DEF LeavesOf, InnersOf, NodesOf
<1>3. \A c : c \in Moved <=> \E i \in Positions(pg2[y]) : Kid(pg2[y], i) = c
  <2>0. pg2[y].entries \in Seq(InternalEntry)
    BY <1>s DEF InnerCovers
  <2>1. DOMAIN Kids(pg2[y]) = Positions(pg2[y]) /\ \A i \in Positions(pg2[y]) : Kids(pg2[y])[i] = Kid(pg2[y], i)
    BY <2>0, KidsByPosition
  <2> QED BY <2>1 DEF MovedChildren, Range
<1>4. \A i \in Positions(pg[x]) : /\ Kid(pg[x], i) \in NodesOf(pg) /\ pg[Kid(pg[x], i)].parent = x
                                 /\ ht[x] = ht[Kid(pg[x], i)] + 1 /\ Kid(pg[x], i) # root
                                 /\ lo[Kid(pg[x], i)] = EntryLow(pg[x], i, lo[x])
                                 /\ End(NULL, NULL, hi, Kid(pg[x], i)) = EntryHigh(pg[x], i, hi[x])
                                 /\ Kid(pg[x], i) \in PageIds
                                 /\ ht[Kid(pg[x], i)] \in Nat
  <2>0. \A i \in Positions(pg[x]) : KidSound(pg, root, NULL, NULL, lo, hi, ht, x, i)
    BY DEF Tree, AllKidsSound
  <2>1. \A i \in Positions(pg[x]) : /\ Kid(pg[x], i) \in NodesOf(pg) /\ pg[Kid(pg[x], i)].parent = x
                                 /\ ht[x] = ht[Kid(pg[x], i)] + 1 /\ Kid(pg[x], i) # root
                                 /\ lo[Kid(pg[x], i)] = EntryLow(pg[x], i, lo[x])
                                 /\ End(NULL, NULL, hi, Kid(pg[x], i)) = EntryHigh(pg[x], i, hi[x])
    BY <2>0 DEF KidSound
  <2> QED BY <2>1, <1>2 DEF Tree, Typed
<1>5. \A c \in Moved : /\ c \in NodesOf(pg) /\ pg[c].parent = x /\ c # x /\ c # y /\ c # root
  <2> TAKE c \in Moved
  <2>1. PICK i \in Positions(pg2[y]) : Kid(pg2[y], i) = c
    BY <1>3
  <2>2. Kid(pg[x], n + 1 + i) = c /\ n + 1 + i \in Positions(pg[x])
    BY <2>1, <1>s
  <2>3. c \in NodesOf(pg) /\ pg[c].parent = x /\ ht[x] = ht[c] + 1 /\ ht[c] \in Nat /\ c # root
    BY <2>2, <1>4
  <2> QED BY <2>3, <1>0
<1>6. \A i \in Positions(left) : i \in Positions(pg[x]) /\ Kid(pg[x], i) \notin Moved
  <2> TAKE i \in Positions(left)
  <2>1. i \in Positions(pg[x])
    BY <1>s
  <2>2. ASSUME NEW j \in Positions(right), Kid(right, j) = Kid(pg[x], i) PROVE FALSE
    <3>1. /\ n + 1 + j \in Positions(pg[x]) /\ n + 1 + j \notin Positions(left)
          /\ Kid(pg[x], n + 1 + j) = Kid(pg[x], i)
      BY <2>2, <1>s
    <3>2. n + 1 + j = i
      BY <3>1, <2>1, KidsDiffer
    <3> QED BY <3>1, <3>2
  <2> QED BY <2>1, <2>2, <1>3
<1>7. Ranges(pg2, lo2, hi2, ht2)
  <2> SUFFICES ASSUME NEW p \in NodesOf(pg2)
               PROVE  /\ lo2[p] < hi2[p]
                      /\ pg2[p].type = "LEAF" => ht2[p] = 0 /\ LeafCovers(pg2[p], lo2[p], hi2[p])
                      /\ pg2[p].type = "INTERNAL" => ht2[p] > 0 /\ InnerCovers(pg2[p], lo2[p], hi2[p])
    BY DEF Ranges
  <2>1. CASE p = x
    BY <2>1, <1>0, <1>1, <1>s
  <2>2. CASE p = y
    BY <2>2, <1>0, <1>1, <1>s
  <2>3. CASE p # x /\ p # y
    <3>1. p \in NodesOf(pg) /\ p \in PageIds
      BY <2>3, <1>2
    <3>2. /\ lo[p] < hi[p]
          /\ pg[p].type = "LEAF" => ht[p] = 0 /\ LeafCovers(pg[p], lo[p], hi[p])
          /\ pg[p].type = "INTERNAL" => ht[p] > 0 /\ InnerCovers(pg[p], lo[p], hi[p])
      BY <3>1 DEF Tree, Ranges
    <3>3. lo2[p] = lo[p] /\ hi2[p] = hi[p] /\ ht2[p] = ht[p]
      BY <3>1, <2>3, <1>1
    <3>4. pg2[p].type = pg[p].type /\ pg2[p].left = pg[p].left /\ pg2[p].entries = pg[p].entries
      BY <3>1, <2>3
    <3>5. /\ \A l, h : (LeafCovers(pg2[p], l, h) <=> LeafCovers(pg[p], l, h))
          /\ \A l, h : (InnerCovers(pg2[p], l, h) <=> InnerCovers(pg[p], l, h))
      BY <3>4, SameNodeFacts
    <3> QED BY <3>2, <3>3, <3>4, <3>5
  <2> QED BY <2>1, <2>2, <2>3
<1>8. \A c \in NodesOf(pg) : End(x, y, hi2, c) = End(NULL, NULL, hi, c)
  BY <1>0, <1>1, <1>2, NullIsNoPage DEF End
<1>9. AllKidsSound(pg2, root, x, y, lo2, hi2, ht2)
  <2> SUFFICES ASSUME NEW p \in InnersOf(pg2), NEW i \in Positions(pg2[p])
               PROVE  KidSound(pg2, root, x, y, lo2, hi2, ht2, p, i)
    BY DEF AllKidsSound
  <2>1. CASE p = x
    <3> DEFINE c == Kid(pg[x], i)
    <3>1. i \in Positions(left)
      BY <2>1
    <3>2. i \in Positions(pg[x]) /\ c \notin Moved
      BY <3>1, <1>6
    <3>3. /\ c \in NodesOf(pg) /\ c # root /\ pg[c].parent = x /\ ht[x] = ht[c] + 1
          /\ lo[c] = EntryLow(pg[x], i, lo[x])
          /\ End(NULL, NULL, hi, c) = EntryHigh(pg[x], i, hi[x])
      BY <3>2, <1>4
    <3>4. /\ Kid(pg2[x], i) = c /\ EntryLow(pg2[x], i, lo[x]) = EntryLow(pg[x], i, lo[x])
          /\ EntryHigh(pg2[x], i, mid) = EntryHigh(pg[x], i, hi[x])
      BY <3>1, <1>s
    <3>5. c # x
      BY <3>2, <1>0, <1>4
    <3> HIDE DEF c
    <3>6. c # y /\ c \in PageIds /\ c \in NodesOf(pg2)
      BY <3>3, <1>2
    <3>7. pg2[c].parent = x
      BY <3>2, <3>3, <3>5, <3>6
    <3>8. lo2[c] = lo[c] /\ lo2[x] = lo[x] /\ ht2[c] = ht[c] /\ ht2[x] = ht[x] /\ hi2[x] = mid
      BY <3>6, <1>0, <1>1
    <3>9. End(x, y, hi2, c) = End(NULL, NULL, hi, c)
      BY <3>3, <1>8
    <3> QED BY <2>1, <3>3, <3>4, <3>6, <3>7, <3>8, <3>9, IsSound
  <2>2. CASE p = y
    <3> DEFINE c == Kid(pg[x], n + 1 + i)
    <3>1. i \in Positions(pg2[y]) /\ n + 1 + i \in Positions(pg[x])
      BY <2>2, <1>s
    <3>2. /\ Kid(pg2[y], i) = c /\ EntryLow(pg2[y], i, mid) = EntryLow(pg[x], n + 1 + i, lo[x])
          /\ EntryHigh(pg2[y], i, hi[x]) = EntryHigh(pg[x], n + 1 + i, hi[x])
      BY <3>1, <1>s
    <3>3. /\ c \in NodesOf(pg) /\ c # root /\ pg[c].parent = x /\ ht[x] = ht[c] + 1
          /\ lo[c] = EntryLow(pg[x], n + 1 + i, lo[x])
          /\ End(NULL, NULL, hi, c) = EntryHigh(pg[x], n + 1 + i, hi[x])
      BY <3>1, <1>4
    <3>4. c \in Moved
      BY <3>1, <3>2, <1>3
    <3> HIDE DEF c
    <3>5. c # y /\ c # x /\ c \in PageIds /\ c \in NodesOf(pg2)
      BY <3>3, <3>4, <1>2, <1>5
    <3>6. pg2[c].parent = y
      BY <3>4, <3>5
    <3>7. lo2[c] = lo[c] /\ lo2[y] = mid /\ ht2[c] = ht[c] /\ ht2[y] = ht[x] /\ hi2[y] = hi[x]
      BY <3>5, <1>0, <1>1
    <3>8. End(x, y, hi2, c) = End(NULL, NULL, hi, c)
      BY <3>3, <1>8
    <3> QED BY <2>2, <3>2, <3>3, <3>5, <3>6, <3>7, <3>8, IsSound
  <2>3. CASE p # x /\ p # y
    <3> DEFINE c == Kid(pg[p], i)
    <3>1. p \in InnersOf(pg) /\ p \in PageIds
      BY <2>3, <1>2
    <3>2. pg2[p].left = pg[p].left /\ pg2[p].entries = pg[p].entries
      BY <2>3, <3>1
    <3>3. i \in Positions(pg[p])
      BY <3>2, SameNodeFacts
    <3>4. KidSound(pg, root, NULL, NULL, lo, hi, ht, p, i)
      BY <3>1, <3>3 DEF Tree, AllKidsSound
    <3>5. /\ c \in NodesOf(pg) /\ c # root /\ pg[c].parent = p /\ ht[p] = ht[c] + 1
          /\ lo[c] = EntryLow(pg[p], i, lo[p])
          /\ End(NULL, NULL, hi, c) = EntryHigh(pg[p], i, hi[p])
      BY <3>4 DEF KidSound
    <3>6. /\ Kid(pg2[p], i) = c /\ EntryLow(pg2[p], i, lo[p]) = EntryLow(pg[p], i, lo[p])
          /\ EntryHigh(pg2[p], i, hi[p]) = EntryHigh(pg[p], i, hi[p])
      BY <3>2 DEF Kid, EntryLow, EntryHigh
    <3> HIDE DEF c
    <3>7. c # y /\ c \in PageIds /\ c \in NodesOf(pg2) /\ c \notin Moved
      BY <3>5, <2>3, <1>2, <1>5
    <3>8. pg2[c].parent = p
      BY <3>5, <3>7, <1>s
    <3>9. lo2[c] = lo[c] /\ lo2[p] = lo[p] /\ ht2[c] = ht[c] /\ ht2[p] = ht[p] /\ hi2[p] = hi[p]
      BY <3>1, <3>7, <2>3, <1>1
    <3>10. End(x, y, hi2, c) = End(NULL, NULL, hi, c)
      BY <3>5, <1>8
    <3> QED BY <3>5, <3>6, <3>7, <3>8, <3>9, <3>10, IsSound
  <2> QED BY <2>1, <2>2, <2>3
<1>10. Places(pg2, root, y)
  <2> SUFFICES ASSUME NEW c \in NodesOf(pg), c # root, c # y
               PROVE  HasPlace(pg2, c)
    BY <1>2 DEF Places
  <2> DEFINE p == pg[c].parent
  <2>1. HasPlace(pg, c) /\ c \in PageIds
    BY <1>2, NullIsNoPage DEF Tree, Places
  <2>2. PICK i \in Positions(pg[p]) : Kid(pg[p], i) = c
    BY <2>1 DEF HasPlace
  <2>3. p \in InnersOf(pg)
    BY <2>1 DEF HasPlace
  <2>5. CASE c \in Moved
    <3>1. pg2[c].parent = y
      BY <2>5, <1>2, <1>5
    <3> QED BY <2>5, <3>1, <1>2, <1>3 DEF HasPlace
  <2>6. CASE c \notin Moved /\ p = x
    <3>1. pg2[c].parent = x
      BY <2>1, <2>6, <1>s
    <3>2. i \in Positions(left)
      <4> SUFFICES ASSUME NEW j \in Positions(right), i = n + 1 + j PROVE FALSE
        BY <2>6, <1>s
      <4>1. Kid(right, j) = c
        BY <2>2, <2>6, <1>s
      <4> QED BY <4>1, <2>6, <1>3
    <3>3. i \in Positions(pg2[x]) /\ Kid(pg2[x], i) = c
      BY <3>2, <2>2, <2>6, <1>s
    <3> QED BY <3>1, <3>3, <1>2 DEF HasPlace
  <2>7. CASE c \notin Moved /\ p # x
    <3>1. p \in InnersOf(pg2) /\ p # y /\ p \in PageIds
      BY <2>3, <1>2
    <3>2. pg2[c].parent = p
      BY <2>1, <2>7, <1>s
    <3>3. pg2[p].left = pg[p].left /\ pg2[p].entries = pg[p].entries
      BY <3>1, <2>7
    <3> HIDE DEF p
    <3>4. i \in Positions(pg2[p]) /\ Kid(pg2[p], i) = c
      BY <3>3, <2>2, SameNodeFacts
    <3> QED BY <3>1, <3>2, <3>4 DEF HasPlace
  <2> QED BY <2>5, <2>6, <2>7
<1>11. RootSound(pg2, root, x, y, lo2, hi2, ht2)
  <2>1. root \in NodesOf(pg) /\ root # y /\ root \in PageIds /\ root \notin Moved
    BY <1>2, <1>5 DEF Tree, RootSound
  <2>2. pg2[root].parent = NULL
    BY <2>1, <1>s DEF Tree, RootSound
  <2>3. \A p \in NodesOf(pg) : ht[p] <= ht[root]
    BY DEF Tree, RootSound
  <2>4. \A p \in NodesOf(pg2) : ht2[p] <= ht2[root]
    BY <2>1, <2>3, <1>0, <1>1, <1>2
  <2> QED BY <2>1, <2>2, <2>4, <1>1, <1>2, <1>8 DEF Tree, RootSound
<1>12. HalvesSound(pg2, root, x, y, lo2, hi2, ht2)
  BY <1>0, <1>1, <1>2 DEF Tree, RootSound, HalvesSound
<1> QED BY <1>1, <1>7, <1>9, <1>10, <1>11, <1>12, <1>s DEF Tree, Typed, lo2, hi2, ht2, mid

-----------------------------------------------------------------------------
(* Separators that come, go and change *)

(* A child's interval lies within its parent's. *)
LEMMA KidInside ==
  ASSUME NEW node, NEW l \in Int, NEW h \in Int, InnerCovers(node, l, h), l < h,
         NEW i \in Positions(node)
  PROVE  /\ EntryLow(node, i, l) \in Int /\ EntryHigh(node, i, h) \in Int
         /\ l <= EntryLow(node, i, l) /\ EntryHigh(node, i, h) <= h
<1> DEFINE s == node.entries
<1>1. /\ Len(s) \in Nat /\ \A x \in 1 .. Len(s) : s[x].key \in Int
      /\ \A x \in 1 .. Len(s) : l < s[x].key /\ s[x].key < h
  BY EntryFacts DEF InnerCovers
<1> HIDE DEF s
<1>2. i \in 1 .. Len(s) + 1
  BY DEF Positions, s
<1>3. EntryLow(node, i, l) \in Int /\ l <= EntryLow(node, i, l)
  <2>1. CASE i = 1
    BY <2>1 DEF EntryLow
  <2>2. CASE i # 1
    <3>1. i - 1 \in 1 .. Len(s) /\ EntryLow(node, i, l) = s[i - 1].key
      BY <1>1, <1>2, <2>2 DEF EntryLow, s
    <3> QED BY <3>1, <1>1
  <2> QED BY <2>1, <2>2
<1>4. EntryHigh(node, i, h) \in Int /\ EntryHigh(node, i, h) <= h
  <2>1. CASE i > Len(s)
    BY <2>1 DEF EntryHigh, s
  <2>2. CASE ~(i > Len(s))
    <3>1. i \in 1 .. Len(s) /\ EntryHigh(node, i, h) = s[i].key
      BY <1>1, <1>2, <2>2 DEF EntryHigh, s
    <3> QED BY <3>1, <1>1
  <2> QED BY <2>1, <2>2
<1> QED BY <1>3, <1>4

(* A key strictly inside a child's interval is no separator, and the       *)
(* binary search finds the child.                                          *)
LEMMA RouteInside ==
  ASSUME NEW node, NEW l \in Int, NEW h \in Int, InnerCovers(node, l, h), l < h,
         NEW j \in Positions(node), NEW k \in Int,
         EntryLow(node, j, l) < k, k < EntryHigh(node, j, h)
  PROVE  /\ InternalFind(node, k) + 1 = j /\ l < k /\ k < h
         /\ \A i \in 1 .. Len(node.entries) : node.entries[i].key # k
<1> DEFINE s == node.entries
           m == InternalFind(node, k) + 1
<1>1. /\ s \in Seq(InternalEntry) /\ Ascending(s) /\ Len(s) \in Nat
      /\ \A x \in 1 .. Len(s) : s[x].key \in Int
  BY EntryFacts DEF InnerCovers
<1>2. /\ EntryLow(node, j, l) \in Int /\ EntryHigh(node, j, h) \in Int
      /\ l <= EntryLow(node, j, l) /\ EntryHigh(node, j, h) <= h
  BY KidInside
<1>3. l < k /\ k < h
  BY <1>2
<1>4. j = m
  <2>1. l <= k /\ EntryLow(node, j, l) <= k
    BY <1>2, <1>3
  <2> QED BY <2>1, <1>1, <1>3, RouteInNode
<1>5. InternalFind(node, k) \in 0 .. Len(s) /\ \A i \in 1 .. Len(s) : s[i].key <= k <=> i <= InternalFind(node, k)
  BY <1>1, InternalFindFacts
<1>6. ASSUME NEW i \in 1 .. Len(s), s[i].key = k PROVE FALSE
  <2>1. s[i].key \in Int /\ i <= m - 1 /\ m - 1 \in 1 .. Len(s) /\ m # 1
    BY <1>1, <1>5, <1>6
  <2> HIDE DEF m, s
  <2>2. s[i].key <= s[m - 1].key
    <3>1. CASE i = m - 1
      BY <3>1, <2>1
    <3>2. CASE i # m - 1
      <4>1. s[i].key < s[m - 1].key
        BY <3>2, <2>1, <1>1 DEF Ascending
      <4> QED BY <4>1, <2>1, <1>1
    <3> QED BY <3>1, <3>2
  <2>3. EntryLow(node, j, l) = s[m - 1].key
    BY <1>4, <2>1 DEF EntryLow, s
  <2> QED BY <2>1, <2>2, <2>3, <1>1, <1>6
<1> QED BY <1>3, <1>4, <1>6

(* The effect of a new separator on the children, without the positions.   *)
Inserted(node, new, e, m, l, h) ==
  /\ InnerCovers(new, l, h)
  /\ \A i \in Positions(new) :
       \/ \E j \in Positions(node) : /\ j # m /\ Kid(new, i) = Kid(node, j)
                                      /\ EntryLow(new, i, l) = EntryLow(node, j, l)
                                      /\ EntryHigh(new, i, h) = EntryHigh(node, j, h)
       \/ /\ Kid(new, i) = Kid(node, m) /\ EntryLow(new, i, l) = EntryLow(node, m, l)
          /\ EntryHigh(new, i, h) = e.key
       \/ /\ Kid(new, i) = e.right_child /\ EntryLow(new, i, l) = e.key
          /\ EntryHigh(new, i, h) = EntryHigh(node, m, h)
  /\ \A j \in Positions(node) : \E i \in Positions(new) : Kid(new, i) = Kid(node, j)
  /\ \E i \in Positions(new) : Kid(new, i) = e.right_child

(* With a separator inserted the node covers the same interval, and one    *)
(* child's interval is cut in two.                                         *)
LEMMA InsertCovers ==
  ASSUME NEW node, NEW l \in Int, NEW h \in Int, InnerCovers(node, l, h),
         NEW e \in InternalEntry, NEW m, NEW new, ChildInserted(node, new, e, m),
         l < e.key, e.key < h
  PROVE  Inserted(node, new, e, m, l, h)
<1> DEFINE s == node.entries
           t == new.entries
<1>1. /\ Len(s) \in Nat /\ \A x \in 1 .. Len(s) : l < s[x].key /\ s[x].key < h
      /\ m \in 1 .. Len(s) + 1 /\ Len(t) = Len(s) + 1 /\ m \in Positions(node)
  BY EntryFacts DEF InnerCovers, ChildInserted, Positions
<1>2. \A i \in 1 .. Len(t) : t[i] = IF i < m THEN s[i] ELSE IF i = m THEN e ELSE s[i - 1]
  BY DEF ChildInserted
<1>3. /\ \A i \in Positions(new) :
           Kid(new, i) = IF i <= m THEN Kid(node, i)
                         ELSE IF i = m + 1 THEN e.right_child ELSE Kid(node, i - 1)
      /\ \A i \in Positions(new) :
           EntryLow(new, i, l) = IF i <= m THEN EntryLow(node, i, l)
                                 ELSE IF i = m + 1 THEN e.key ELSE EntryLow(node, i - 1, l)
      /\ \A i \in Positions(new) :
           EntryHigh(new, i, h) = IF i < m THEN EntryHigh(node, i, h)
                                  ELSE IF i = m THEN e.key ELSE EntryHigh(node, i - 1, h)
  BY DEF ChildInserted
<1>4. Positions(new) = 1 .. Len(s) + 2 /\ Positions(node) = 1 .. Len(s) + 1
  BY <1>1 DEF Positions
<1>5. t \in Seq(InternalEntry) /\ Ascending(t)
  BY DEF ChildInserted
<1> DEFINE len == Len(s)
<1> HIDE DEF len
<1>6. /\ len \in Nat /\ len = Len(s) /\ m \in 1 .. len + 1 /\ m \in Int /\ Positions(new) = 1 .. len + 2
      /\ Positions(node) = 1 .. len + 1 /\ Len(t) = len + 1
  BY <1>1, <1>4 DEF len
<1> HIDE DEF s, t
<1>7. InnerCovers(new, l, h)
  <2> SUFFICES ASSUME NEW i \in 1 .. len + 1 PROVE l < t[i].key /\ t[i].key < h
    BY <1>5, <1>6 DEF InnerCovers, t
  <2>1. t[i] = IF i < m THEN s[i] ELSE IF i = m THEN e ELSE s[i - 1]
    BY <1>2, <1>6
  <2>2. CASE i < m
    <3>1. i \in 1 .. len
      BY <2>2, <1>6
    <3> QED BY <2>1, <2>2, <3>1, <1>1, <1>6
  <2>3. CASE i = m
    <3>1. ~(i < m)
      BY <2>3, <1>6
    <3> QED BY <2>1, <2>3, <3>1
  <2>4. CASE i > m
    <3>1. i - 1 \in 1 .. len /\ ~(i < m) /\ i # m
      BY <2>4, <1>6
    <3> QED BY <2>1, <3>1, <1>1, <1>6
  <2> QED BY <2>2, <2>3, <2>4, <1>6
<1>8. ASSUME NEW i \in Positions(new)
      PROVE  \/ \E j \in Positions(node) : /\ j # m /\ Kid(new, i) = Kid(node, j)
                                      /\ EntryLow(new, i, l) = EntryLow(node, j, l)
                                      /\ EntryHigh(new, i, h) = EntryHigh(node, j, h)
             \/ /\ Kid(new, i) = Kid(node, m) /\ EntryLow(new, i, l) = EntryLow(node, m, l)
                /\ EntryHigh(new, i, h) = e.key
             \/ /\ Kid(new, i) = e.right_child /\ EntryLow(new, i, l) = e.key
                /\ EntryHigh(new, i, h) = EntryHigh(node, m, h)
  <2>1. CASE i < m
    <3>1. i \in Positions(node) /\ i # m /\ i <= m
      BY <2>1, <1>6
    <3> QED BY <2>1, <3>1, <1>3
  <2>2. CASE i = m
    <3>1. i <= m /\ ~(i < m)
      BY <2>2, <1>6
    <3> QED BY <2>2, <3>1, <1>3
  <2>3. CASE i = m + 1
    <3>1. ~(i <= m) /\ ~(i < m) /\ i # m /\ i - 1 = m
      BY <2>3, <1>6
    <3> QED BY <2>3, <3>1, <1>3
  <2>4. CASE i > m + 1
    <3>1. ~(i <= m) /\ ~(i < m) /\ i # m /\ i # m + 1 /\ i - 1 \in Positions(node) /\ i - 1 # m
      BY <2>4, <1>6
    <3> QED BY <3>1, <1>3
  <2>5. i < m \/ i = m \/ i = m + 1 \/ i > m + 1
    BY <1>6
  <2> QED BY <2>1, <2>2, <2>3, <2>4, <2>5
<1>9. ASSUME NEW j \in Positions(node) PROVE \E i \in Positions(new) : Kid(new, i) = Kid(node, j)
  <2>1. CASE j <= m
    <3>1. j \in Positions(new)
      BY <1>6
    <3> QED BY <2>1, <3>1, <1>3
  <2>2. CASE ~(j <= m)
    <3>1. j + 1 \in Positions(new) /\ ~(j + 1 <= m) /\ j + 1 # m + 1 /\ (j + 1) - 1 = j
      BY <2>2, <1>6
    <3>2. Kid(new, j + 1) = Kid(node, (j + 1) - 1)
      BY <3>1, <1>3
    <3> QED BY <3>1, <3>2
  <2> QED BY <2>1, <2>2
<1>10. \E i \in Positions(new) : Kid(new, i) = e.right_child
  <2>1. m + 1 \in Positions(new) /\ ~(m + 1 <= m)
    BY <1>6
  <2> QED BY <2>1, <1>3
<1> QED BY <1>7, <1>8, <1>9, <1>10 DEF Inserted

(* The children when a separator goes. *)
Removed(node, new, m, l, h) ==
  /\ InnerCovers(new, l, h)
  /\ \A i \in Positions(new) :
       \/ \E j \in Positions(node) : /\ j # m /\ j # m + 1 /\ Kid(new, i) = Kid(node, j)
                                      /\ EntryLow(new, i, l) = EntryLow(node, j, l)
                                      /\ EntryHigh(new, i, h) = EntryHigh(node, j, h)
       \/ /\ Kid(new, i) = Kid(node, m) /\ EntryLow(new, i, l) = EntryLow(node, m, l)
          /\ EntryHigh(new, i, h) = EntryHigh(node, m + 1, h)
  /\ \A j \in Positions(node) : j # m + 1 => \E i \in Positions(new) : Kid(new, i) = Kid(node, j)

(* Without a separator the node covers the same interval, and two          *)
(* children's intervals are joined.                                        *)
LEMMA RemoveCovers ==
  ASSUME NEW node, NEW l \in Int, NEW h \in Int, InnerCovers(node, l, h),
         NEW m \in 1 .. Len(node.entries), NEW new, ChildRemoved(node, new, m)
  PROVE  Removed(node, new, m, l, h)
<1> DEFINE s == node.entries
           t == new.entries
           len == Len(s)
<1>1. /\ len \in Nat /\ \A x \in 1 .. len : l < s[x].key /\ s[x].key < h
      /\ m \in 1 .. len /\ Len(t) = len - 1 /\ len > 0 /\ m \in Int
  BY EntryFacts DEF InnerCovers, ChildRemoved
<1>2. \A i \in 1 .. Len(t) : t[i] = IF i < m THEN s[i] ELSE s[i + 1]
  BY DEF ChildRemoved
<1>3. /\ \A i \in Positions(new) : Kid(new, i) = IF i <= m THEN Kid(node, i) ELSE Kid(node, i + 1)
      /\ \A i \in Positions(new) :
           EntryLow(new, i, l) = IF i <= m THEN EntryLow(node, i, l) ELSE EntryLow(node, i + 1, l)
      /\ \A i \in Positions(new) :
           EntryHigh(new, i, h) = IF i < m THEN EntryHigh(node, i, h) ELSE EntryHigh(node, i + 1, h)
  BY DEF ChildRemoved
<1>4. Positions(new) = 1 .. len /\ Positions(node) = 1 .. len + 1
  BY <1>1 DEF Positions
<1>5. t \in Seq(InternalEntry) /\ Ascending(t)
  BY DEF ChildRemoved
<1> HIDE DEF s, t, len
<1>7. InnerCovers(new, l, h)
  <2> SUFFICES ASSUME NEW i \in 1 .. len - 1 PROVE l < t[i].key /\ t[i].key < h
    BY <1>1, <1>5 DEF InnerCovers, t
  <2>1. i \in 1 .. len /\ i + 1 \in 1 .. len
    BY <1>1
  <2> QED BY <2>1, <1>1, <1>2
<1>8. ASSUME NEW i \in Positions(new)
      PROVE  \/ \E j \in Positions(node) : /\ j # m /\ j # m + 1 /\ Kid(new, i) = Kid(node, j)
                                      /\ EntryLow(new, i, l) = EntryLow(node, j, l)
                                      /\ EntryHigh(new, i, h) = EntryHigh(node, j, h)
             \/ /\ Kid(new, i) = Kid(node, m) /\ EntryLow(new, i, l) = EntryLow(node, m, l)
                /\ EntryHigh(new, i, h) = EntryHigh(node, m + 1, h)
  <2>1. CASE i < m
    <3>1. i \in Positions(node) /\ i # m /\ i # m + 1 /\ i <= m
      BY <2>1, <1>1, <1>4
    <3> QED BY <2>1, <3>1, <1>3
  <2>2. CASE i = m
    <3>1. i <= m /\ ~(i < m)
      BY <2>2, <1>1
    <3> QED BY <2>2, <3>1, <1>3
  <2>3. CASE i > m
    <3>1. ~(i <= m) /\ ~(i < m) /\ i + 1 \in Positions(node) /\ i + 1 # m /\ i + 1 # m + 1
      BY <2>3, <1>1, <1>4
    <3> QED BY <3>1, <1>3
  <2> QED BY <2>1, <2>2, <2>3, <1>1, <1>4
<1>9. ASSUME NEW j \in Positions(node), j # m + 1
      PROVE  \E i \in Positions(new) : Kid(new, i) = Kid(node, j)
  <2>1. CASE j <= m
    <3>1. j \in Positions(new)
      BY <2>1, <1>1, <1>4
    <3> QED BY <2>1, <3>1, <1>3
  <2>2. CASE ~(j <= m)
    <3>1. j - 1 \in Positions(new) /\ ~(j - 1 <= m) /\ (j - 1) + 1 = j
      BY <2>2, <1>1, <1>4, <1>9
    <3>2. Kid(new, j - 1) = Kid(node, (j - 1) + 1)
      BY <3>1, <1>3
    <3> QED BY <3>1, <3>2
  <2> QED BY <2>1, <2>2
<1> QED BY <1>7, <1>8, <1>9 DEF Removed

(* The children when a separator changes. *)
Rekeyed(node, new, m, k, l, h) ==
  /\ InnerCovers(new, l, h) /\ Positions(new) = Positions(node)
  /\ \A i \in Positions(node) :
       /\ Kid(new, i) = Kid(node, i)
       /\ EntryLow(new, i, l) = IF i = m + 1 THEN k ELSE EntryLow(node, i, l)
       /\ EntryHigh(new, i, h) = IF i = m THEN k ELSE EntryHigh(node, i, h)

(* With another separator the node covers the same interval; the limit     *)
(* between two children moves.                                             *)
LEMMA RekeyCovers ==
  ASSUME NEW node, NEW l \in Int, NEW h \in Int, InnerCovers(node, l, h), l < h,
         NEW m \in 1 .. Len(node.entries), NEW k \in Keys,
         EntryLow(node, m, l) < k, k < EntryHigh(node, m + 1, h),
         NEW new, new.left = node.left,
         new.entries = [node.entries EXCEPT ![m] = [@ EXCEPT !.key = k]]
  PROVE  Rekeyed(node, new, m, k, l, h)
<1> DEFINE s == node.entries
           len == Len(s)
<1>1. /\ len \in Nat /\ m \in 1 .. len /\ k \in Int /\ m \in Int
      /\ s \in Seq(InternalEntry) /\ Ascending(s)
      /\ \A x \in 1 .. len : s[x].key \in Int /\ l < s[x].key /\ s[x].key < h
      /\ \A x, y \in 1 .. len : x < y => s[x].key < s[y].key
  BY SMTT(30), EntryFacts, TreeAssumption DEF InnerCovers, Keys, Ascending
<1>2. m \in Positions(node) /\ m + 1 \in Positions(node)
  BY <1>1 DEF Positions
<1>3. \A i \in 1 .. len : i < m => s[i].key < k
  <2> TAKE i \in 1 .. len
  <2> HAVE i < m
  <2>1. m # 1 /\ m - 1 \in 1 .. len /\ EntryLow(node, m, l) = s[m - 1].key
    BY SMTT(30), <1>1 DEF EntryLow
  <2>2. s[i].key <= s[m - 1].key
    <3>1. i = m - 1 \/ i < m - 1
      BY <1>1
    <3> HIDE DEF s, len
    <3> QED BY SMTT(30), <3>1, <2>1, <1>1
  <2> DEFINE x == s[i].key
             y == s[m - 1].key
  <2>3. x \in Int /\ y \in Int /\ x <= y /\ y < k
    BY <2>1, <2>2, <1>1
  <2> HIDE DEF x, y
  <2>4. x < k
    BY <2>3, <1>1
  <2> QED BY <2>4 DEF x
<1>4. \A i \in 1 .. len : m < i => k < s[i].key
  <2> TAKE i \in 1 .. len
  <2> HAVE m < i
  <2>1. m + 1 \in 1 .. len
    BY <1>1
  <2>2. EntryHigh(node, m + 1, h) = s[m + 1].key
    BY <2>1, <1>1 DEF EntryHigh
  <2>3. s[m + 1].key <= s[i].key
    <3>1. i = m + 1 \/ m + 1 < i
      BY <1>1
    <3> HIDE DEF s, len
    <3> QED BY <3>1, <2>1, <1>1
  <2> HIDE DEF s, len
  <2> QED BY SMTT(30), <2>1, <2>2, <2>3, <1>1
<1>5. ChildRekeyed(node, new, m, k)
  BY <1>1, <1>3, <1>4, RekeyChild
<1>6. Positions(new) = Positions(node)
  BY <1>5 DEF Positions, ChildRekeyed
<1>7. l < k /\ k < h
  <2>1. /\ EntryLow(node, m, l) \in Int /\ l <= EntryLow(node, m, l)
        /\ EntryHigh(node, m + 1, h) \in Int /\ EntryHigh(node, m + 1, h) <= h
    BY <1>2, KidInside
  <2> QED BY <2>1, <1>1
<1>8. InnerCovers(new, l, h)
  <2>1. /\ new.entries \in Seq(InternalEntry) /\ Ascending(new.entries)
        /\ \A i \in 1 .. Len(new.entries) : new.entries[i].key = IF i = m THEN k ELSE s[i].key
        /\ Len(new.entries) = len
    BY <1>5 DEF ChildRekeyed
  <2> QED BY <2>1, <1>1, <1>7 DEF InnerCovers
<1>9. \A i \in Positions(node) :
       /\ Kid(new, i) = Kid(node, i)
       /\ EntryLow(new, i, l) = IF i = m + 1 THEN k ELSE EntryLow(node, i, l)
       /\ EntryHigh(new, i, h) = IF i = m THEN k ELSE EntryHigh(node, i, h)
  BY <1>5, <1>6 DEF ChildRekeyed
<1> QED BY <1>6, <1>8, <1>9 DEF Rekeyed

(* What a tree says of its internal nodes, spelled out. *)
LEMMA SoundFacts ==
  ASSUME NEW pg, NEW root, NEW a, NEW b, NEW lo, NEW hi, NEW ht,
         Tree(pg, root, a, b, lo, hi, ht), NEW p \in InnersOf(pg)
  PROVE  /\ p \in PageIds /\ p \in NodesOf(pg) /\ pg[p].type = "INTERNAL" /\ pg[p] \in Node
         /\ InnerCovers(pg[p], lo[p], hi[p]) /\ lo[p] < hi[p] /\ ht[p] > 0
         /\ pg[p].entries \in Seq(InternalEntry) /\ Ascending(pg[p].entries)
         /\ lo[p] \in Int /\ hi[p] \in Int /\ ht[p] \in Nat /\ lo[p] \in Nat /\ hi[p] \in Nat
         /\ \A i \in Positions(pg[p]) : KidSound(pg, root, a, b, lo, hi, ht, p, i)
<1>1. p \in PageIds /\ p \in NodesOf(pg) /\ pg[p].type = "INTERNAL"
  BY DEF InnersOf, NodesOf
<1>2. lo[p] \in Nat /\ hi[p] \in Nat /\ ht[p] \in Nat /\ pg[p] \in Node
  BY <1>1 DEF Tree, Typed
<1>3. InnerCovers(pg[p], lo[p], hi[p]) /\ lo[p] < hi[p] /\ ht[p] > 0
  BY <1>1 DEF Tree, Ranges
<1>4. \A i \in Positions(pg[p]) : KidSound(pg, root, a, b, lo, hi, ht, p, i)
  BY DEF Tree, AllKidsSound
<1> QED BY <1>1, <1>2, <1>3, <1>4 DEF InnerCovers

(* The page a node's parent pointer names is its parent. *)
LEMMA PlaceFacts ==
  ASSUME NEW pg, NEW root, NEW a, NEW b, NEW lo, NEW hi, NEW ht,
         Tree(pg, root, a, b, lo, hi, ht), NEW c \in NodesOf(pg), c # root, c # b
  PROVE  /\ pg[c].parent \in InnersOf(pg)
         /\ \E i \in Positions(pg[pg[c].parent]) : Kid(pg[pg[c].parent], i) = c
BY DEF Tree, Places, HasPlace

(* The separator of a and b is inserted in a's parent p: b has its place.  *)
LEMMA Attach ==
  ASSUME NEW pg, NEW root, NEW a, NEW b, NEW lo, NEW hi, NEW ht,
         Tree(pg, root, a, b, lo, hi, ht), a # NULL, a # root, lo[b] \in Keys,
         NEW p, p = pg[a].parent, NEW e \in InternalEntry, e.key = lo[b], e.right_child = b,
         NEW pg2 \in [PageIds -> Node],
         pg2[p].entries = InsertAt(pg[p].entries, InternalFind(pg[p], e.key) + 1, e),
         \A q \in PageIds :
           /\ pg2[q].type = pg[q].type /\ pg2[q].left = pg[q].left
           /\ pg2[q].parent = IF q = b THEN p ELSE pg[q].parent
           /\ q # p => pg2[q].entries = pg[q].entries
  PROVE  Tree(pg2, root, NULL, NULL, lo, hi, ht)
<1> DEFINE m == InternalFind(pg[p], e.key) + 1
<1>0. /\ a \in NodesOf(pg) /\ b \in NodesOf(pg) /\ a # b /\ b # root
      /\ ht[a] = ht[b] /\ hi[a] = lo[b]
  BY DEF Tree, HalvesSound
<1>1. p \in InnersOf(pg) /\ \E i \in Positions(pg[p]) : Kid(pg[p], i) = a
  BY <1>0, PlaceFacts
<1>2. NodesOf(pg) \subseteq PageIds /\ p \in PageIds /\ NULL \notin PageIds /\ b \in PageIds
  BY <1>0, <1>1, NullIsNoPage DEF NodesOf, LeavesOf, InnersOf
<1>3. /\ LeavesOf(pg2) = LeavesOf(pg) /\ InnersOf(pg2) = InnersOf(pg) /\ NodesOf(pg2) = NodesOf(pg)
  BY DEF LeavesOf, InnersOf, NodesOf
<1>4. /\ InnerCovers(pg[p], lo[p], hi[p]) /\ lo[p] < hi[p] /\ lo[p] \in Int /\ hi[p] \in Int
      /\ pg[p].entries \in Seq(InternalEntry) /\ Ascending(pg[p].entries)
      /\ \A i \in Positions(pg[p]) : KidSound(pg, root, a, b, lo, hi, ht, p, i)
  BY <1>1, SoundFacts
<1>5. PICK j \in Positions(pg[p]) : Kid(pg[p], j) = a
  BY <1>1
<1>6. /\ lo[a] = EntryLow(pg[p], j, lo[p]) /\ hi[b] = EntryHigh(pg[p], j, hi[p])
      /\ ht[p] = ht[a] + 1
  <2>1. KidSound(pg, root, a, b, lo, hi, ht, p, j)
    BY <1>4
  <2> QED BY <2>1, <1>5 DEF KidSound, End
<1>7. lo[a] < lo[b] /\ lo[b] < hi[b] /\ lo[b] \in Int
  BY <1>0 DEF Tree, Ranges, Keys
<1>8. /\ m = j /\ lo[p] < lo[b] /\ lo[b] < hi[p]
      /\ \A i \in 1 .. Len(pg[p].entries) : pg[p].entries[i].key # lo[b]
  <2>1. EntryLow(pg[p], j, lo[p]) < lo[b] /\ lo[b] < EntryHigh(pg[p], j, hi[p])
    BY <1>6, <1>7
  <2>2. /\ InnerCovers(pg[p], lo[p], hi[p]) /\ lo[p] < hi[p] /\ lo[p] \in Int /\ hi[p] \in Int
        /\ lo[b] \in Int
    BY <1>4, <1>7
  <2> QED BY <2>1, <2>2, RouteInside
<1>9. ChildInserted(pg[p], pg2[p], e, m)
  <2> DEFINE node == pg[p]
             new == pg2[p]
  <2>1. new.left = node.left
    BY <1>2
  <2> HIDE DEF node, new
  <2>2. /\ node.entries \in Seq(InternalEntry) /\ Ascending(node.entries)
        /\ \A i \in 1 .. Len(node.entries) : node.entries[i].key # e.key
    BY <1>4, <1>8 DEF node
  <2>3. new.entries = InsertAt(node.entries, InternalFind(node, e.key) + 1, e)
    BY DEF node, new
  <2>4. ChildInserted(node, new, e, InternalFind(node, e.key) + 1)
    BY <2>1, <2>2, <2>3, InsertChild
  <2> QED BY <2>4 DEF node, new
<1>10. Inserted(pg[p], pg2[p], e, j, lo[p], hi[p])
  <2>1. ChildInserted(pg[p], pg2[p], e, j)
    BY <1>8, <1>9
  <2>2. lo[p] < e.key /\ e.key < hi[p]
    BY <1>8
  <2> QED BY <2>1, <2>2, <1>4, InsertCovers
<1>11. \A q \in PageIds : q # p => pg2[q].left = pg[q].left /\ pg2[q].entries = pg[q].entries
  OBVIOUS
<1>12. Ranges(pg2, lo, hi, ht)
  <2> SUFFICES ASSUME NEW q \in NodesOf(pg)
               PROVE  /\ lo[q] < hi[q]
                      /\ pg2[q].type = "LEAF" => ht[q] = 0 /\ LeafCovers(pg2[q], lo[q], hi[q])
                      /\ pg2[q].type = "INTERNAL" => ht[q] > 0 /\ InnerCovers(pg2[q], lo[q], hi[q])
    BY <1>3 DEF Ranges
  <2>1. /\ lo[q] < hi[q]
        /\ pg[q].type = "LEAF" => ht[q] = 0 /\ LeafCovers(pg[q], lo[q], hi[q])
        /\ pg[q].type = "INTERNAL" => ht[q] > 0 /\ InnerCovers(pg[q], lo[q], hi[q])
        /\ pg2[q].type = pg[q].type
    BY <1>2 DEF Tree, Ranges
  <2>2. CASE q = p
    <3>1. pg2[p].type = "INTERNAL" /\ InnerCovers(pg2[p], lo[p], hi[p])
      BY <1>1, <1>2, <1>10 DEF Inserted, InnersOf
    <3> QED BY <2>1, <2>2, <3>1
  <2>3. CASE q # p
    <3>1. /\ \A l, h : (LeafCovers(pg2[q], l, h) <=> LeafCovers(pg[q], l, h))
          /\ \A l, h : (InnerCovers(pg2[q], l, h) <=> InnerCovers(pg[q], l, h))
      BY <2>3, <1>2, <1>11, SameNodeFacts
    <3> QED BY <2>1, <3>1
  <2> QED BY <2>2, <2>3
<1>13. \A c \in NodesOf(pg) : End(NULL, NULL, hi, c) = hi[c]
  BY <1>2 DEF End
<1>14. AllKidsSound(pg2, root, NULL, NULL, lo, hi, ht)
  <2> SUFFICES ASSUME NEW q \in InnersOf(pg), NEW i \in Positions(pg2[q])
               PROVE  KidSound(pg2, root, NULL, NULL, lo, hi, ht, q, i)
    BY <1>3 DEF AllKidsSound
  <2>1. CASE q = p
    <3>1. ASSUME NEW x \in Positions(pg[p]), x # j, Kid(pg2[p], i) = Kid(pg[p], x),
                 EntryLow(pg2[p], i, lo[p]) = EntryLow(pg[p], x, lo[p]),
                 EntryHigh(pg2[p], i, hi[p]) = EntryHigh(pg[p], x, hi[p])
          PROVE  KidSound(pg2, root, NULL, NULL, lo, hi, ht, p, i)
      <4> DEFINE c == Kid(pg[p], x)
      <4>1. /\ c \in NodesOf(pg) /\ c # root /\ c # b /\ pg[c].parent = p /\ ht[p] = ht[c] + 1
            /\ lo[c] = EntryLow(pg[p], x, lo[p])
            /\ End(a, b, hi, c) = EntryHigh(pg[p], x, hi[p])
        BY <1>4 DEF KidSound
      <4>2. c # a
        <5> SUFFICES ASSUME Kid(pg[p], x) = Kid(pg[p], j) PROVE FALSE
          BY <1>5
        <5>1. x = j
          BY <1>1, <1>5, KidsDiffer
        <5> QED BY <5>1, <3>1
      <4>3. Kid(pg2[p], i) = c
        BY <3>1
      <4> HIDE DEF c
      <4>4. c \in PageIds /\ c # NULL /\ pg2[c].parent = p /\ c \in NodesOf(pg2)
        BY <4>1, <1>2, <1>3
      <4>5. End(NULL, NULL, hi, c) = EntryHigh(pg2[p], i, hi[p])
        BY <4>1, <4>2, <1>13, <3>1 DEF End
      <4> QED BY <3>1, <4>1, <4>3, <4>4, <4>5, IsSound
    <3>2. ASSUME Kid(pg2[p], i) = Kid(pg[p], j),
                 EntryLow(pg2[p], i, lo[p]) = EntryLow(pg[p], j, lo[p]),
                 EntryHigh(pg2[p], i, hi[p]) = e.key
          PROVE  KidSound(pg2, root, NULL, NULL, lo, hi, ht, p, i)
      <4>1. Kid(pg2[p], i) = a /\ a \in NodesOf(pg2) /\ pg2[a].parent = p
        BY <3>2, <1>0, <1>2, <1>3, <1>5
      <4>2. ht[p] = ht[a] + 1 /\ lo[a] = EntryLow(pg2[p], i, lo[p])
        BY <3>2, <1>6
      <4>3. End(NULL, NULL, hi, a) = EntryHigh(pg2[p], i, hi[p])
        BY <3>2, <1>0, <1>13
      <4> QED BY <4>1, <4>2, <4>3, <1>2, <1>0, NullIsNoPage, IsSound
    <3>3. ASSUME Kid(pg2[p], i) = e.right_child, EntryLow(pg2[p], i, lo[p]) = e.key,
                 EntryHigh(pg2[p], i, hi[p]) = EntryHigh(pg[p], j, hi[p])
          PROVE  KidSound(pg2, root, NULL, NULL, lo, hi, ht, p, i)
      <4>1. Kid(pg2[p], i) = b /\ b \in NodesOf(pg2) /\ pg2[b].parent = p
        BY <3>3, <1>0, <1>2, <1>3
      <4>2. ht[p] = ht[b] + 1 /\ lo[b] = EntryLow(pg2[p], i, lo[p])
        BY <3>3, <1>0, <1>6
      <4>3. End(NULL, NULL, hi, b) = EntryHigh(pg2[p], i, hi[p])
        BY <3>3, <1>0, <1>6, <1>13
      <4> QED BY <4>1, <4>2, <4>3, <1>2, <1>0, NullIsNoPage, IsSound
    <3> QED BY <2>1, <3>1, <3>2, <3>3, <1>10 DEF Inserted
  <2>2. CASE q # p
    <3>1. q \in PageIds /\ pg2[q].left = pg[q].left /\ pg2[q].entries = pg[q].entries
      BY <2>2, <1>11 DEF InnersOf
    <3>2. i \in Positions(pg[q])
      BY <3>1, SameNodeFacts
    <3> DEFINE c == Kid(pg[q], i)
    <3>3. /\ c \in NodesOf(pg) /\ c # root /\ c # b /\ pg[c].parent = q /\ ht[q] = ht[c] + 1
          /\ lo[c] = EntryLow(pg[q], i, lo[q])
          /\ End(a, b, hi, c) = EntryHigh(pg[q], i, hi[q])
      <4>1. KidSound(pg, root, a, b, lo, hi, ht, q, i)
        BY <3>2, SoundFacts
      <4> QED BY <4>1 DEF KidSound
    <3>4. /\ Kid(pg2[q], i) = c /\ EntryLow(pg2[q], i, lo[q]) = EntryLow(pg[q], i, lo[q])
          /\ EntryHigh(pg2[q], i, hi[q]) = EntryHigh(pg[q], i, hi[q])
      BY <3>1, SameNodeFacts
    <3> HIDE DEF c
    <3>5. c # a /\ c \in PageIds /\ c # NULL /\ c \in NodesOf(pg2)
      BY <3>3, <2>2, <1>2, <1>3
    <3>6. pg2[c].parent = q
      BY <3>3, <3>5
    <3>7. End(NULL, NULL, hi, c) = End(a, b, hi, c)
      BY <3>3, <3>5, <1>13 DEF End
    <3> QED BY <3>3, <3>4, <3>5, <3>6, <3>7, IsSound
  <2> QED BY <2>1, <2>2
<1>15. Places(pg2, root, NULL)
  <2> SUFFICES ASSUME NEW c \in NodesOf(pg), c # root
               PROVE  HasPlace(pg2, c)
    BY <1>3 DEF Places
  <2>0. c \in PageIds /\ p \in InnersOf(pg2)
    BY <1>1, <1>2, <1>3
  <2>1. CASE c = b
    <3>1. pg2[c].parent = p /\ \E i \in Positions(pg2[p]) : Kid(pg2[p], i) = b
      BY <2>0, <2>1, <1>10 DEF Inserted
    <3> QED BY <2>0, <2>1, <3>1 DEF HasPlace
  <2>2. CASE c # b
    <3> DEFINE q == pg[c].parent
    <3>1. q \in InnersOf(pg) /\ \E i \in Positions(pg[q]) : Kid(pg[q], i) = c
      BY <2>2, PlaceFacts
    <3>2. pg2[c].parent = q
      BY <2>0, <2>2
    <3> HIDE DEF q
    <3>3. q \in PageIds /\ q \in InnersOf(pg2)
      BY <3>1, <1>3 DEF InnersOf
    <3>4. \E i \in Positions(pg2[q]) : Kid(pg2[q], i) = c
      <4>1. CASE q = p
        BY SMTT(30), <3>1, <4>1, <1>10 DEF Inserted
      <4>2. CASE q # p
        <5>1. Positions(pg2[q]) = Positions(pg[q]) /\ \A i : Kid(pg2[q], i) = Kid(pg[q], i)
          BY <4>2, <3>3, <1>11, SameNodeFacts
        <5> QED BY <3>1, <5>1
      <4> QED BY <4>1, <4>2
    <3> QED BY <3>2, <3>3, <3>4 DEF HasPlace
  <2> QED BY <2>1, <2>2
<1>16. RootSound(pg2, root, NULL, NULL, lo, hi, ht)
  <2>1. /\ root \in NodesOf(pg) /\ pg[root].parent = NULL /\ lo[root] = 0
        /\ End(a, b, hi, root) = MaxKey + 1 /\ \A q \in NodesOf(pg) : ht[q] <= ht[root]
    BY DEF Tree, RootSound
  <2>2. pg2[root].parent = NULL /\ End(NULL, NULL, hi, root) = MaxKey + 1
    BY <2>1, <1>0, <1>2, <1>13 DEF End
  <2> QED BY <2>1, <2>2, <1>3 DEF RootSound
<1>17. HalvesSound(pg2, root, NULL, NULL, lo, hi, ht)
  BY DEF HalvesSound
<1> QED BY <1>12, <1>14, <1>15, <1>16, <1>17 DEF Tree, Typed

(* Page y of pg2 is a new root above root and its right half b; the other  *)
(* pages have what they had, but for the parent of those two.              *)
RootGrown(pg, pg2, root, b, y, e) ==
  /\ pg2 \in [PageIds -> Node]
  /\ pg2[y].type = "INTERNAL" /\ pg2[y].parent = NULL /\ pg2[y].left = root
  /\ pg2[y].entries = <<e>>
  /\ \A q \in PageIds : q # y =>
       /\ pg2[q].type = pg[q].type /\ pg2[q].left = pg[q].left
       /\ pg2[q].entries = pg[q].entries
       /\ pg2[q].parent = IF q \in {root, b} THEN y ELSE pg[q].parent

(* A new root y above the old one and its right half b. *)
LEMMA NewRoot ==
  ASSUME NEW pg, NEW root, NEW b, NEW lo, NEW hi, NEW ht, NEW y \in PageIds, NEW e, NEW pg2,
         Tree(pg, root, root, b, lo, hi, ht), lo[b] \in Keys, y \notin NodesOf(pg),
         e \in InternalEntry, e.key = lo[b], e.right_child = b,
         RootGrown(pg, pg2, root, b, y, e)
  PROVE  \E l, h, t : /\ Tree(pg2, y, NULL, NULL, l, h, t)
                      /\ \A q \in PageIds : q # y => l[q] = lo[q] /\ h[q] = hi[q]
<1> USE DEF RootGrown
<1> DEFINE lo2 == [lo EXCEPT ![y] = 0]
           hi2 == [hi EXCEPT ![y] = MaxKey + 1]
           ht2 == [ht EXCEPT ![y] = ht[root] + 1]
<1>0. /\ root \in NodesOf(pg) /\ lo[root] = 0 /\ End(root, b, hi, root) = MaxKey + 1
      /\ \A p \in NodesOf(pg) : ht[p] <= ht[root]
  BY DEF Tree, RootSound
<1>1. NodesOf(pg) \subseteq PageIds /\ InnersOf(pg) \subseteq NodesOf(pg) /\ NULL \notin PageIds
  BY NullIsNoPage DEF NodesOf, LeavesOf, InnersOf
<1>2. /\ b \in NodesOf(pg) /\ b # root /\ ht[b] = ht[root] /\ hi[root] = lo[b]
      /\ hi[b] = MaxKey + 1
  BY <1>0, <1>1 DEF Tree, HalvesSound, End
<1>3. /\ lo2 \in [PageIds -> Nat] /\ hi2 \in [PageIds -> Nat] /\ ht2 \in [PageIds -> Nat]
      /\ lo2[y] = 0 /\ hi2[y] = MaxKey + 1 /\ ht2[y] = ht[root] + 1 /\ ht[root] \in Nat
      /\ \A p \in PageIds : p # y => lo2[p] = lo[p] /\ hi2[p] = hi[p] /\ ht2[p] = ht[p]
  BY <1>0, <1>1, TreeAssumption DEF Tree, Typed
<1> HIDE DEF lo2, hi2, ht2
<1>4. \A p \in NodesOf(pg) : p \in PageIds /\ p # y /\ p # NULL
  BY <1>1
<1>5. /\ LeavesOf(pg2) = LeavesOf(pg) /\ InnersOf(pg2) = InnersOf(pg) \cup {y}
      /\ NodesOf(pg2) = NodesOf(pg) \cup {y}
  <2>1. y \notin LeavesOf(pg) /\ y \notin InnersOf(pg)
    BY DEF NodesOf
  <2>2. LeavesOf(pg2) = LeavesOf(pg) /\ InnersOf(pg2) = InnersOf(pg) \cup {y}
    BY <2>1 DEF LeavesOf, InnersOf
  <2> QED BY <2>2 DEF NodesOf
<1>6. \A p \in PageIds : p # y => pg2[p].left = pg[p].left /\ pg2[p].entries = pg[p].entries
                                  /\ pg2[p].type = pg[p].type
  OBVIOUS
<1>7. /\ pg2[y].entries \in Seq(InternalEntry) /\ Len(pg2[y].entries) = 1
      /\ pg2[y].entries[1] = e /\ Positions(pg2[y]) = 1 .. 2
  <2>1. <<e>> \in Seq(InternalEntry) /\ Len(<<e>>) = 1 /\ <<e>>[1] = e
    OBVIOUS
  <2> QED BY <2>1 DEF Positions
<1>8. e.key \in Int /\ 0 < e.key /\ e.key < MaxKey + 1 /\ MaxKey \in Nat
  BY TreeAssumption DEF Keys
<1>9. InnerCovers(pg2[y], 0, MaxKey + 1)
  BY <1>7, <1>8 DEF InnerCovers, Ascending
<1>10. Ranges(pg2, lo2, hi2, ht2)
  <2> SUFFICES ASSUME NEW p \in NodesOf(pg2)
               PROVE  /\ lo2[p] < hi2[p]
                      /\ pg2[p].type = "LEAF" => ht2[p] = 0 /\ LeafCovers(pg2[p], lo2[p], hi2[p])
                      /\ pg2[p].type = "INTERNAL" => ht2[p] > 0 /\ InnerCovers(pg2[p], lo2[p], hi2[p])
    BY DEF Ranges
  <2>1. CASE p = y
    BY <2>1, <1>3, <1>8, <1>9
  <2>2. CASE p # y
    <3>1. p \in NodesOf(pg) /\ p \in PageIds
      BY <2>2, <1>4, <1>5
    <3>2. /\ lo[p] < hi[p]
          /\ pg[p].type = "LEAF" => ht[p] = 0 /\ LeafCovers(pg[p], lo[p], hi[p])
          /\ pg[p].type = "INTERNAL" => ht[p] > 0 /\ InnerCovers(pg[p], lo[p], hi[p])
      BY <3>1 DEF Tree, Ranges
    <3>3. lo2[p] = lo[p] /\ hi2[p] = hi[p] /\ ht2[p] = ht[p]
      BY <3>1, <2>2, <1>3
    <3>4. pg2[p].type = pg[p].type /\ pg2[p].left = pg[p].left /\ pg2[p].entries = pg[p].entries
      BY <3>1, <2>2
    <3>5. /\ \A l, h : (LeafCovers(pg2[p], l, h) <=> LeafCovers(pg[p], l, h))
          /\ \A l, h : (InnerCovers(pg2[p], l, h) <=> InnerCovers(pg[p], l, h))
      BY <3>4, SameNodeFacts
    <3> QED BY <3>2, <3>3, <3>4, <3>5
  <2> QED BY <2>1, <2>2
<1>11. \A c \in NodesOf(pg) : End(NULL, NULL, hi2, c) = hi[c]
  BY <1>3, <1>4 DEF End
<1>12. Kid(pg2[y], 1) = root /\ Kid(pg2[y], 2) = b
  BY <1>7 DEF Kid
<1>13. AllKidsSound(pg2, y, NULL, NULL, lo2, hi2, ht2)
  <2> SUFFICES ASSUME NEW p \in InnersOf(pg2), NEW i \in Positions(pg2[p])
               PROVE  KidSound(pg2, y, NULL, NULL, lo2, hi2, ht2, p, i)
    BY DEF AllKidsSound
  <2>1. CASE p = y /\ i = 1
    <3>1. /\ EntryLow(pg2[y], 1, lo2[y]) = lo2[root]
          /\ EntryHigh(pg2[y], 1, hi2[y]) = End(NULL, NULL, hi2, root)
      BY <1>0, <1>2, <1>3, <1>4, <1>7, <1>11 DEF EntryLow, EntryHigh
    <3>2. /\ pg2[root].parent = y /\ root \in NodesOf(pg2) /\ ht2[y] = ht2[root] + 1
          /\ root # y /\ root # NULL
      BY <1>0, <1>3, <1>4, <1>5
    <3> QED BY <2>1, <3>1, <3>2, <1>12, IsSound
  <2>2. CASE p = y /\ i = 2
    <3>1. /\ EntryLow(pg2[y], 2, lo2[y]) = lo2[b]
          /\ EntryHigh(pg2[y], 2, hi2[y]) = End(NULL, NULL, hi2, b)
      BY <1>2, <1>3, <1>4, <1>7, <1>11 DEF EntryLow, EntryHigh
    <3>2. /\ pg2[b].parent = y /\ b \in NodesOf(pg2) /\ ht2[y] = ht2[b] + 1
          /\ b # y /\ b # NULL
      BY <1>2, <1>3, <1>4, <1>5
    <3> QED BY <2>2, <3>1, <3>2, <1>12, IsSound
  <2>3. CASE p # y
    <3>1. p \in InnersOf(pg) /\ p \in PageIds
      BY <2>3, <1>1, <1>5
    <3>2. pg2[p].left = pg[p].left /\ pg2[p].entries = pg[p].entries
      BY <2>3, <3>1
    <3>3. i \in Positions(pg[p])
      BY <3>2, SameNodeFacts
    <3> DEFINE c == Kid(pg[p], i)
    <3>4. KidSound(pg, root, root, b, lo, hi, ht, p, i)
      BY <3>1, <3>3, SoundFacts
    <3>5. /\ c \in NodesOf(pg) /\ c # root /\ c # b /\ pg[c].parent = p /\ ht[p] = ht[c] + 1
          /\ lo[c] = EntryLow(pg[p], i, lo[p])
          /\ End(root, b, hi, c) = EntryHigh(pg[p], i, hi[p])
      BY <3>4 DEF KidSound
    <3>6. /\ Kid(pg2[p], i) = c /\ EntryLow(pg2[p], i, lo[p]) = EntryLow(pg[p], i, lo[p])
          /\ EntryHigh(pg2[p], i, hi[p]) = EntryHigh(pg[p], i, hi[p])
      BY <3>2, SameNodeFacts
    <3> HIDE DEF c
    <3>7. c # y /\ c # NULL /\ c \in PageIds /\ c \in NodesOf(pg2)
      BY <3>5, <1>4, <1>5
    <3>8. pg2[c].parent = p
      BY <3>5, <3>7
    <3>9. lo2[c] = lo[c] /\ lo2[p] = lo[p] /\ ht2[c] = ht[c] /\ ht2[p] = ht[p] /\ hi2[p] = hi[p]
      BY <2>3, <3>1, <3>7, <1>3
    <3>10. End(NULL, NULL, hi2, c) = End(root, b, hi, c)
      BY <3>5, <1>11 DEF End
    <3> QED BY <3>5, <3>6, <3>7, <3>8, <3>9, <3>10, IsSound
  <2>4. p # y \/ i \in 1 .. 2
    BY <1>7
  <2> QED BY <2>1, <2>2, <2>3, <2>4
<1>14. Places(pg2, y, NULL)
  <2> SUFFICES ASSUME NEW c \in NodesOf(pg)
               PROVE  HasPlace(pg2, c)
    BY <1>5 DEF Places
  <2>1. CASE c \in {root, b}
    <3>1. pg2[c].parent = y /\ y \in InnersOf(pg2)
      BY <2>1, <1>4, <1>5
    <3>2. \E i \in Positions(pg2[y]) : Kid(pg2[y], i) = c
      BY <2>1, <1>7, <1>12
    <3> QED BY <3>1, <3>2 DEF HasPlace
  <2>2. CASE c \notin {root, b}
    <3> DEFINE q == pg[c].parent
    <3>1. q \in InnersOf(pg) /\ \E i \in Positions(pg[q]) : Kid(pg[q], i) = c
      BY <2>2, PlaceFacts
    <3>2. pg2[c].parent = q
      BY <2>2, <1>4
    <3> HIDE DEF q
    <3>3. q \in PageIds /\ q # y /\ q \in InnersOf(pg2)
      BY <3>1, <1>1, <1>4, <1>5
    <3>4. Positions(pg2[q]) = Positions(pg[q]) /\ \A i : Kid(pg2[q], i) = Kid(pg[q], i)
      BY <3>3, <1>6, SameNodeFacts
    <3> QED BY <3>1, <3>2, <3>3, <3>4 DEF HasPlace
  <2> QED BY <2>1, <2>2
<1>15. RootSound(pg2, y, NULL, NULL, lo2, hi2, ht2)
  <2>1. End(NULL, NULL, hi2, y) = MaxKey + 1
    BY <1>1, <1>3 DEF End
  <2>2. \A p \in NodesOf(pg2) : ht2[p] <= ht2[y]
    <3>1. \A p \in NodesOf(pg) : ht[p] \in Nat
      BY <1>1 DEF Tree, Typed
    <3> QED BY <3>1, <1>0, <1>3, <1>4, <1>5
  <2> QED BY <2>1, <2>2, <1>3, <1>5 DEF RootSound
<1>16. HalvesSound(pg2, y, NULL, NULL, lo2, hi2, ht2)
  BY DEF HalvesSound
<1>17. Tree(pg2, y, NULL, NULL, lo2, hi2, ht2)
  BY <1>3, <1>10, <1>13, <1>14, <1>15, <1>16 DEF Tree, Typed
<1> QED BY <1>3, <1>17

(* Two neighbouring children and the separator between them. *)
Neighbours(pg, root, lo, hi, ht, p, m, x, y) ==
  /\ m \in Positions(pg[p]) /\ m + 1 \in Positions(pg[p])
  /\ x = Kid(pg[p], m) /\ y = Kid(pg[p], m + 1) /\ x # y
  /\ x \in NodesOf(pg) /\ y \in NodesOf(pg) /\ x # root /\ y # root
  /\ pg[x].parent = p /\ pg[y].parent = p
  /\ ht[p] = ht[x] + 1 /\ ht[p] = ht[y] + 1
  /\ lo[x] = EntryLow(pg[p], m, lo[p]) /\ hi[x] = EntryHigh(pg[p], m, hi[p])
  /\ lo[y] = EntryLow(pg[p], m + 1, lo[p]) /\ hi[y] = EntryHigh(pg[p], m + 1, hi[p])
  /\ hi[x] = lo[y]
  /\ \A i \in Positions(pg[p]) : i # m /\ i # m + 1 => Kid(pg[p], i) # x /\ Kid(pg[p], i) # y

(* Two neighbouring children share the limit between their intervals. *)
LEMMA NeighbourFacts ==
  ASSUME NEW pg, NEW root, NEW lo, NEW hi, NEW ht, Tree(pg, root, NULL, NULL, lo, hi, ht),
         NEW p \in InnersOf(pg), NEW m \in 1 .. Len(pg[p].entries)
  PROVE  Neighbours(pg, root, lo, hi, ht, p, m, Kid(pg[p], m), Kid(pg[p], m + 1))
<1> DEFINE x == Kid(pg[p], m)
           y == Kid(pg[p], m + 1)
<1>1. /\ pg[p].entries \in Seq(InternalEntry) /\ Len(pg[p].entries) \in Nat
      /\ \A i \in Positions(pg[p]) : KidSound(pg, root, NULL, NULL, lo, hi, ht, p, i)
  BY SoundFacts, EntryFacts
<1>2. m \in Positions(pg[p]) /\ m + 1 \in Positions(pg[p]) /\ m # m + 1 /\ m \in Int
  BY <1>1 DEF Positions
<1>3. \A i \in Positions(pg[p]) : Kid(pg[p], i) = x => i = m
  BY <1>2, KidsDiffer
<1>4. \A i \in Positions(pg[p]) : Kid(pg[p], i) = y => i = m + 1
  BY <1>2, KidsDiffer
<1>5. KidSound(pg, root, NULL, NULL, lo, hi, ht, p, m)
  BY <1>1, <1>2
<1>6. KidSound(pg, root, NULL, NULL, lo, hi, ht, p, m + 1)
  BY <1>1, <1>2
<1>7. /\ x \in NodesOf(pg) /\ x # root /\ pg[x].parent = p /\ ht[p] = ht[x] + 1
      /\ lo[x] = EntryLow(pg[p], m, lo[p]) /\ End(NULL, NULL, hi, x) = EntryHigh(pg[p], m, hi[p])
  BY <1>5 DEF KidSound
<1>8. /\ y \in NodesOf(pg) /\ y # root /\ pg[y].parent = p /\ ht[p] = ht[y] + 1
      /\ lo[y] = EntryLow(pg[p], m + 1, lo[p])
      /\ End(NULL, NULL, hi, y) = EntryHigh(pg[p], m + 1, hi[p])
  BY <1>6 DEF KidSound
<1> HIDE DEF x, y
<1>9. x # NULL /\ y # NULL
  BY <1>7, <1>8, NullIsNoPage DEF NodesOf, LeavesOf, InnersOf
<1>10. hi[x] = EntryHigh(pg[p], m, hi[p]) /\ hi[y] = EntryHigh(pg[p], m + 1, hi[p])
  BY <1>7, <1>8, <1>9 DEF End
<1>11. x # y
  BY <1>2, <1>3, <1>4 DEF x
<1>12. EntryHigh(pg[p], m, hi[p]) = EntryLow(pg[p], m + 1, lo[p])
  BY <1>1, <1>2 DEF EntryHigh, EntryLow
<1>13. x = Kid(pg[p], m) /\ y = Kid(pg[p], m + 1)
  BY DEF x, y
<1>14. Neighbours(pg, root, lo, hi, ht, p, m, x, y)
  BY <1>2, <1>3, <1>4, <1>7, <1>8, <1>10, <1>11, <1>12, <1>13 DEF Neighbours
<1> QED BY <1>14 DEF x, y

(* Another key for a separator. *)
Rekey(entries, m, k) == [entries EXCEPT ![m] = [@ EXCEPT !.key = k]]

(* A rekeyed array has its type and its length. *)
LEMMA RekeyFacts ==
  ASSUME NEW s \in Seq(InternalEntry), NEW m \in 1 .. Len(s), NEW k \in Keys
  PROVE  Rekey(s, m, k) \in Seq(InternalEntry) /\ Len(Rekey(s, m, k)) = Len(s)
<1>1. s[m] \in InternalEntry
  BY EntryFacts
<1>2. [s[m] EXCEPT !.key = k] \in InternalEntry
  BY <1>1 DEF InternalEntry
<1> QED BY <1>2, ExceptSeq DEF Rekey

(* Two neighbouring leaves share their keys anew: k is their new border.   *)
LEMMA Borrow ==
  ASSUME NEW pg, NEW root, NEW lo, NEW hi, NEW ht, Tree(pg, root, NULL, NULL, lo, hi, ht),
         NEW p \in InnersOf(pg), NEW m \in 1 .. Len(pg[p].entries),
         NEW x \in LeavesOf(pg), NEW y \in LeavesOf(pg),
         x = Kid(pg[p], m), y = Kid(pg[p], m + 1),
         NEW k \in Keys, lo[x] < k, k < hi[y], NEW pg2 \in [PageIds -> Node],
         LeafCovers(pg2[x], lo[x], k), LeafCovers(pg2[y], k, hi[y]),
         pg2[p].entries = Rekey(pg[p].entries, m, k),
         \A q \in PageIds :
           /\ pg2[q].type = pg[q].type /\ pg2[q].left = pg[q].left
           /\ pg2[q].parent = pg[q].parent
           /\ q # p /\ q # x /\ q # y => pg2[q].entries = pg[q].entries
  PROVE  Tree(pg2, root, NULL, NULL, [lo EXCEPT ![y] = k], [hi EXCEPT ![x] = k], ht)
<1> DEFINE lo2 == [lo EXCEPT ![y] = k]
           hi2 == [hi EXCEPT ![x] = k]
<1>1. Neighbours(pg, root, lo, hi, ht, p, m, x, y)
  BY NeighbourFacts
<1>2. /\ NodesOf(pg) \subseteq PageIds /\ InnersOf(pg) \subseteq NodesOf(pg)
      /\ LeavesOf(pg) \subseteq NodesOf(pg) /\ NULL \notin PageIds
  BY NullIsNoPage DEF NodesOf, LeavesOf, InnersOf
<1>3. p \notin LeavesOf(pg) /\ x \notin InnersOf(pg) /\ y \notin InnersOf(pg) /\ x # y
  BY <1>1 DEF LeavesOf, InnersOf, Neighbours
<1>4. /\ LeavesOf(pg2) = LeavesOf(pg) /\ InnersOf(pg2) = InnersOf(pg) /\ NodesOf(pg2) = NodesOf(pg)
  BY DEF LeavesOf, InnersOf, NodesOf
<1>5. /\ lo2 \in [PageIds -> Nat] /\ hi2 \in [PageIds -> Nat] /\ lo2[y] = k /\ hi2[x] = k
      /\ \A q \in PageIds : q # y => lo2[q] = lo[q]
      /\ \A q \in PageIds : q # x => hi2[q] = hi[q]
  BY <1>2 DEF Tree, Typed, Keys
<1> HIDE DEF lo2, hi2
<1>6. /\ InnerCovers(pg[p], lo[p], hi[p]) /\ lo[p] < hi[p] /\ lo[p] \in Int /\ hi[p] \in Int
      /\ \A i \in Positions(pg[p]) : KidSound(pg, root, NULL, NULL, lo, hi, ht, p, i)
      /\ p \in PageIds
  BY SoundFacts
<1>7. Rekeyed(pg[p], pg2[p], m, k, lo[p], hi[p])
  <2> DEFINE node == pg[p]
             new == pg2[p]
             l == lo[p]
             h == hi[p]
  <2>1. new.left = node.left /\ InnerCovers(node, l, h) /\ l < h /\ l \in Int /\ h \in Int
    BY <1>6
  <2>2. new.entries = Rekey(node.entries, m, k)
    OBVIOUS
  <2>3. EntryLow(node, m, l) < k /\ k < EntryHigh(node, m + 1, h)
    BY <1>1 DEF Neighbours
  <2>4. m \in 1 .. Len(node.entries)
    OBVIOUS
  <2> HIDE DEF node, new, l, h
  <2>6. new.entries = [node.entries EXCEPT ![m] = [@ EXCEPT !.key = k]]
    BY <2>2 DEF Rekey
  <2>5. Rekeyed(node, new, m, k, l, h)
    BY <2>1, <2>3, <2>4, <2>6, RekeyCovers
  <2> QED BY <2>5 DEF node, new, l, h
<1>8. \A q \in PageIds : q # p /\ q # x /\ q # y =>
        pg2[q].left = pg[q].left /\ pg2[q].entries = pg[q].entries
  OBVIOUS
<1>9. Ranges(pg2, lo2, hi2, ht)
  <2> SUFFICES ASSUME NEW q \in NodesOf(pg)
               PROVE  /\ lo2[q] < hi2[q]
                      /\ pg2[q].type = "LEAF" => ht[q] = 0 /\ LeafCovers(pg2[q], lo2[q], hi2[q])
                      /\ pg2[q].type = "INTERNAL" => ht[q] > 0 /\ InnerCovers(pg2[q], lo2[q], hi2[q])
    BY <1>4 DEF Ranges
  <2>1. /\ lo[q] < hi[q]
        /\ pg[q].type = "LEAF" => ht[q] = 0 /\ LeafCovers(pg[q], lo[q], hi[q])
        /\ pg[q].type = "INTERNAL" => ht[q] > 0 /\ InnerCovers(pg[q], lo[q], hi[q])
        /\ pg2[q].type = pg[q].type /\ q \in PageIds
    BY <1>2 DEF Tree, Ranges
  <2>2. CASE q = x
    <3>1. pg[q].type = "LEAF" /\ pg[q].type # "INTERNAL"
      BY <2>2 DEF LeavesOf
    <3>2. lo2[q] = lo[q] /\ hi2[q] = k
      BY <2>1, <2>2, <1>3, <1>5
    <3> QED BY <2>1, <2>2, <3>1, <3>2
  <2>3. CASE q = y
    <3>1. pg[q].type = "LEAF" /\ pg[q].type # "INTERNAL"
      BY <2>3 DEF LeavesOf
    <3>2. lo2[q] = k /\ hi2[q] = hi[q]
      BY <2>1, <2>3, <1>3, <1>5
    <3> QED BY <2>1, <2>3, <3>1, <3>2
  <2>4. CASE q = p
    <3>1. pg[q].type # "LEAF" /\ InnerCovers(pg2[q], lo[q], hi[q])
      BY <2>4, <1>7 DEF Rekeyed, InnersOf
    <3>2. lo2[q] = lo[q] /\ hi2[q] = hi[q]
      BY <2>1, <2>4, <1>3, <1>5
    <3> QED BY <2>1, <3>1, <3>2
  <2>5. CASE q # p /\ q # x /\ q # y
    <3>1. /\ \A l, h : (LeafCovers(pg2[q], l, h) <=> LeafCovers(pg[q], l, h))
          /\ \A l, h : (InnerCovers(pg2[q], l, h) <=> InnerCovers(pg[q], l, h))
      BY <2>1, <2>5, <1>8, SameNodeFacts
    <3>2. lo2[q] = lo[q] /\ hi2[q] = hi[q]
      BY <2>1, <2>5, <1>5
    <3> QED BY <2>1, <3>1, <3>2
  <2> QED BY <2>2, <2>3, <2>4, <2>5
<1>10. \A c \in NodesOf(pg) : End(NULL, NULL, hi2, c) = hi2[c] /\ End(NULL, NULL, hi, c) = hi[c]
  BY <1>2 DEF End
<1>11. AllKidsSound(pg2, root, NULL, NULL, lo2, hi2, ht)
  <2> SUFFICES ASSUME NEW q \in InnersOf(pg), NEW i \in Positions(pg2[q])
               PROVE  KidSound(pg2, root, NULL, NULL, lo2, hi2, ht, q, i)
    BY <1>4 DEF AllKidsSound
  <2> DEFINE c == Kid(pg[q], i)
  <2>1. CASE q = p
    <3>1. /\ i \in Positions(pg[p]) /\ Kid(pg2[p], i) = Kid(pg[p], i)
          /\ EntryLow(pg2[p], i, lo[p]) = IF i = m + 1 THEN k ELSE EntryLow(pg[p], i, lo[p])
          /\ EntryHigh(pg2[p], i, hi[p]) = IF i = m THEN k ELSE EntryHigh(pg[p], i, hi[p])
      BY <2>1, <1>7 DEF Rekeyed
    <3>2. KidSound(pg, root, NULL, NULL, lo, hi, ht, p, i)
      BY <3>1, <1>6
    <3>3. /\ c \in NodesOf(pg) /\ c # root /\ pg[c].parent = p /\ ht[p] = ht[c] + 1
          /\ lo[c] = EntryLow(pg[p], i, lo[p])
          /\ End(NULL, NULL, hi, c) = EntryHigh(pg[p], i, hi[p])
      BY <2>1, <3>2 DEF KidSound
    <3>4. (i = m <=> c = x) /\ (i = m + 1 <=> c = y)
      BY <2>1, <3>1, <1>1 DEF Neighbours
    <3>5. Kid(pg2[p], i) = c
      BY <2>1, <3>1
    <3> HIDE DEF c
    <3>6. c \in PageIds /\ c # NULL /\ c \in NodesOf(pg2) /\ pg2[c].parent = p
      BY <3>3, <1>2, <1>4
    <3>7. lo2[p] = lo[p] /\ hi2[p] = hi[p]
      BY <1>3, <1>5, <1>6
    <3>8. lo2[c] = EntryLow(pg2[p], i, lo2[p])
      BY <3>1, <3>3, <3>4, <3>6, <3>7, <1>5
    <3>9. End(NULL, NULL, hi2, c) = EntryHigh(pg2[p], i, hi2[p])
      BY <3>1, <3>3, <3>4, <3>6, <3>7, <1>5, <1>10
    <3> QED BY <2>1, <3>3, <3>5, <3>6, <3>8, <3>9, IsSound
  <2>2. CASE q # p
    <3>1. q \in PageIds /\ pg2[q].left = pg[q].left /\ pg2[q].entries = pg[q].entries /\ q # x /\ q # y
      BY <2>2, <1>2, <1>3, <1>8
    <3>2. i \in Positions(pg[q])
      BY <3>1, SameNodeFacts
    <3>3. KidSound(pg, root, NULL, NULL, lo, hi, ht, q, i)
      BY <3>2, SoundFacts
    <3>4. /\ c \in NodesOf(pg) /\ c # root /\ pg[c].parent = q /\ ht[q] = ht[c] + 1
          /\ lo[c] = EntryLow(pg[q], i, lo[q])
          /\ End(NULL, NULL, hi, c) = EntryHigh(pg[q], i, hi[q])
      BY <3>3 DEF KidSound
    <3>5. /\ Kid(pg2[q], i) = c /\ EntryLow(pg2[q], i, lo[q]) = EntryLow(pg[q], i, lo[q])
          /\ EntryHigh(pg2[q], i, hi[q]) = EntryHigh(pg[q], i, hi[q])
      BY <3>1, SameNodeFacts
    <3> HIDE DEF c
    <3>6. c # x /\ c # y
      BY <3>4, <2>2, <1>1 DEF Neighbours
    <3>7. c \in PageIds /\ c # NULL /\ c \in NodesOf(pg2) /\ pg2[c].parent = q
      BY <3>4, <1>2, <1>4
    <3>8. /\ lo2[c] = lo[c] /\ lo2[q] = lo[q] /\ hi2[q] = hi[q]
          /\ End(NULL, NULL, hi2, c) = End(NULL, NULL, hi, c)
      <4>1. lo2[c] = lo[c] /\ lo2[q] = lo[q] /\ hi2[q] = hi[q] /\ hi2[c] = hi[c]
        BY <3>1, <3>6, <3>7, <1>5
      <4> QED BY <4>1, <3>4, <1>10
    <3> QED BY <3>4, <3>5, <3>7, <3>8, IsSound
  <2> QED BY <2>1, <2>2
<1>12. Places(pg2, root, NULL)
  <2> SUFFICES ASSUME NEW c \in NodesOf(pg), c # root
               PROVE  HasPlace(pg2, c)
    BY <1>4 DEF Places
  <2> DEFINE q == pg[c].parent
  <2>1. c # NULL /\ c \in PageIds
    BY <1>2
  <2>2. q \in InnersOf(pg) /\ \E i \in Positions(pg[q]) : Kid(pg[q], i) = c
    BY <2>1, PlaceFacts
  <2>3. pg2[c].parent = q
    BY <2>1
  <2> HIDE DEF q
  <2>4. q \in PageIds /\ q \in InnersOf(pg2) /\ q # x /\ q # y
    BY <2>2, <1>2, <1>3, <1>4
  <2>5. \E i \in Positions(pg2[q]) : Kid(pg2[q], i) = c
    <3>1. CASE q = p
      BY <3>1, <2>2, <1>7 DEF Rekeyed
    <3>2. CASE q # p
      <4>1. Positions(pg2[q]) = Positions(pg[q]) /\ \A i : Kid(pg2[q], i) = Kid(pg[q], i)
        BY <3>2, <2>4, <1>8, SameNodeFacts
      <4> QED BY <4>1, <2>2
    <3> QED BY <3>1, <3>2
  <2> QED BY <2>3, <2>4, <2>5 DEF HasPlace
<1>13. RootSound(pg2, root, NULL, NULL, lo2, hi2, ht)
  <2>1. /\ root \in NodesOf(pg) /\ pg[root].parent = NULL /\ lo[root] = 0
        /\ End(NULL, NULL, hi, root) = MaxKey + 1 /\ \A q \in NodesOf(pg) : ht[q] <= ht[root]
    BY DEF Tree, RootSound
  <2>2. root \in PageIds /\ root # x /\ root # y
    BY <2>1, <1>1, <1>2 DEF Neighbours
  <2>3. lo2[root] = 0 /\ End(NULL, NULL, hi2, root) = MaxKey + 1 /\ pg2[root].parent = NULL
    BY <2>1, <2>2, <1>5, <1>10
  <2> QED BY <2>1, <2>3, <1>4 DEF RootSound
<1>14. HalvesSound(pg2, root, NULL, NULL, lo2, hi2, ht)
  BY DEF HalvesSound
<1> QED BY <1>5, <1>9, <1>11, <1>12, <1>13, <1>14 DEF Tree, Typed, lo2, hi2

(* Leaf y is merged into its left neighbour x and freed. *)
LEMMA MergeLeaves ==
  ASSUME NEW pg, NEW root, NEW lo, NEW hi, NEW ht, Tree(pg, root, NULL, NULL, lo, hi, ht),
         NEW p \in InnersOf(pg), NEW m \in 1 .. Len(pg[p].entries),
         NEW x \in LeavesOf(pg), NEW y \in LeavesOf(pg),
         x = Kid(pg[p], m), y = Kid(pg[p], m + 1),
         NEW pg2 \in [PageIds -> Node],
         LeafCovers(pg2[x], lo[x], hi[y]), pg2[y].type = "FREE",
         pg2[p].entries = RemoveAt(pg[p].entries, m),
         \A q \in PageIds : q # y =>
           /\ pg2[q].type = pg[q].type /\ pg2[q].left = pg[q].left
           /\ pg2[q].parent = pg[q].parent
           /\ q # p /\ q # x => pg2[q].entries = pg[q].entries
  PROVE  Tree(pg2, root, NULL, NULL, lo, [hi EXCEPT ![x] = hi[y]], ht)
<1> DEFINE hi2 == [hi EXCEPT ![x] = hi[y]]
<1>1. Neighbours(pg, root, lo, hi, ht, p, m, x, y)
  BY NeighbourFacts
<1>2. /\ NodesOf(pg) \subseteq PageIds /\ InnersOf(pg) \subseteq NodesOf(pg)
      /\ LeavesOf(pg) \subseteq NodesOf(pg) /\ NULL \notin PageIds
  BY NullIsNoPage DEF NodesOf, LeavesOf, InnersOf
<1>3. p \notin LeavesOf(pg) /\ x \notin InnersOf(pg) /\ y \notin InnersOf(pg) /\ x # y
  BY <1>1 DEF LeavesOf, InnersOf, Neighbours
<1>4. /\ LeavesOf(pg2) = LeavesOf(pg) \ {y} /\ InnersOf(pg2) = InnersOf(pg)
      /\ NodesOf(pg2) = NodesOf(pg) \ {y}
  <2>1. LeavesOf(pg2) = LeavesOf(pg) \ {y} /\ InnersOf(pg2) = InnersOf(pg)
    BY <1>3 DEF LeavesOf, InnersOf
  <2> QED BY <2>1, <1>3 DEF NodesOf
<1>5. /\ hi2 \in [PageIds -> Nat] /\ hi2[x] = hi[y] /\ hi[y] \in Nat /\ lo[x] \in Nat
      /\ lo[y] \in Nat /\ hi[x] \in Nat
      /\ \A q \in PageIds : q # x => hi2[q] = hi[q]
  BY <1>2 DEF Tree, Typed
<1> HIDE DEF hi2
<1>6. /\ InnerCovers(pg[p], lo[p], hi[p]) /\ lo[p] < hi[p] /\ lo[p] \in Int /\ hi[p] \in Int
      /\ pg[p].entries \in Seq(InternalEntry) /\ Ascending(pg[p].entries)
      /\ \A i \in Positions(pg[p]) : KidSound(pg, root, NULL, NULL, lo, hi, ht, p, i)
      /\ p \in PageIds /\ p # y
  BY SoundFacts, <1>3
<1>7. Removed(pg[p], pg2[p], m, lo[p], hi[p])
  <2> DEFINE node == pg[p]
             new == pg2[p]
             l == lo[p]
             h == hi[p]
  <2>1. /\ new.left = node.left /\ InnerCovers(node, l, h) /\ l \in Int /\ h \in Int
        /\ node.entries \in Seq(InternalEntry) /\ Ascending(node.entries)
    BY <1>6
  <2>2. new.entries = RemoveAt(node.entries, m) /\ m \in 1 .. Len(node.entries)
    OBVIOUS
  <2> HIDE DEF node, new, l, h
  <2>3. ChildRemoved(node, new, m)
    BY <2>1, <2>2, RemoveChild
  <2>4. Removed(node, new, m, l, h)
    BY <2>1, <2>2, <2>3, RemoveCovers
  <2> QED BY <2>4 DEF node, new, l, h
<1>8. \A q \in PageIds : q # p /\ q # x /\ q # y =>
        pg2[q].left = pg[q].left /\ pg2[q].entries = pg[q].entries
  OBVIOUS
<1>9. Ranges(pg2, lo, hi2, ht)
  <2> SUFFICES ASSUME NEW q \in NodesOf(pg), q # y
               PROVE  /\ lo[q] < hi2[q]
                      /\ pg2[q].type = "LEAF" => ht[q] = 0 /\ LeafCovers(pg2[q], lo[q], hi2[q])
                      /\ pg2[q].type = "INTERNAL" => ht[q] > 0 /\ InnerCovers(pg2[q], lo[q], hi2[q])
    BY <1>4 DEF Ranges
  <2>1. /\ lo[q] < hi[q]
        /\ pg[q].type = "LEAF" => ht[q] = 0 /\ LeafCovers(pg[q], lo[q], hi[q])
        /\ pg[q].type = "INTERNAL" => ht[q] > 0 /\ InnerCovers(pg[q], lo[q], hi[q])
        /\ pg2[q].type = pg[q].type /\ q \in PageIds
    BY <1>2 DEF Tree, Ranges
  <2>2. CASE q = x
    <3>1. pg[q].type = "LEAF" /\ pg[q].type # "INTERNAL"
      BY <2>2 DEF LeavesOf
    <3>2. lo[y] < hi[y]
      BY <1>2 DEF Tree, Ranges
    <3>3. lo[x] < hi[y]
      BY <2>1, <2>2, <3>2, <1>1, <1>5 DEF Neighbours
    <3> QED BY <2>1, <2>2, <3>1, <3>3, <1>5
  <2>4. CASE q = p
    <3>1. pg[q].type # "LEAF" /\ InnerCovers(pg2[q], lo[q], hi[q])
      BY <2>4, <1>7 DEF Removed, InnersOf
    <3>2. hi2[q] = hi[q]
      BY <2>1, <2>4, <1>3, <1>5
    <3> QED BY <2>1, <3>1, <3>2
  <2>5. CASE q # p /\ q # x
    <3>1. /\ \A l, h : (LeafCovers(pg2[q], l, h) <=> LeafCovers(pg[q], l, h))
          /\ \A l, h : (InnerCovers(pg2[q], l, h) <=> InnerCovers(pg[q], l, h))
      BY <2>1, <2>5, <1>8, SameNodeFacts
    <3>2. hi2[q] = hi[q]
      BY <2>1, <2>5, <1>5
    <3> QED BY <2>1, <3>1, <3>2
  <2> QED BY <2>2, <2>4, <2>5
<1>10. \A c \in NodesOf(pg) : End(NULL, NULL, hi2, c) = hi2[c] /\ End(NULL, NULL, hi, c) = hi[c]
  BY <1>2 DEF End
<1>11. AllKidsSound(pg2, root, NULL, NULL, lo, hi2, ht)
  <2> SUFFICES ASSUME NEW q \in InnersOf(pg), NEW i \in Positions(pg2[q])
               PROVE  KidSound(pg2, root, NULL, NULL, lo, hi2, ht, q, i)
    BY <1>4 DEF AllKidsSound
  <2>1. CASE q = p
    <3>0. hi2[p] = hi[p]
      BY <1>3, <1>5, <1>6
    <3>1. ASSUME NEW j \in Positions(pg[p]), j # m, j # m + 1, Kid(pg2[p], i) = Kid(pg[p], j),
                 EntryLow(pg2[p], i, lo[p]) = EntryLow(pg[p], j, lo[p]),
                 EntryHigh(pg2[p], i, hi[p]) = EntryHigh(pg[p], j, hi[p])
          PROVE  KidSound(pg2, root, NULL, NULL, lo, hi2, ht, p, i)
      <4> DEFINE c == Kid(pg[p], j)
      <4>1. KidSound(pg, root, NULL, NULL, lo, hi, ht, p, j)
        BY <1>6
      <4>2. /\ c \in NodesOf(pg) /\ c # root /\ pg[c].parent = p /\ ht[p] = ht[c] + 1
            /\ lo[c] = EntryLow(pg[p], j, lo[p])
            /\ End(NULL, NULL, hi, c) = EntryHigh(pg[p], j, hi[p])
        BY <4>1 DEF KidSound
      <4>3. c # x /\ c # y
        BY <3>1, <1>1 DEF Neighbours
      <4>4. Kid(pg2[p], i) = c
        BY <3>1
      <4> HIDE DEF c
      <4>5. c \in PageIds /\ c # NULL /\ c \in NodesOf(pg2) /\ pg2[c].parent = p
        BY <4>2, <4>3, <1>2, <1>4
      <4>6. hi2[c] = hi[c]
        BY <4>3, <4>5, <1>5
      <4>7. End(NULL, NULL, hi2, c) = EntryHigh(pg2[p], i, hi2[p])
        BY <3>0, <3>1, <4>2, <4>6, <1>10
      <4> QED BY <3>1, <4>2, <4>4, <4>5, <4>7, IsSound
    <3>2. ASSUME Kid(pg2[p], i) = Kid(pg[p], m),
                 EntryLow(pg2[p], i, lo[p]) = EntryLow(pg[p], m, lo[p]),
                 EntryHigh(pg2[p], i, hi[p]) = EntryHigh(pg[p], m + 1, hi[p])
          PROVE  KidSound(pg2, root, NULL, NULL, lo, hi2, ht, p, i)
      <4>1. /\ Kid(pg2[p], i) = x /\ x # root /\ ht[p] = ht[x] + 1 /\ pg[x].parent = p
            /\ lo[x] = EntryLow(pg2[p], i, lo[p]) /\ hi[y] = EntryHigh(pg2[p], i, hi[p])
        BY <3>2, <1>1 DEF Neighbours
      <4>2. x \in PageIds /\ x # NULL /\ x \in NodesOf(pg2) /\ pg2[x].parent = p
        BY <4>1, <1>2, <1>3, <1>4
      <4>3. End(NULL, NULL, hi2, x) = EntryHigh(pg2[p], i, hi2[p])
        BY <3>0, <4>1, <1>2, <1>5, <1>10
      <4> QED BY <4>1, <4>2, <4>3, IsSound
    <3> QED BY <2>1, <3>1, <3>2, <1>7 DEF Removed
  <2>2. CASE q # p
    <3>1. q \in PageIds /\ pg2[q].left = pg[q].left /\ pg2[q].entries = pg[q].entries /\ q # x /\ q # y
      BY <2>2, <1>2, <1>3, <1>8
    <3>2. i \in Positions(pg[q])
      BY <3>1, SameNodeFacts
    <3> DEFINE c == Kid(pg[q], i)
    <3>3. KidSound(pg, root, NULL, NULL, lo, hi, ht, q, i)
      BY <3>2, SoundFacts
    <3>4. /\ c \in NodesOf(pg) /\ c # root /\ pg[c].parent = q /\ ht[q] = ht[c] + 1
          /\ lo[c] = EntryLow(pg[q], i, lo[q])
          /\ End(NULL, NULL, hi, c) = EntryHigh(pg[q], i, hi[q])
      BY <3>3 DEF KidSound
    <3>5. /\ Kid(pg2[q], i) = c /\ EntryLow(pg2[q], i, lo[q]) = EntryLow(pg[q], i, lo[q])
          /\ EntryHigh(pg2[q], i, hi[q]) = EntryHigh(pg[q], i, hi[q])
      BY <3>1, SameNodeFacts
    <3> HIDE DEF c
    <3>6. c # x /\ c # y
      BY <3>4, <2>2, <1>1 DEF Neighbours
    <3>7. c \in PageIds /\ c # NULL /\ c \in NodesOf(pg2) /\ pg2[c].parent = q
      BY <3>4, <3>6, <1>2, <1>4
    <3>8. hi2[q] = hi[q] /\ hi2[c] = hi[c]
      BY <3>1, <3>6, <3>7, <1>5
    <3>9. End(NULL, NULL, hi2, c) = End(NULL, NULL, hi, c)
      BY <3>4, <3>8, <1>10
    <3> QED BY <3>4, <3>5, <3>7, <3>8, <3>9, IsSound
  <2> QED BY <2>1, <2>2
<1>12. Places(pg2, root, NULL)
  <2> SUFFICES ASSUME NEW c \in NodesOf(pg), c # root, c # y
               PROVE  HasPlace(pg2, c)
    BY <1>4 DEF Places
  <2> DEFINE q == pg[c].parent
  <2>1. c # NULL /\ c \in PageIds
    BY <1>2
  <2>2. q \in InnersOf(pg) /\ \E i \in Positions(pg[q]) : Kid(pg[q], i) = c
    BY <2>1, PlaceFacts
  <2>3. pg2[c].parent = q
    BY <2>1
  <2> HIDE DEF q
  <2>4. q \in PageIds /\ q \in InnersOf(pg2) /\ q # x /\ q # y
    BY <2>2, <1>2, <1>3, <1>4
  <2>5. \E i \in Positions(pg2[q]) : Kid(pg2[q], i) = c
    <3>1. CASE q = p
      <4>1. PICK j \in Positions(pg[p]) : Kid(pg[p], j) = c
        BY <3>1, <2>2
      <4>2. j # m + 1
        BY <4>1, <1>1 DEF Neighbours
      <4> QED BY <3>1, <4>1, <4>2, <1>7 DEF Removed
    <3>2. CASE q # p
      <4>1. Positions(pg2[q]) = Positions(pg[q]) /\ \A i : Kid(pg2[q], i) = Kid(pg[q], i)
        BY <3>2, <2>4, <1>8, SameNodeFacts
      <4> QED BY <4>1, <2>2
    <3> QED BY <3>1, <3>2
  <2> QED BY <2>3, <2>4, <2>5 DEF HasPlace
<1>13. RootSound(pg2, root, NULL, NULL, lo, hi2, ht)
  <2>1. /\ root \in NodesOf(pg) /\ pg[root].parent = NULL /\ lo[root] = 0
        /\ End(NULL, NULL, hi, root) = MaxKey + 1 /\ \A q \in NodesOf(pg) : ht[q] <= ht[root]
    BY DEF Tree, RootSound
  <2>2. root \in PageIds /\ root # x /\ root # y
    BY <2>1, <1>1, <1>2 DEF Neighbours
  <2>3. End(NULL, NULL, hi2, root) = MaxKey + 1 /\ pg2[root].parent = NULL
    BY <2>1, <2>2, <1>5, <1>10
  <2> QED BY <2>1, <2>2, <2>3, <1>4 DEF RootSound
<1>14. HalvesSound(pg2, root, NULL, NULL, lo, hi2, ht)
  BY DEF HalvesSound
<1> QED BY <1>5, <1>9, <1>11, <1>12, <1>13, <1>14 DEF Tree, Typed, hi2

(* An empty root gives way to its only child. *)
LEMMA LoseRoot ==
  ASSUME NEW pg, NEW root, NEW lo, NEW hi, NEW ht, Tree(pg, root, NULL, NULL, lo, hi, ht),
         root \in InnersOf(pg), Len(pg[root].entries) = 0,
         NEW c, c = pg[root].left, NEW pg2 \in [PageIds -> Node],
         pg2[root].type = "FREE",
         \A q \in PageIds : q # root =>
           /\ pg2[q].type = pg[q].type /\ pg2[q].left = pg[q].left
           /\ pg2[q].entries = pg[q].entries
           /\ pg2[q].parent = IF q = c THEN NULL ELSE pg[q].parent
  PROVE  Tree(pg2, c, NULL, NULL, lo, hi, ht)
<1>1. Positions(pg[root]) = 1 .. 1 /\ Kid(pg[root], 1) = c
  BY DEF Positions, Kid
<1>2. KidSound(pg, root, NULL, NULL, lo, hi, ht, root, 1)
  BY <1>1, SoundFacts
<1>3. /\ c \in NodesOf(pg) /\ c # root /\ pg[c].parent = root /\ ht[root] = ht[c] + 1
      /\ lo[c] = EntryLow(pg[root], 1, lo[root])
      /\ End(NULL, NULL, hi, c) = EntryHigh(pg[root], 1, hi[root])
  BY <1>1, <1>2 DEF KidSound
<1>4. lo[c] = lo[root] /\ End(NULL, NULL, hi, c) = hi[root]
  BY <1>3 DEF EntryLow, EntryHigh
<1>5. /\ NodesOf(pg) \subseteq PageIds /\ InnersOf(pg) \subseteq NodesOf(pg) /\ NULL \notin PageIds
  BY NullIsNoPage DEF NodesOf, LeavesOf, InnersOf
<1>6. /\ InnersOf(pg2) = InnersOf(pg) \ {root} /\ NodesOf(pg2) = NodesOf(pg) \ {root}
  BY DEF LeavesOf, InnersOf, NodesOf
<1>7. /\ lo[root] = 0 /\ End(NULL, NULL, hi, root) = MaxKey + 1
      /\ \A q \in NodesOf(pg) : ht[q] <= ht[root]
  BY DEF Tree, RootSound
<1>8. hi[root] = MaxKey + 1
  BY <1>5, <1>7 DEF End
<1>9. \A q \in NodesOf(pg) : ht[q] \in Nat
  BY <1>5 DEF Tree, Typed
<1>10. Ranges(pg2, lo, hi, ht)
  <2> SUFFICES ASSUME NEW q \in NodesOf(pg), q # root
               PROVE  /\ lo[q] < hi[q]
                      /\ pg2[q].type = "LEAF" => ht[q] = 0 /\ LeafCovers(pg2[q], lo[q], hi[q])
                      /\ pg2[q].type = "INTERNAL" => ht[q] > 0 /\ InnerCovers(pg2[q], lo[q], hi[q])
    BY <1>6 DEF Ranges
  <2>1. /\ lo[q] < hi[q]
        /\ pg[q].type = "LEAF" => ht[q] = 0 /\ LeafCovers(pg[q], lo[q], hi[q])
        /\ pg[q].type = "INTERNAL" => ht[q] > 0 /\ InnerCovers(pg[q], lo[q], hi[q])
    BY DEF Tree, Ranges
  <2>2. pg2[q].type = pg[q].type /\ pg2[q].left = pg[q].left /\ pg2[q].entries = pg[q].entries
    BY <1>5
  <2>3. /\ \A l, h : (LeafCovers(pg2[q], l, h) <=> LeafCovers(pg[q], l, h))
        /\ \A l, h : (InnerCovers(pg2[q], l, h) <=> InnerCovers(pg[q], l, h))
    BY <2>2, SameNodeFacts
  <2> QED BY <2>1, <2>2, <2>3
<1>11. AllKidsSound(pg2, c, NULL, NULL, lo, hi, ht)
  <2> SUFFICES ASSUME NEW q \in InnersOf(pg), q # root, NEW i \in Positions(pg2[q])
               PROVE  KidSound(pg2, c, NULL, NULL, lo, hi, ht, q, i)
    BY <1>6 DEF AllKidsSound
  <2> DEFINE d == Kid(pg[q], i)
  <2>1. pg2[q].left = pg[q].left /\ pg2[q].entries = pg[q].entries
    BY <1>5
  <2>2. i \in Positions(pg[q])
    BY <2>1, SameNodeFacts
  <2>3. KidSound(pg, root, NULL, NULL, lo, hi, ht, q, i)
    BY <2>2, SoundFacts
  <2>4. /\ d \in NodesOf(pg) /\ d # root /\ pg[d].parent = q /\ ht[q] = ht[d] + 1
        /\ lo[d] = EntryLow(pg[q], i, lo[q])
        /\ End(NULL, NULL, hi, d) = EntryHigh(pg[q], i, hi[q])
    BY <2>3 DEF KidSound
  <2>5. /\ Kid(pg2[q], i) = d /\ EntryLow(pg2[q], i, lo[q]) = EntryLow(pg[q], i, lo[q])
        /\ EntryHigh(pg2[q], i, hi[q]) = EntryHigh(pg[q], i, hi[q])
    BY <2>1, SameNodeFacts
  <2> HIDE DEF d
  <2>6. d # c /\ d \in PageIds /\ d # NULL /\ d \in NodesOf(pg2)
    BY <2>4, <1>3, <1>5, <1>6
  <2>7. pg2[d].parent = q
    BY <2>4, <2>6
  <2> QED BY <2>4, <2>5, <2>6, <2>7, IsSound
<1>12. Places(pg2, c, NULL)
  <2> SUFFICES ASSUME NEW d \in NodesOf(pg), d # root, d # c
               PROVE  HasPlace(pg2, d)
    BY <1>6 DEF Places
  <2> DEFINE q == pg[d].parent
  <2>1. d # NULL /\ d \in PageIds
    BY <1>5
  <2>2. q \in InnersOf(pg) /\ \E i \in Positions(pg[q]) : Kid(pg[q], i) = d
    BY <2>1, PlaceFacts
  <2>3. pg2[d].parent = q
    BY <2>1
  <2> HIDE DEF q
  <2>4. q # root
    BY <2>2, <1>1
  <2>5. q \in PageIds /\ q \in InnersOf(pg2)
    BY <2>2, <2>4, <1>5, <1>6
  <2>6. pg2[q].left = pg[q].left /\ pg2[q].entries = pg[q].entries
    BY <2>4, <2>5
  <2>7. Positions(pg2[q]) = Positions(pg[q]) /\ \A i : Kid(pg2[q], i) = Kid(pg[q], i)
    BY <2>6, SameNodeFacts
  <2> QED BY <2>2, <2>3, <2>5, <2>7 DEF HasPlace
<1>13. RootSound(pg2, c, NULL, NULL, lo, hi, ht)
  <2>1. ASSUME NEW q \in NodesOf(pg), q # root PROVE ht[q] <= ht[c]
    <3> DEFINE r == pg[q].parent
    <3>1. q # NULL
      BY <1>5
    <3>2. r \in InnersOf(pg) /\ \E i \in Positions(pg[r]) : Kid(pg[r], i) = q
      BY <2>1, <3>1, PlaceFacts
    <3> HIDE DEF r
    <3>3. PICK i \in Positions(pg[r]) : Kid(pg[r], i) = q
      BY <3>2
    <3>4. KidSound(pg, root, NULL, NULL, lo, hi, ht, r, i)
      BY <3>2, SoundFacts
    <3>5. ht[r] = ht[q] + 1
      BY <3>3, <3>4 DEF KidSound
    <3>6. ht[r] <= ht[root] /\ ht[r] \in Nat /\ ht[q] \in Nat /\ ht[c] \in Nat
      BY <3>2, <1>3, <1>5, <1>7, <1>9
    <3> QED BY <3>5, <3>6, <1>3
  <2>2. c \in NodesOf(pg2) /\ pg2[c].parent = NULL
    BY <1>3, <1>5, <1>6
  <2> QED BY <2>1, <2>2, <1>4, <1>6, <1>7, <1>8 DEF RootSound
<1>14. HalvesSound(pg2, c, NULL, NULL, lo, hi, ht)
  BY DEF HalvesSound
<1> QED BY <1>10, <1>11, <1>12, <1>13, <1>14 DEF Tree, Typed

(* The nodes of height h whose interval holds k. *)
OnLevel(pg, lo, hi, ht, h, k) == {p \in NodesOf(pg) : ht[p] = h /\ lo[p] <= k /\ k < hi[p]}

(* internal_child_for_key picks the one child whose interval holds the     *)
(* key.                                                                    *)
LEMMA StepDown ==
  ASSUME NEW pg, NEW root, NEW lo, NEW hi, NEW ht, Tree(pg, root, NULL, NULL, lo, hi, ht),
         NEW p \in InnersOf(pg), NEW k \in Nat, lo[p] <= k, k < hi[p]
  PROVE  LET c == ChildFor(pg[p], k)
         IN  /\ c \in NodesOf(pg) /\ ht[p] = ht[c] + 1 /\ lo[c] <= k /\ k < hi[c]
             /\ \A i \in Positions(pg[p]) :
                  LET d == Kid(pg[p], i) IN lo[d] <= k /\ k < hi[d] => d = c
<1> DEFINE m == InternalFind(pg[p], k) + 1
           c == ChildFor(pg[p], k)
<1>1. /\ pg[p].entries \in Seq(InternalEntry) /\ Ascending(pg[p].entries)
      /\ lo[p] \in Int /\ hi[p] \in Int /\ k \in Int
      /\ \A i \in Positions(pg[p]) : KidSound(pg, root, NULL, NULL, lo, hi, ht, p, i)
  BY SoundFacts
<1>2. /\ m \in Positions(pg[p]) /\ c = Kid(pg[p], m)
      /\ EntryLow(pg[p], m, lo[p]) <= k /\ k < EntryHigh(pg[p], m, hi[p])
      /\ \A i \in Positions(pg[p]) :
           EntryLow(pg[p], i, lo[p]) <= k /\ k < EntryHigh(pg[p], i, hi[p]) => i = m
  <2>1. \A l \in Int, h \in Int : l <= k /\ k < h =>
          /\ m \in Positions(pg[p]) /\ c = Kid(pg[p], m)
          /\ EntryLow(pg[p], m, l) <= k /\ k < EntryHigh(pg[p], m, h)
          /\ \A i \in Positions(pg[p]) :
               EntryLow(pg[p], i, l) <= k /\ k < EntryHigh(pg[p], i, h) => i = m
    BY <1>1, RouteInNode
  <2> HIDE DEF m, c
  <2> QED BY <1>1, <2>1
<1> HIDE DEF m, c
<1>3. ASSUME NEW i \in Positions(pg[p])
      PROVE  /\ Kid(pg[p], i) \in NodesOf(pg) /\ ht[p] = ht[Kid(pg[p], i)] + 1
             /\ lo[Kid(pg[p], i)] = EntryLow(pg[p], i, lo[p])
             /\ hi[Kid(pg[p], i)] = EntryHigh(pg[p], i, hi[p])
  <2> DEFINE d == Kid(pg[p], i)
  <2>1. KidSound(pg, root, NULL, NULL, lo, hi, ht, p, i)
    BY <1>1
  <2>2. /\ d \in NodesOf(pg) /\ ht[p] = ht[d] + 1 /\ lo[d] = EntryLow(pg[p], i, lo[p])
        /\ End(NULL, NULL, hi, d) = EntryHigh(pg[p], i, hi[p])
    BY <2>1 DEF KidSound
  <2> HIDE DEF d
  <2>3. End(NULL, NULL, hi, d) = hi[d]
    BY <2>2, NullIsNoPage DEF End, NodesOf, LeavesOf, InnersOf
  <2>4. /\ d \in NodesOf(pg) /\ ht[p] = ht[d] + 1 /\ lo[d] = EntryLow(pg[p], i, lo[p])
        /\ hi[d] = EntryHigh(pg[p], i, hi[p])
    BY <2>2, <2>3
  <2> QED BY <2>4 DEF d
<1>4. c \in NodesOf(pg) /\ ht[p] = ht[c] + 1 /\ lo[c] <= k /\ k < hi[c]
  BY <1>2, <1>3
<1>5. ASSUME NEW i \in Positions(pg[p]), lo[Kid(pg[p], i)] <= k, k < hi[Kid(pg[p], i)]
      PROVE  Kid(pg[p], i) = c
  <2>1. i = m
    BY <1>2, <1>3, <1>5
  <2> QED BY <1>2, <2>1
<1> QED BY <1>4, <1>5 DEF c

(* Every key is covered by exactly one node of each level. *)
LEMMA OneNodePerLevel ==
  ASSUME NEW pg, NEW root, NEW lo, NEW hi, NEW ht, Tree(pg, root, NULL, NULL, lo, hi, ht),
         NEW k \in 0 .. MaxKey, NEW h \in 0 .. ht[root]
  PROVE  \E x \in NodesOf(pg) : OnLevel(pg, lo, hi, ht, h, k) = {x}
<1> DEFINE H == ht[root]
           Good(d) == \E x \in NodesOf(pg) : OnLevel(pg, lo, hi, ht, H - d, k) = {x}
           Bad == {d \in 0 .. H : ~Good(d)}
<1>0. NodesOf(pg) \subseteq PageIds /\ InnersOf(pg) \subseteq NodesOf(pg) /\ NULL \notin PageIds
  BY NullIsNoPage DEF NodesOf, LeavesOf, InnersOf
<1>1. /\ root \in NodesOf(pg) /\ lo[root] = 0 /\ hi[root] = MaxKey + 1
      /\ \A p \in NodesOf(pg) : ht[p] <= ht[root]
  BY <1>0 DEF Tree, RootSound, End
<1>2. \A p \in NodesOf(pg) : ht[p] \in Nat /\ lo[p] \in Nat /\ hi[p] \in Nat
  BY <1>0 DEF Tree, Typed
<1>3. H \in Nat /\ k \in Nat /\ MaxKey \in Nat
  BY <1>1, <1>2, TreeAssumption
<1>4. ASSUME NEW c \in NodesOf(pg), c # root
      PROVE  \E p \in InnersOf(pg) : \E i \in Positions(pg[p]) :
               /\ c = Kid(pg[p], i) /\ ht[p] = ht[c] + 1 /\ lo[p] <= lo[c] /\ hi[c] <= hi[p]
  <2> DEFINE p == pg[c].parent
  <2>1. p \in InnersOf(pg) /\ \E i \in Positions(pg[p]) : Kid(pg[p], i) = c
    BY <1>0, <1>4, PlaceFacts
  <2> HIDE DEF p
  <2>2. PICK i \in Positions(pg[p]) : Kid(pg[p], i) = c
    BY <2>1
  <2>3. /\ InnerCovers(pg[p], lo[p], hi[p]) /\ lo[p] < hi[p] /\ lo[p] \in Int /\ hi[p] \in Int
        /\ KidSound(pg, root, NULL, NULL, lo, hi, ht, p, i)
    BY <2>1, SoundFacts
  <2>4. /\ ht[p] = ht[c] + 1 /\ lo[c] = EntryLow(pg[p], i, lo[p])
        /\ End(NULL, NULL, hi, c) = EntryHigh(pg[p], i, hi[p])
    BY <2>2, <2>3 DEF KidSound
  <2>5. hi[c] = EntryHigh(pg[p], i, hi[p])
    BY <2>4, <1>0, <1>4 DEF End
  <2>6. lo[p] <= EntryLow(pg[p], i, lo[p]) /\ EntryHigh(pg[p], i, hi[p]) <= hi[p]
    BY <2>3, KidInside
  <2> QED BY <2>1, <2>2, <2>4, <2>5, <2>6
<1>5. OnLevel(pg, lo, hi, ht, H, k) = {root}
  <2>1. root \in OnLevel(pg, lo, hi, ht, H, k)
    BY <1>1, <1>3 DEF OnLevel
  <2>2. ASSUME NEW c \in NodesOf(pg), c # root, ht[c] = H PROVE FALSE
    <3>1. PICK p \in InnersOf(pg) : ht[p] = ht[c] + 1
      BY <1>4, <2>2
    <3>2. ht[p] <= H /\ ht[p] \in Nat
      BY <1>0, <1>1, <1>2
    <3> QED BY <3>1, <3>2, <2>2, <1>3
  <2> QED BY <2>1, <2>2 DEF OnLevel
<1>6. ASSUME NEW d \in 0 .. H, d # 0, Good(d - 1) PROVE Good(d)
  <2> DEFINE g == H - d
  <2>1. g \in Nat /\ H - (d - 1) = g + 1 /\ g < H
    BY <1>3, <1>6
  <2> HIDE DEF g
  <2>2. PICK x \in NodesOf(pg) : OnLevel(pg, lo, hi, ht, g + 1, k) = {x}
    BY <1>6, <2>1
  <2>3. ht[x] = g + 1 /\ lo[x] <= k /\ k < hi[x]
    BY <2>2 DEF OnLevel
  <2>4. x \in InnersOf(pg)
    <3>1. x \in LeavesOf(pg) => ht[x] = 0
      BY DEF Tree, Ranges, NodesOf, LeavesOf
    <3> QED BY <3>1, <2>1, <2>3 DEF NodesOf
  <2> DEFINE c == ChildFor(pg[x], k)
  <2>5. /\ c \in NodesOf(pg) /\ ht[x] = ht[c] + 1 /\ lo[c] <= k /\ k < hi[c]
        /\ \A i \in Positions(pg[x]) :
             lo[Kid(pg[x], i)] <= k /\ k < hi[Kid(pg[x], i)] => Kid(pg[x], i) = c
    BY <2>3, <2>4, <1>3, StepDown
  <2> HIDE DEF c
  <2>6. c \in OnLevel(pg, lo, hi, ht, g, k)
    <3>1. ht[c] = g
      BY <2>1, <2>3, <2>5, <1>2
    <3> QED BY <3>1, <2>5 DEF OnLevel
  <2>7. ASSUME NEW q \in OnLevel(pg, lo, hi, ht, g, k) PROVE q = c
    <3>1. q \in NodesOf(pg) /\ ht[q] = g /\ lo[q] <= k /\ k < hi[q]
      BY DEF OnLevel
    <3>2. q # root
      BY <3>1, <2>1, <1>3
    <3>3. PICK p \in InnersOf(pg) : \E i \in Positions(pg[p]) :
               /\ q = Kid(pg[p], i) /\ ht[p] = ht[q] + 1 /\ lo[p] <= lo[q] /\ hi[q] <= hi[p]
      BY <3>1, <3>2, <1>4
    <3>4. PICK i \in Positions(pg[p]) : q = Kid(pg[p], i)
      BY <3>3
    <3>5. p \in NodesOf(pg) /\ ht[p] = g + 1 /\ lo[p] <= k /\ k < hi[p]
      <4>1. p \in NodesOf(pg)
        BY <1>0
      <4>2. lo[p] \in Nat /\ hi[p] \in Nat /\ lo[q] \in Nat /\ hi[q] \in Nat
        BY <4>1, <3>1, <1>2
      <4> QED BY <4>1, <4>2, <3>1, <3>3, <1>3
    <3>6. p = x
      BY <3>5, <2>2 DEF OnLevel
    <3> QED BY <3>1, <3>4, <3>6, <2>5
  <2>8. OnLevel(pg, lo, hi, ht, g, k) = {c}
    BY <2>6, <2>7
  <2> QED BY <2>5, <2>8 DEF g
<1>7. Good(0)
  <2>1. H - 0 = H
    BY <1>3
  <2> QED BY <2>1, <1>1, <1>5
<1>8. \A d \in 0 .. H : Good(d)
  <2> SUFFICES ASSUME Bad # {} PROVE FALSE
    OBVIOUS
  <2>1. Bad \in SUBSET Nat
    BY <1>3
  <2>2. PICK d \in Bad : \A e \in Bad : d <= e
    <3> HIDE DEF Bad
    <3> QED BY <2>1, LeastElement
  <2>3. d \in 0 .. H /\ ~Good(d)
    BY <2>2
  <2> HIDE DEF Good
  <2>4. d # 0
    BY <2>3, <1>7
  <2>5. d - 1 \in 0 .. H /\ d - 1 \notin Bad
    BY <2>2, <2>3, <2>4, <1>3
  <2>6. Good(d - 1)
    BY <2>5
  <2> QED BY <2>3, <2>4, <2>6, <1>6
<1>9. H - h \in 0 .. H /\ H - (H - h) = h
  BY <1>3
<1> QED BY <1>8, <1>9

(* A tree is not as high as the file has pages. *)
LEMMA TreeIsLow ==
  ASSUME NEW pg, NEW root, NEW lo, NEW hi, NEW ht, Tree(pg, root, NULL, NULL, lo, hi, ht)
  PROVE  ht[root] \in Nat /\ ht[root] < MaxPage
<1>1. NodesOf(pg) \subseteq PageIds
  BY DEF NodesOf, LeavesOf, InnersOf
<1>2. ht[root] \in Nat
  BY <1>1 DEF Tree, Typed, RootSound
<1>3. MaxPage \in Nat /\ IsFiniteSet(PageIds) /\ Cardinality(PageIds) = MaxPage
  BY FileAssumption, FS_Interval DEF PageIds
<1>4. 0 \in 0 .. MaxKey
  BY TreeAssumption
<1>5. \A h \in 0 .. ht[root] : \E x \in NodesOf(pg) : ht[x] = h
  <2> TAKE h \in 0 .. ht[root]
  <2>1. PICK x \in NodesOf(pg) : OnLevel(pg, lo, hi, ht, h, 0) = {x}
    BY <1>4, OneNodePerLevel
  <2> QED BY <2>1 DEF OnLevel
<1> SUFFICES ASSUME ht[root] >= MaxPage PROVE FALSE
  BY <1>2, <1>3
<1> DEFINE f == [h \in 0 .. MaxPage |-> CHOOSE x \in NodesOf(pg) : ht[x] = h]
<1>6. \A h \in 0 .. MaxPage : h \in 0 .. ht[root]
  BY <1>2, <1>3
<1>7. \A h \in 0 .. MaxPage : f[h] \in NodesOf(pg) /\ ht[f[h]] = h
  BY <1>5, <1>6
<1>8. f \in [0 .. MaxPage -> PageIds]
  <2>1. f = [h \in 0 .. MaxPage |-> f[h]]
    OBVIOUS
  <2> HIDE DEF f
  <2> QED BY <2>1, <1>1, <1>7
<1>9. IsFiniteSet(0 .. MaxPage) /\ Cardinality(0 .. MaxPage) = MaxPage + 1
  BY <1>3, FS_Interval
<1>10. \E i, j \in 0 .. MaxPage : i # j /\ f[i] = f[j]
  <2> HIDE DEF f
  <2>1. Cardinality(PageIds) < Cardinality(0 .. MaxPage)
    BY <1>3, <1>9
  <2> QED BY <2>1, <1>3, <1>8, <1>9, FS_PigeonHole
<1> HIDE DEF f
<1> QED BY <1>7, <1>10

(* find_leaf finds the leaf of a key, and no other leaf covers it.    *)
LEMMA FindLeafFacts ==
  ASSUME NEW lo, NEW hi, NEW ht, Tree(pages, header.root, NULL, NULL, lo, hi, ht),
         NEW k \in 0 .. MaxKey
  PROVE  /\ FindLeaf(k) \in LeavesOf(pages) /\ lo[FindLeaf(k)] <= k /\ k < hi[FindLeaf(k)]
         /\ \A p \in LeavesOf(pages) : lo[p] <= k /\ k < hi[p] => p = FindLeaf(k)
<1> DEFINE root == header.root
           H == ht[root]
           down == [p \in PageIds |-> IF pages[p].type = "LEAF" THEN p ELSE ChildFor(pages[p], k)]
           Node2(h) == CHOOSE x \in NodesOf(pages) : OnLevel(pages, lo, hi, ht, h, k) = {x}
           Height(d) == IF d <= H THEN H - d ELSE 0
           f == [d \in 0 .. MaxPage |-> Node2(Height(d))]
           Walks(g) == g = [d \in 0 .. MaxPage |-> IF d = 0 THEN root ELSE down[g[d - 1]]]
           at == CHOOSE g : Walks(g)
<1>0. FindLeaf(k) = at[MaxPage]
  BY DEF FindLeaf
<1>1. H \in Nat /\ H < MaxPage /\ MaxPage \in Nat /\ k \in Nat
  BY TreeIsLow, FileAssumption
<1>2. /\ NodesOf(pages) \subseteq PageIds /\ InnersOf(pages) \subseteq NodesOf(pages)
      /\ LeavesOf(pages) \subseteq NodesOf(pages) /\ NULL \notin PageIds
  BY NullIsNoPage DEF NodesOf, LeavesOf, InnersOf
<1>3. \A h \in 0 .. H : /\ Node2(h) \in NodesOf(pages)
                        /\ OnLevel(pages, lo, hi, ht, h, k) = {Node2(h)}
  BY OneNodePerLevel
<1>4. /\ root \in NodesOf(pages) /\ lo[root] = 0 /\ hi[root] = MaxKey + 1
      /\ \A p \in NodesOf(pages) : ht[p] <= ht[root] /\ ht[p] \in Nat
  BY <1>2 DEF Tree, RootSound, End, Typed
<1>5. Node2(H) = root
  <2>1. root \in OnLevel(pages, lo, hi, ht, H, k)
    BY <1>4, TreeAssumption DEF OnLevel
  <2> HIDE DEF Node2
  <2> QED BY <2>1, <1>1, <1>3
<1>6. \A p \in LeavesOf(pages) : ht[p] = 0 /\ down[p] = p
  <2>1. \A p \in LeavesOf(pages) : ht[p] = 0
    BY <1>2 DEF Tree, Ranges, LeavesOf
  <2> QED BY <2>1, <1>2 DEF LeavesOf
<1>7. \A p \in InnersOf(pages) : ht[p] > 0 /\ down[p] = ChildFor(pages[p], k)
  <2>1. \A p \in InnersOf(pages) : ht[p] > 0
    BY <1>2 DEF Tree, Ranges, InnersOf
  <2> QED BY <2>1, <1>2 DEF InnersOf
<1>8. NodesOf(pages) = LeavesOf(pages) \cup InnersOf(pages)
  BY DEF NodesOf
<1> HIDE DEF Node2, down
<1>9. \A h \in 0 .. H : h # 0 => down[Node2(h)] = Node2(h - 1)
  <2> TAKE h \in 0 .. H
  <2> HAVE h # 0
  <2> DEFINE p == Node2(h)
  <2>1. p \in NodesOf(pages) /\ ht[p] = h /\ lo[p] <= k /\ k < hi[p]
    BY <1>3 DEF OnLevel
  <2> HIDE DEF p
  <2>2. p \in InnersOf(pages)
    BY <2>1, <1>6, <1>8
  <2> DEFINE c == ChildFor(pages[p], k)
  <2>3. c \in NodesOf(pages) /\ ht[p] = ht[c] + 1 /\ lo[c] <= k /\ k < hi[c]
    BY <2>1, <2>2, <1>1, StepDown
  <2>4. down[p] = c
    BY <2>2, <1>7
  <2> HIDE DEF c
  <2>5. ht[c] = h - 1 /\ h - 1 \in 0 .. H
    BY <2>1, <2>3, <1>1, <1>4
  <2>6. c \in OnLevel(pages, lo, hi, ht, h - 1, k)
    BY <2>3, <2>5 DEF OnLevel
  <2>7. c = Node2(h - 1)
    BY <2>5, <2>6, <1>3
  <2> QED BY <2>4, <2>7 DEF p
<1>10. down[Node2(0)] = Node2(0) /\ Node2(0) \in LeavesOf(pages)
  <2> DEFINE p == Node2(0)
  <2>0. 0 \in 0 .. H
    BY <1>1
  <2>1. p \in NodesOf(pages) /\ ht[p] = 0
    BY <2>0, <1>3 DEF OnLevel
  <2> HIDE DEF p
  <2>2. p \in LeavesOf(pages)
    BY <2>1, <1>7, <1>8
  <2>3. down[p] = p
    BY <2>2, <1>6
  <2> QED BY <2>2, <2>3 DEF p
<1>11. \A d \in 0 .. MaxPage : f[d] = IF d = 0 THEN root ELSE down[f[d - 1]]
  <2> SUFFICES ASSUME NEW d \in 0 .. MaxPage
               PROVE  f[d] = IF d = 0 THEN root ELSE down[f[d - 1]]
    OBVIOUS
  <2>0. f[d] = Node2(Height(d))
    OBVIOUS
  <2>1. CASE d = 0
    <3>1. Height(d) = H
      BY <2>1, <1>1
    <3> QED BY <2>0, <2>1, <3>1, <1>5
  <2>2. CASE d # 0
    <3>1. d - 1 \in 0 .. MaxPage
      BY <2>2, <1>1
    <3>2. f[d - 1] = Node2(Height(d - 1))
      BY <3>1
    <3> HIDE DEF f
    <3>3. CASE d <= H
      <4>1. Height(d) = H - d /\ Height(d - 1) = H - (d - 1)
        BY <3>1, <3>3, <1>1
      <4>2. H - (d - 1) \in 0 .. H /\ H - (d - 1) # 0 /\ (H - (d - 1)) - 1 = H - d
        BY <3>1, <3>3, <1>1
      <4> HIDE DEF Height
      <4> QED BY <2>0, <2>2, <3>2, <4>1, <4>2, <1>9
    <3>4. CASE d > H
      <4>1. Height(d) = 0 /\ Height(d - 1) = 0
        BY <3>1, <3>4, <1>1
      <4> HIDE DEF Height
      <4> QED BY <2>0, <2>2, <3>2, <4>1, <1>10
    <3> QED BY <3>3, <3>4, <1>1
  <2> QED BY <2>1, <2>2
<1>12. Walks(f)
  <2>1. f = [d \in 0 .. MaxPage |-> f[d]]
    OBVIOUS
  <2> HIDE DEF f
  <2> QED BY <2>1, <1>11
<1>13. Walks(at)
  <2> HIDE DEF Walks, f
  <2> QED BY <1>12
<1>14. \A d \in 0 .. MaxPage : at[d] = IF d = 0 THEN root ELSE down[at[d - 1]]
  <2> HIDE DEF at
  <2> QED BY <1>13
<1>15. \A d \in 0 .. MaxPage : at[d] = f[d]
  <2> DEFINE Differ == {d \in 0 .. MaxPage : at[d] # f[d]}
  <2> HIDE DEF at, f
  <2> SUFFICES ASSUME Differ # {} PROVE FALSE
    OBVIOUS
  <2>1. Differ \in SUBSET Nat
    BY <1>1
  <2>2. PICK d \in Differ : \A e \in Differ : d <= e
    <3> HIDE DEF Differ
    <3> QED BY <2>1, LeastElement
  <2>3. d \in 0 .. MaxPage /\ at[d] # f[d]
    BY <2>2
  <2>4. d # 0
    BY <2>3, <1>11, <1>14
  <2>5. d - 1 \in 0 .. MaxPage /\ d - 1 \notin Differ
    BY <2>2, <2>3, <2>4, <1>1
  <2>6. at[d - 1] = f[d - 1]
    BY <2>5
  <2> QED BY <2>3, <2>4, <2>6, <1>11, <1>14
<1>16. f[MaxPage] = Node2(0)
  <2>1. MaxPage \in 0 .. MaxPage /\ Height(MaxPage) = 0
    BY <1>1
  <2> QED BY <2>1
<1>17. FindLeaf(k) = Node2(0)
  <2>1. MaxPage \in 0 .. MaxPage
    BY <1>1
  <2> HIDE DEF at, f
  <2> QED BY <2>1, <1>0, <1>15, <1>16
<1>18. 0 \in 0 .. H /\ OnLevel(pages, lo, hi, ht, 0, k) = {FindLeaf(k)}
  BY <1>1, <1>3, <1>17
<1>19. lo[FindLeaf(k)] <= k /\ k < hi[FindLeaf(k)]
  BY <1>18 DEF OnLevel
<1>20. \A p \in LeavesOf(pages) : lo[p] <= k /\ k < hi[p] => p \in OnLevel(pages, lo, hi, ht, 0, k)
  BY <1>2, <1>6 DEF OnLevel
<1> QED BY <1>10, <1>17, <1>18, <1>19, <1>20

-----------------------------------------------------------------------------
(* Leaves *)

(* What a leaf contributes to the index. *)
Pairs(node) == {<<e.key, e.row_ref>> : e \in Range(node.entries)}

(* The pairs of a leaf, read off its positions. *)
LEMMA PairsByPosition ==
  ASSUME NEW node, node.entries \in Seq(LeafEntry)
  PROVE  /\ Pairs(node) = {<<node.entries[i].key, node.entries[i].row_ref>> : i \in 1 .. Len(node.entries)}
         /\ Pairs(node) \subseteq Keys \X Refs
<1>1. DOMAIN node.entries = 1 .. Len(node.entries) /\ \A i \in 1 .. Len(node.entries) : node.entries[i] \in LeafEntry
  BY EntryFacts
<1>2. Pairs(node) = {<<node.entries[i].key, node.entries[i].row_ref>> : i \in 1 .. Len(node.entries)}
  BY <1>1 DEF Pairs, Range
<1> QED BY <1>1, <1>2 DEF LeafEntry

(* The same for an array that has a name of its own. *)
LEMMA PairsOf ==
  ASSUME NEW node, NEW s \in Seq(LeafEntry), node.entries = s, NEW n, Len(s) = n
  PROVE  Pairs(node) = {<<s[i].key, s[i].row_ref>> : i \in 1 .. n}
BY PairsByPosition

(* A leaf that covers an interval covers a wider one. *)
LEMMA LeafWiden ==
  ASSUME NEW node, NEW l \in Int, NEW h \in Int, LeafCovers(node, l, h),
         NEW l2 \in Int, NEW h2 \in Int, l2 <= l, h <= h2
  PROVE  LeafCovers(node, l2, h2)
<1>1. \A i \in 1 .. Len(node.entries) : node.entries[i].key \in Int
  BY EntryFacts DEF LeafCovers
<1> QED BY <1>1 DEF LeafCovers

(* A new entry. *)
LEMMA LeafInsert ==
  ASSUME NEW node, NEW l \in Int, NEW h \in Int, LeafCovers(node, l, h),
         NEW e \in LeafEntry, l <= e.key, e.key < h, Matches(node, e.key) = {},
         NEW new, new.entries = InsertAt(node.entries, LeafFind(node, e.key) + 1, e)
  PROVE  /\ LeafCovers(new, l, h) /\ Len(new.entries) = Len(node.entries) + 1
         /\ Pairs(new) = Pairs(node) \cup {<<e.key, e.row_ref>>}
<1> DEFINE s == node.entries
           m == LeafFind(node, e.key) + 1
           t == InsertAt(s, m, e)
<1>1. /\ s \in Seq(LeafEntry) /\ Ascending(s) /\ Len(s) \in Nat /\ DOMAIN s = 1 .. Len(s)
      /\ \A i \in 1 .. Len(s) : s[i].key \in Int /\ l <= s[i].key /\ s[i].key < h
  BY EntryFacts DEF LeafCovers
<1>2. e.key \in Int
  BY TreeAssumption DEF LeafEntry, Keys
<1>3. /\ m \in 1 .. Len(s) + 1 /\ m \in Int
      /\ \A i \in 1 .. Len(s) : s[i].key < e.key <=> i <= m - 1
  <2>1. /\ LeafFind(node, e.key) \in 0 .. Len(s)
        /\ \A i \in 1 .. Len(s) : s[i].key < e.key <=> i <= LeafFind(node, e.key)
    BY <1>1, <1>2, LeafFindFacts
  <2>2. m - 1 = LeafFind(node, e.key) /\ m \in 1 .. Len(s) + 1 /\ m \in Int
    BY <1>1, <2>1
  <2> HIDE DEF m, s
  <2> QED BY <2>1, <2>2
<1>4. \A i \in 1 .. Len(s) : s[i].key # e.key
  BY <1>1 DEF Matches
<1>5. new.entries = t
  OBVIOUS
<1> HIDE DEF m
<1>6. m \in 1 .. Len(s) + 1 /\ m \in Int
  BY <1>3
<1>7. \A i \in 1 .. Len(s) : IF i < m THEN s[i].key < e.key ELSE e.key < s[i].key
  BY <1>1, <1>2, <1>3, <1>4, <1>6
<1>8. \A x \in LeafEntry : x.key \in Int
  BY TreeAssumption DEF LeafEntry, Keys
<1>9. /\ t \in Seq(LeafEntry) /\ Len(t) = Len(s) + 1
      /\ \A j \in 1 .. Len(s) + 1 : t[j] = IF j < m THEN s[j] ELSE IF j = m THEN e ELSE s[j - 1]
  <2> HIDE DEF s
  <2> QED BY SMTT(30), <1>1, <1>6, Insertion
<1>10. Ascending(t)
  <2> HIDE DEF s
  <2> QED BY <1>1, <1>6, <1>7, <1>8, InsertKeepsOrder
<1> HIDE DEF t
<1>11. \A j \in 1 .. Len(s) + 1 : t[j] = e \/ \E i \in 1 .. Len(s) : t[j] = s[i]
  <2> TAKE j \in 1 .. Len(s) + 1
  <2>1. j < m => j \in 1 .. Len(s)
    BY <1>1, <1>6
  <2>2. ~(j < m) /\ j # m => j - 1 \in 1 .. Len(s)
    BY <1>1, <1>6
  <2> HIDE DEF s
  <2> QED BY <2>1, <2>2, <1>9
<1>12. \E j \in 1 .. Len(s) + 1 : t[j] = e
  <2>1. ~(m < m)
    BY <1>6
  <2> QED BY <2>1, <1>6, <1>9
<1>13. \A i \in 1 .. Len(s) : \E j \in 1 .. Len(s) + 1 : t[j] = s[i]
  <2> TAKE i \in 1 .. Len(s)
  <2>1. CASE i < m
    <3>1. i \in 1 .. Len(s) + 1
      BY <1>1
    <3> QED BY <3>1, <2>1, <1>9
  <2>2. CASE ~(i < m)
    <3>1. i + 1 \in 1 .. Len(s) + 1 /\ ~(i + 1 < m) /\ i + 1 # m /\ (i + 1) - 1 = i
      BY <2>2, <1>1, <1>6
    <3>2. t[i + 1] = s[(i + 1) - 1]
      BY <3>1, <1>9
    <3> QED BY <3>1, <3>2
  <2> QED BY <2>1, <2>2
<1>14. LeafCovers(new, l, h)
  <2>1. \A j \in 1 .. Len(t) : l <= t[j].key /\ t[j].key < h
    BY <1>1, <1>9, <1>11
  <2> QED BY <2>1, <1>5, <1>9, <1>10 DEF LeafCovers
<1>15. Pairs(new) = Pairs(node) \cup {<<e.key, e.row_ref>>}
  <2>1. Pairs(node) = {<<s[i].key, s[i].row_ref>> : i \in 1 .. Len(s)}
    BY <1>1, PairsByPosition
  <2>2. Pairs(new) = {<<t[j].key, t[j].row_ref>> : j \in 1 .. Len(s) + 1}
    BY <1>5, <1>9, PairsByPosition
  <2> HIDE DEF s
  <2> QED BY SMTT(60), <2>1, <2>2, <1>11, <1>12, <1>13
<1> QED BY <1>5, <1>9, <1>14, <1>15

(* An entry less. *)
LEMMA LeafRemove ==
  ASSUME NEW node, NEW l \in Int, NEW h \in Int, LeafCovers(node, l, h),
         NEW m \in 1 .. Len(node.entries),
         NEW new, new.entries = RemoveAt(node.entries, m)
  PROVE  /\ LeafCovers(new, l, h) /\ Len(new.entries) = Len(node.entries) - 1
         /\ Pairs(new) = Pairs(node) \ {<<node.entries[m].key, node.entries[m].row_ref>>}
         /\ m = 1 /\ Len(node.entries) > 1 => LeafCovers(new, node.entries[2].key, h)
         /\ m = Len(node.entries) => LeafCovers(new, l, node.entries[m].key)
<1> DEFINE s == node.entries
           t == RemoveAt(s, m)
<1>1. /\ s \in Seq(LeafEntry) /\ Ascending(s) /\ Len(s) \in Nat /\ DOMAIN s = 1 .. Len(s)
      /\ \A i \in 1 .. Len(s) : s[i].key \in Int /\ l <= s[i].key /\ s[i].key < h
      /\ m \in Int /\ m \in 1 .. Len(s)
  BY EntryFacts DEF LeafCovers
<1>2. new.entries = t
  OBVIOUS
<1>3. /\ t \in Seq(LeafEntry) /\ Len(t) = Len(s) - 1
      /\ \A j \in 1 .. Len(s) - 1 : t[j] = IF j < m THEN s[j] ELSE s[j + 1]
  <2> HIDE DEF s
  <2> QED BY <1>1, Removal
<1>4. Ascending(t)
  <2> HIDE DEF s
  <2> QED BY <1>1, RemovalKeepsOrder
<1> HIDE DEF t
<1>5. \A j \in 1 .. Len(s) - 1 :
        /\ j < m => j \in 1 .. Len(s) /\ t[j] = s[j]
        /\ ~(j < m) => j + 1 \in 1 .. Len(s) /\ j + 1 # m /\ j + 1 > m /\ t[j] = s[j + 1]
  BY <1>1, <1>3
<1>6. \A j \in 1 .. Len(s) - 1 : \E i \in 1 .. Len(s) : i # m /\ t[j] = s[i]
  <2> TAKE j \in 1 .. Len(s) - 1
  <2>1. CASE j < m
    BY <2>1, <1>1, <1>5
  <2>2. CASE ~(j < m)
    BY <2>2, <1>1, <1>5
  <2> QED BY <2>1, <2>2
<1>7. \A i \in 1 .. Len(s) : i # m => \E j \in 1 .. Len(s) - 1 : t[j] = s[i]
  <2> TAKE i \in 1 .. Len(s)
  <2> HAVE i # m
  <2>1. CASE i < m
    <3>1. i \in 1 .. Len(s) - 1
      BY <2>1, <1>1
    <3> QED BY <3>1, <2>1, <1>5
  <2>2. CASE ~(i < m)
    <3>1. i - 1 \in 1 .. Len(s) - 1 /\ ~(i - 1 < m) /\ (i - 1) + 1 = i
      BY <2>2, <1>1
    <3>2. t[i - 1] = s[(i - 1) + 1]
      BY <3>1, <1>5
    <3> QED BY <3>1, <3>2
  <2> QED BY <2>1, <2>2
<1>8. LeafCovers(new, l, h)
  <2>1. \A j \in 1 .. Len(t) : l <= t[j].key /\ t[j].key < h
    BY <1>1, <1>3, <1>6
  <2> QED BY <2>1, <1>2, <1>3, <1>4 DEF LeafCovers
<1>9. \A i, j \in 1 .. Len(s) : i # j => s[i].key # s[j].key
  <2> SUFFICES ASSUME NEW i \in 1 .. Len(s), NEW j \in 1 .. Len(s), i # j, s[i].key = s[j].key
               PROVE  FALSE
    OBVIOUS
  <2>1. i < j \/ j < i
    BY <1>1
  <2>2. s[i].key < s[j].key \/ s[j].key < s[i].key
    BY <2>1, <1>1 DEF Ascending
  <2> QED BY <2>2, <1>1
<1>10. Pairs(new) = Pairs(node) \ {<<s[m].key, s[m].row_ref>>}
  <2>1. Pairs(node) = {<<s[i].key, s[i].row_ref>> : i \in 1 .. Len(s)}
    BY <1>1, PairsByPosition
  <2>2. Pairs(new) = {<<t[j].key, t[j].row_ref>> : j \in 1 .. Len(s) - 1}
    BY SMTT(30), <1>2, <1>3, PairsByPosition
  <2>3. \A x \in Pairs(new) : x \in Pairs(node) /\ x # <<s[m].key, s[m].row_ref>>
    <3> SUFFICES ASSUME NEW j \in 1 .. Len(s) - 1
                 PROVE  /\ <<t[j].key, t[j].row_ref>> \in Pairs(node)
                        /\ <<t[j].key, t[j].row_ref>> # <<s[m].key, s[m].row_ref>>
      BY <2>2
    <3>1. PICK i \in 1 .. Len(s) : i # m /\ t[j] = s[i]
      BY <1>6
    <3>2. s[i].key # s[m].key
      BY <3>1, <1>1, <1>9
    <3> HIDE DEF s
    <3> QED BY <3>1, <3>2, <2>1
  <2>4. \A x \in Pairs(node) : x # <<s[m].key, s[m].row_ref>> => x \in Pairs(new)
    <3> SUFFICES ASSUME NEW i \in 1 .. Len(s),
                        <<s[i].key, s[i].row_ref>> # <<s[m].key, s[m].row_ref>>
                 PROVE  <<s[i].key, s[i].row_ref>> \in Pairs(new)
      BY <2>1
    <3>1. i # m
      OBVIOUS
    <3>2. PICK j \in 1 .. Len(s) - 1 : t[j] = s[i]
      BY <3>1, <1>7
    <3> HIDE DEF s
    <3> QED BY <3>2, <2>2
  <2> HIDE DEF s
  <2> QED BY <2>3, <2>4
<1>11. ASSUME m = 1, Len(s) > 1 PROVE LeafCovers(new, s[2].key, h)
  <2>1. 2 \in 1 .. Len(s)
    BY <1>1, <1>11
  <2>2. ASSUME NEW j \in 1 .. Len(s) - 1 PROVE s[2].key <= t[j].key
    <3>1. j + 1 \in 1 .. Len(s) /\ t[j] = s[j + 1]
      BY <1>1, <1>5, <1>11
    <3>2. CASE j = 1
      BY <3>1, <3>2, <1>1, <2>1
    <3>3. CASE j # 1
      <4>1. 2 < j + 1
        BY <3>3
      <4>2. s[2].key < s[j + 1].key
        BY <4>1, <3>1, <2>1, <1>1 DEF Ascending
      <4> HIDE DEF s
      <4> QED BY <4>2, <3>1, <2>1, <1>1
    <3> QED BY <3>2, <3>3
  <2> QED BY <2>2, <1>2, <1>3, <1>4, <1>8 DEF LeafCovers
<1>12. ASSUME m = Len(s) PROVE LeafCovers(new, l, s[m].key)
  <2>1. ASSUME NEW j \in 1 .. Len(s) - 1 PROVE t[j].key < s[m].key
    <3>1. j < m /\ j \in 1 .. Len(s) /\ t[j] = s[j]
      BY <1>1, <1>5, <1>12
    <3> QED BY <3>1, <1>1 DEF Ascending
  <2> QED BY <2>1, <1>2, <1>3, <1>4, <1>8 DEF LeafCovers
<1> QED BY <1>2, <1>3, <1>8, <1>10, <1>11, <1>12

(* Two leaves become one. *)
Joined(a, b, new, l, h) ==
  /\ LeafCovers(new, l, h) /\ Len(new.entries) = Len(a.entries) + Len(b.entries)
  /\ Pairs(new) = Pairs(a) \cup Pairs(b)

(* A merge: two neighbouring leaves become one. *)
LEMMA LeafJoin ==
  ASSUME NEW a, NEW b, NEW l \in Int, NEW m \in Int, NEW h \in Int,
         LeafCovers(a, l, m), LeafCovers(b, m, h), l <= m, m <= h,
         NEW new, new.entries = a.entries \o b.entries
  PROVE  Joined(a, b, new, l, h)
<1> DEFINE s == a.entries
           t == b.entries
           u == s \o t
<1>1. /\ s \in Seq(LeafEntry) /\ Ascending(s) /\ Len(s) \in Nat
      /\ \A i \in 1 .. Len(s) : s[i].key \in Int /\ l <= s[i].key /\ s[i].key < m
      /\ t \in Seq(LeafEntry) /\ Ascending(t) /\ Len(t) \in Nat
      /\ \A i \in 1 .. Len(t) : t[i].key \in Int /\ m <= t[i].key /\ t[i].key < h
  BY EntryFacts DEF LeafCovers
<1>2. new.entries = u
  OBVIOUS
<1>3. /\ u \in Seq(LeafEntry) /\ Len(u) = Len(s) + Len(t)
      /\ \A i \in 1 .. Len(s) + Len(t) : u[i] = IF i <= Len(s) THEN s[i] ELSE t[i - Len(s)]
  <2> HIDE DEF s, t
  <2> QED BY <1>1, ConcatProperties
<1> HIDE DEF s, t, u
<1>4. \A i \in 1 .. Len(s) + Len(t) :
        /\ i <= Len(s) => i \in 1 .. Len(s) /\ u[i] = s[i]
        /\ ~(i <= Len(s)) => i - Len(s) \in 1 .. Len(t) /\ u[i] = t[i - Len(s)]
  BY <1>1, <1>3
<1>5. \A i \in 1 .. Len(s) : i \in 1 .. Len(s) + Len(t) /\ u[i] = s[i]
  BY <1>1, <1>3
<1>6. \A i \in 1 .. Len(t) : i + Len(s) \in 1 .. Len(s) + Len(t) /\ u[i + Len(s)] = t[i]
  <2> TAKE i \in 1 .. Len(t)
  <2>1. i + Len(s) \in 1 .. Len(s) + Len(t) /\ ~(i + Len(s) <= Len(s)) /\ (i + Len(s)) - Len(s) = i
    BY <1>1
  <2> QED BY <2>1, <1>3
<1>7. Ascending(u)
  <2> SUFFICES ASSUME NEW i \in 1 .. Len(s) + Len(t), NEW j \in 1 .. Len(s) + Len(t), i < j
               PROVE  u[i].key < u[j].key
    BY <1>3 DEF Ascending
  <2>1. CASE j <= Len(s)
    <3>1. i <= Len(s)
      BY <2>1, <1>1
    <3> QED BY <2>1, <3>1, <1>1, <1>4 DEF Ascending
  <2>2. CASE ~(j <= Len(s)) /\ i <= Len(s)
    <3>1. i \in 1 .. Len(s) /\ u[i] = s[i] /\ j - Len(s) \in 1 .. Len(t) /\ u[j] = t[j - Len(s)]
      BY <2>2, <1>4
    <3>2. s[i].key < m /\ m <= t[j - Len(s)].key /\ s[i].key \in Int /\ t[j - Len(s)].key \in Int
      BY <3>1, <1>1
    <3> QED BY <3>1, <3>2
  <2>3. CASE ~(i <= Len(s))
    <3>1. ~(j <= Len(s)) /\ i - Len(s) < j - Len(s)
      BY <2>3, <1>1
    <3>2. /\ i - Len(s) \in 1 .. Len(t) /\ u[i] = t[i - Len(s)]
          /\ j - Len(s) \in 1 .. Len(t) /\ u[j] = t[j - Len(s)]
      BY <2>3, <3>1, <1>4
    <3>3. t[i - Len(s)].key < t[j - Len(s)].key
      BY <3>1, <3>2, <1>1 DEF Ascending
    <3> QED BY <3>2, <3>3
  <2> QED BY <2>1, <2>2, <2>3
<1>8. \A i \in 1 .. Len(s) + Len(t) : l <= u[i].key /\ u[i].key < h
  <2> TAKE i \in 1 .. Len(s) + Len(t)
  <2>1. CASE i <= Len(s)
    BY SMTT(30), <2>1, <1>1, <1>4
  <2>2. CASE ~(i <= Len(s))
    <3>1. i - Len(s) \in 1 .. Len(t) /\ u[i] = t[i - Len(s)]
      BY <2>2, <1>4
    <3>2. m <= t[i - Len(s)].key /\ t[i - Len(s)].key < h /\ t[i - Len(s)].key \in Int
      BY <3>1, <1>1
    <3>3. l <= t[i - Len(s)].key
      BY <3>2
    <3> QED BY <3>1, <3>2, <3>3
  <2> QED BY <2>1, <2>2
<1>9. LeafCovers(new, l, h)
  BY <1>2, <1>3, <1>7, <1>8 DEF LeafCovers
<1>10. Pairs(new) = Pairs(a) \cup Pairs(b)
  <2>1. Pairs(a) = {<<s[i].key, s[i].row_ref>> : i \in 1 .. Len(s)}
    BY <1>1, PairsByPosition DEF s
  <2>2. Pairs(b) = {<<t[i].key, t[i].row_ref>> : i \in 1 .. Len(t)}
    BY <1>1, PairsByPosition DEF t
  <2>3. Pairs(new) = {<<u[j].key, u[j].row_ref>> : j \in 1 .. Len(s) + Len(t)}
    BY <1>2, <1>3, PairsOf
  <2>4. \A x \in Pairs(new) : x \in Pairs(a) \cup Pairs(b)
    BY <2>1, <2>2, <2>3, <1>4
  <2>5. \A x \in Pairs(a) : x \in Pairs(new)
    BY <2>1, <2>3, <1>5
  <2>6. \A x \in Pairs(b) : x \in Pairs(new)
    BY <2>2, <2>3, <1>6
  <2> QED BY <2>4, <2>5, <2>6
<1> QED BY <1>2, <1>3, <1>9, <1>10 DEF Joined, s, t

(* left and right are what split_leaf makes of a node with n entries left. *)
AreLeafHalves(node, n, left, right) ==
  /\ left.entries = SubSeq(node.entries, 1, n)
  /\ right.entries = SubSeq(node.entries, n + 1, Len(node.entries))

Halved(node, n, left, right, l, h, mid) ==
  /\ mid \in Keys /\ l < mid /\ mid < h
  /\ LeafCovers(left, l, mid) /\ LeafCovers(right, mid, h)
  /\ Len(left.entries) = n /\ Len(right.entries) = Len(node.entries) - n
  /\ Pairs(node) = Pairs(left) \cup Pairs(right)

(* One leaf becomes two, with the first key of the right one between them. *)
LEMMA LeafHalves ==
  ASSUME NEW node, NEW l \in Int, NEW h \in Int, LeafCovers(node, l, h),
         NEW n \in 1 .. Len(node.entries) - 1,
         NEW left, NEW right, AreLeafHalves(node, n, left, right)
  PROVE  Halved(node, n, left, right, l, h, node.entries[n + 1].key)
<1> DEFINE s == node.entries
           len == Len(s)
           mid == s[n + 1].key
           t == SubSeq(s, 1, n)
           u == SubSeq(s, n + 1, len)
<1>1. /\ s \in Seq(LeafEntry) /\ Ascending(s) /\ len \in Nat /\ n \in Nat
      /\ \A i \in 1 .. len : s[i].key \in Int /\ l <= s[i].key /\ s[i].key < h /\ s[i].key \in Keys
      /\ \A i, j \in 1 .. len : i < j => s[i].key < s[j].key
  BY EntryFacts DEF LeafCovers, Ascending
<1>2. left.entries = t /\ right.entries = u
  BY DEF AreLeafHalves
<1>3. /\ 1 \in 1 .. len + 1 /\ n \in 1 - 1 .. len /\ n + 1 \in 1 .. len + 1 /\ len \in (n + 1) - 1 .. len
      /\ n + 1 \in 1 .. len
  BY <1>1
<1>4. /\ t \in Seq(LeafEntry) /\ Len(t) = n - 1 + 1 /\ \A j \in 1 .. n - 1 + 1 : t[j] = s[1 + j - 1]
      /\ Ascending(t)
  <2> HIDE DEF s
  <2> QED BY <1>1, <1>3, Part, PartKeepsOrder
<1>5. /\ u \in Seq(LeafEntry) /\ Len(u) = len - (n + 1) + 1
      /\ \A j \in 1 .. len - (n + 1) + 1 : u[j] = s[(n + 1) + j - 1]
      /\ Ascending(u)
  <2> HIDE DEF s
  <2> QED BY <1>1, <1>3, Part, PartKeepsOrder
<1> HIDE DEF s, t, u, len
<1>6. Len(t) = n /\ \A j \in 1 .. n : j \in 1 .. len /\ j < n + 1 /\ t[j] = s[j]
  BY <1>1, <1>3, <1>4
<1>7. Len(u) = len - n /\ \A j \in 1 .. len - n : n + j \in 1 .. len /\ n + 1 <= n + j /\ u[j] = s[n + j]
  <2>1. len - (n + 1) + 1 = len - n
    BY <1>1
  <2>2. \A j \in 1 .. len - n : n + j \in 1 .. len /\ n + 1 <= n + j /\ (n + 1) + j - 1 = n + j
    BY <1>1
  <2> QED BY <2>1, <2>2, <1>5
<1>8. \A i \in 1 .. len : i \in 1 .. n \/ (i - n \in 1 .. len - n /\ n + (i - n) = i)
  BY <1>1
<1>9. mid \in Keys /\ mid \in Int /\ mid < h
  BY <1>1, <1>3
<1>10. l < mid
  <2>1. 1 \in 1 .. len /\ 1 < n + 1
    BY <1>1, <1>3
  <2> QED BY SMTT(30), <2>1, <1>1, <1>3
<1>11. LeafCovers(left, l, mid)
  <2>1. \A j \in 1 .. n : l <= t[j].key /\ t[j].key < mid
    BY <1>1, <1>3, <1>6
  <2> QED BY <2>1, <1>2, <1>4, <1>6 DEF LeafCovers
<1>12. LeafCovers(right, mid, h)
  <2>1. \A j \in 1 .. len - n : mid <= u[j].key /\ u[j].key < h
    <3> TAKE j \in 1 .. len - n
    <3>1. n + j \in 1 .. len /\ u[j] = s[n + j]
      BY <1>7
    <3>2. n + 1 = n + j \/ n + 1 < n + j
      BY <1>1
    <3>3. s[n + j].key \in Int /\ s[n + j].key < h
      BY <3>1, <1>1
    <3>4. mid <= s[n + j].key
      <4>1. CASE n + 1 = n + j
        BY <4>1, <3>3
      <4>2. CASE n + 1 < n + j
        <5>1. mid < s[n + j].key
          BY <4>2, <3>1, <1>1, <1>3
        <5> HIDE DEF mid
        <5> QED BY <5>1, <3>3, <1>9
      <4> QED BY <3>2, <4>1, <4>2
    <3> HIDE DEF mid
    <3> QED BY <3>1, <3>3, <3>4
  <2> QED BY <2>1, <1>2, <1>5, <1>7 DEF LeafCovers
<1>13. Pairs(node) = Pairs(left) \cup Pairs(right)
  <2>1. Pairs(left) = {<<t[i].key, t[i].row_ref>> : i \in 1 .. n}
    BY <1>2, <1>4, <1>6, PairsOf
  <2>2. Pairs(right) = {<<u[i].key, u[i].row_ref>> : i \in 1 .. len - n}
    BY <1>2, <1>5, <1>7, PairsOf
  <2>3. Pairs(node) = {<<s[j].key, s[j].row_ref>> : j \in 1 .. len}
    BY <1>1, PairsByPosition DEF s, len
  <2>4. \A x \in Pairs(left) : x \in Pairs(node)
    BY <2>1, <2>3, <1>6
  <2>5. \A x \in Pairs(right) : x \in Pairs(node)
    BY <2>2, <2>3, <1>7
  <2>6. \A i \in 1 .. len : <<s[i].key, s[i].row_ref>> \in Pairs(left) \cup Pairs(right)
    <3> TAKE i \in 1 .. len
    <3>1. CASE i \in 1 .. n
      BY <3>1, <2>1, <1>6
    <3>2. CASE i - n \in 1 .. len - n /\ n + (i - n) = i
      <4>1. u[i - n] = s[i]
        BY <3>2, <1>7
      <4> QED BY <4>1, <3>2, <2>2
    <3> QED BY <3>1, <3>2, <1>8
  <2> QED BY <2>3, <2>4, <2>5, <2>6
<1> QED BY <1>2, <1>6, <1>7, <1>9, <1>10, <1>11, <1>12, <1>13 DEF Halved, s, len, mid

-----------------------------------------------------------------------------
(* Pages *)

Entries == Seq(LeafEntry) \cup Seq(InternalEntry)

(* The fields of a page and their types. *)
LEMMA NodeFacts ==
  ASSUME NEW n \in Node
  PROVE  /\ n.type \in {"ZERO", "FREE", "HEAP", "LEAF", "INTERNAL"} /\ n.parent \in Links
         /\ n.left \in Links /\ n.next \in Links /\ n.prev \in Links /\ n.entries \in Entries
BY DEF Node, Entries

(* A page with one field changed. *)
LEMMA NewEntries ==
  ASSUME NEW n \in Node, NEW s \in Entries
  PROVE  LET m == [n EXCEPT !.entries = s]
         IN  /\ m \in Node /\ m.entries = s /\ m.type = n.type /\ m.parent = n.parent
             /\ m.left = n.left /\ m.next = n.next /\ m.prev = n.prev
BY DEF Node, Entries

(* A page with another link is a page, and nothing else about it changes. *)
LEMMA NewLink ==
  ASSUME NEW n \in Node, NEW q \in Links
  PROVE  /\ LET m == [n EXCEPT !.prev = q]
            IN  /\ m \in Node /\ m.entries = n.entries /\ m.type = n.type /\ m.parent = n.parent
                /\ m.left = n.left /\ m.next = n.next /\ m.prev = q
         /\ LET m == [n EXCEPT !.next = q]
            IN  /\ m \in Node /\ m.entries = n.entries /\ m.type = n.type /\ m.parent = n.parent
                /\ m.left = n.left /\ m.next = q /\ m.prev = n.prev
         /\ LET m == [n EXCEPT !.parent = q]
            IN  /\ m \in Node /\ m.entries = n.entries /\ m.type = n.type /\ m.parent = q
                /\ m.left = n.left /\ m.next = n.next /\ m.prev = n.prev
BY DEF Node

(* The pages that bptree.c formats, field by field. *)
LEMMA NewNodes ==
  /\ \A q \in Links :
       /\ FreeNode(q) \in Node /\ FreeNode(q).type = "FREE" /\ FreeNode(q).next = q
       /\ FreeNode(q).entries = <<>>
  /\ \A parent, next, prev \in Links, s \in Seq(LeafEntry) :
       /\ LeafNode(parent, next, prev, s) \in Node
       /\ LeafNode(parent, next, prev, s).type = "LEAF"
       /\ LeafNode(parent, next, prev, s).parent = parent
       /\ LeafNode(parent, next, prev, s).entries = s
       /\ LeafNode(parent, next, prev, s).next = next
       /\ LeafNode(parent, next, prev, s).prev = prev
  /\ \A parent, left \in Links, s \in Seq(InternalEntry) :
       /\ InternalNode(parent, left, s) \in Node
       /\ InternalNode(parent, left, s).type = "INTERNAL"
       /\ InternalNode(parent, left, s).parent = parent
       /\ InternalNode(parent, left, s).left = left
       /\ InternalNode(parent, left, s).entries = s
<1>1. NULL \in Links /\ <<>> \in Seq(LeafEntry)
  BY FileAssumption DEF Links, NULL
<1>2. \A q \in Links :
       /\ FreeNode(q) \in Node /\ FreeNode(q).type = "FREE" /\ FreeNode(q).next = q
       /\ FreeNode(q).entries = <<>>
  BY <1>1 DEF FreeNode, ZeroNode, Node
<1>3. \A parent, next, prev \in Links, s \in Seq(LeafEntry) :
       /\ LeafNode(parent, next, prev, s) \in Node
       /\ LeafNode(parent, next, prev, s).type = "LEAF"
       /\ LeafNode(parent, next, prev, s).parent = parent
       /\ LeafNode(parent, next, prev, s).entries = s
       /\ LeafNode(parent, next, prev, s).next = next
       /\ LeafNode(parent, next, prev, s).prev = prev
  BY <1>1 DEF LeafNode, Node
<1>4. \A parent, left \in Links, s \in Seq(InternalEntry) :
       /\ InternalNode(parent, left, s) \in Node
       /\ InternalNode(parent, left, s).type = "INTERNAL"
       /\ InternalNode(parent, left, s).parent = parent
       /\ InternalNode(parent, left, s).left = left
       /\ InternalNode(parent, left, s).entries = s
  BY <1>1 DEF InternalNode, Node
<1> QED BY <1>2, <1>3, <1>4

(* Page numbers are links, and so is NULL. *)
LEMMA PageFacts == /\ PageIds \subseteq Links /\ NULL \in Links /\ NULL \notin PageIds
                   /\ PageIds \subseteq Nat /\ Links \subseteq Nat
                   /\ \A q \in Links : q # NULL => q \in PageIds
                   /\ FirstHeapPage \in PageIds /\ FirstRootPage \in PageIds
BY FileAssumption DEF PageIds, Links, NULL, FirstHeapPage, FirstRootPage

-----------------------------------------------------------------------------
(* The allocator *)

HeaderType == [root : PageIds, free : Links, next : 1 .. MaxPage + 1]

NextOf(pg) == [q \in PageIds |-> pg[q].next]
FreeOf(pg) == {p \in PageIds : pg[p].type = "FREE"}

FreeListed(pg, first) ==
  \E c, n : IsChain(NextOf(pg), first, c, n) /\ ChainNodes(c, n) = FreeOf(pg)

(* The free pages are on the free list, the pages behind header.next have  *)
(* not been used, and nothing but a node has entries.                      *)
Allocated(pg, hd, hp) ==
  /\ pg \in [PageIds -> Node] /\ hd \in HeaderType
  /\ \A p \in PageIds : pg[p].type = "ZERO" <=> p >= hd.next
  /\ \A p \in PageIds : pg[p].type = "HEAP" <=> p \in hp
  /\ \A p \in PageIds : p \notin NodesOf(pg) => pg[p].entries = <<>>
  /\ FreeListed(pg, hd.free)

(* Nodes are told by their page type. *)
LEMMA NodeKinds ==
  ASSUME NEW pg, NEW p \in PageIds
  PROVE  p \in NodesOf(pg) <=> pg[p].type \in {"LEAF", "INTERNAL"}
BY DEF NodesOf, LeavesOf, InnersOf

(* A step that changes no page type and no page outside the tree leaves    *)
(* the allocator right.                                                    *)
LEMMA AllocationKept ==
  ASSUME NEW hp, NEW pg, NEW hd, Allocated(pg, hd, hp), NEW pg2 \in [PageIds -> Node], NEW hd2 \in HeaderType,
         hd2.free = hd.free, hd2.next = hd.next,
         \A p \in PageIds :
           /\ pg2[p].type = pg[p].type
           /\ p \notin NodesOf(pg) => pg2[p].next = pg[p].next /\ pg2[p].entries = pg[p].entries
  PROVE  Allocated(pg2, hd2, hp)
<1>1. NodesOf(pg2) = NodesOf(pg) /\ FreeOf(pg2) = FreeOf(pg)
  BY DEF NodesOf, LeavesOf, InnersOf, FreeOf
<1>2. PICK c, n : IsChain(NextOf(pg), hd.free, c, n) /\ ChainNodes(c, n) = FreeOf(pg)
  BY DEF Allocated, FreeListed
<1>3. DOMAIN NextOf(pg) = PageIds /\ DOMAIN NextOf(pg2) = PageIds /\ 0 \notin PageIds
  BY PageFacts DEF NextOf, NULL
<1>4. \A p \in FreeOf(pg) : NextOf(pg2)[p] = NextOf(pg)[p]
  BY DEF FreeOf, NextOf, NodesOf, LeavesOf, InnersOf
<1>5. IsChain(NextOf(pg2), hd.free, c, n)
  BY <1>2, <1>3, <1>4, ChainUndisturbed
<1>6. FreeListed(pg2, hd2.free)
  BY <1>1, <1>2, <1>5 DEF FreeListed
<1> QED BY <1>1, <1>6 DEF Allocated

PageTaken(pg, hd) == IF hd.free # NULL THEN hd.free ELSE hd.next

(* pager_alloc_page returns a page of the file that is not a node. *)
LEMMA NewPageFacts ==
  ASSUME NEW hp, NEW pg, NEW hd, Allocated(pg, hd, hp), hd.free # NULL \/ hd.next <= MaxPage
  PROVE  /\ PageTaken(pg, hd) \in PageIds /\ PageTaken(pg, hd) \notin NodesOf(pg)
         /\ hd.free # NULL => /\ pg[hd.free].next \in Links /\ pg[hd.free].type = "FREE"
         /\ hd.free = NULL => /\ hd.next + 1 \in 1 .. MaxPage + 1 /\ pg[hd.next].type = "ZERO"
<1>1. hd.free \in Links /\ hd.next \in 1 .. MaxPage + 1 /\ MaxPage \in Nat
  BY FileAssumption DEF Allocated, HeaderType
<1>2. CASE hd.free # NULL
  <2>1. hd.free \in PageIds
    BY <1>1, <1>2, PageFacts
  <2>2. PICK c, n : IsChain(NextOf(pg), hd.free, c, n) /\ ChainNodes(c, n) = FreeOf(pg)
    BY DEF Allocated, FreeListed
  <2>3. hd.free \in FreeOf(pg)
    BY <1>2, <2>2, ChainPop DEF NULL
  <2>4. pg[hd.free] \in Node
    BY <2>1 DEF Allocated
  <2>5. pg[hd.free].next \in Links
    BY <2>4, NodeFacts
  <2> QED BY <1>2, <2>1, <2>3, <2>5, NodeKinds DEF FreeOf, PageTaken
<1>3. CASE hd.free = NULL
  <2>1. hd.next \in PageIds /\ hd.next + 1 \in 1 .. MaxPage + 1
    BY <1>1, <1>3 DEF PageIds
  <2>2. hd.next >= hd.next
    BY <1>1
  <2>3. pg[hd.next].type = "ZERO"
    BY <2>1, <2>2 DEF Allocated
  <2> QED BY <1>3, <2>1, <2>3, NodeKinds DEF PageTaken
<1> QED BY <1>2, <1>3

(* A page leaves the free list, or is the first one never used. *)
LEMMA PageLeavesList ==
  ASSUME NEW hp, NEW pg, NEW hd, Allocated(pg, hd, hp), hd.free # NULL \/ hd.next <= MaxPage,
         NEW y, y = PageTaken(pg, hd),
         NEW pg2 \in [PageIds -> Node], NEW hd2 \in HeaderType,
         hd2.free = (IF hd.free # NULL THEN pg[hd.free].next ELSE NULL),
         hd2.next = (IF hd.free # NULL THEN hd.next ELSE hd.next + 1),
         pg2[y].type \in {"LEAF", "INTERNAL", "HEAP"},
         \A p \in PageIds : p # y =>
           /\ pg2[p].type = pg[p].type
           /\ p \notin NodesOf(pg) => pg2[p].next = pg[p].next /\ pg2[p].entries = pg[p].entries
  PROVE  /\ FreeListed(pg2, hd2.free)
         /\ \A p \in PageIds : pg2[p].type = "ZERO" <=> p >= hd2.next
         /\ y \in PageIds /\ pg[y].type \in {"ZERO", "FREE"}
<1>0. /\ y \in PageIds /\ y \notin NodesOf(pg)
      /\ hd.free # NULL => pg[hd.free].next \in Links /\ pg[hd.free].type = "FREE"
      /\ hd.free = NULL => hd.next + 1 \in 1 .. MaxPage + 1 /\ pg[hd.next].type = "ZERO"
  BY NewPageFacts
<1>1. FreeOf(pg2) = FreeOf(pg) \ {y}
  BY <1>0 DEF FreeOf
<1>2. PICK c, n : IsChain(NextOf(pg), hd.free, c, n) /\ ChainNodes(c, n) = FreeOf(pg)
  BY DEF Allocated, FreeListed
<1>3. DOMAIN NextOf(pg) = PageIds /\ DOMAIN NextOf(pg2) = PageIds /\ 0 \notin PageIds
  BY PageFacts DEF NextOf, NULL
<1>4. \A p \in FreeOf(pg) : p # y => NextOf(pg2)[p] = NextOf(pg)[p]
  BY DEF FreeOf, NextOf, NodesOf, LeavesOf, InnersOf
<1>5. FreeListed(pg2, hd2.free)
  <2>1. CASE hd.free # NULL
    <3>1. y = hd.free
      BY <2>1 DEF PageTaken
    <3>2. hd2.free = NextOf(pg)[hd.free]
      BY <2>1, <3>1, <1>0 DEF NextOf
    <3>3. PICK d : /\ IsChain(NextOf(pg), NextOf(pg)[hd.free], d, n - 1)
                   /\ ChainNodes(d, n - 1) = ChainNodes(c, n) \ {hd.free}
      BY <2>1, <1>2, ChainPop DEF NULL
    <3>4. IsChain(NextOf(pg2), hd2.free, d, n - 1)
      BY <3>1, <3>2, <3>3, <1>2, <1>3, <1>4, ChainUndisturbed
    <3> QED BY <3>1, <3>3, <3>4, <1>1, <1>2 DEF FreeListed
  <2>2. CASE hd.free = NULL
    <3>1. y = hd.next /\ hd2.free = hd.free
      BY <2>2 DEF PageTaken
    <3>2. y \notin FreeOf(pg)
      BY <3>1, <2>2, <1>0 DEF FreeOf
    <3>3. IsChain(NextOf(pg2), hd2.free, c, n)
      BY <3>1, <3>2, <1>2, <1>3, <1>4, ChainUndisturbed
    <3> QED BY <3>2, <3>3, <1>1, <1>2 DEF FreeListed
  <2> QED BY <2>1, <2>2
<1>6. \A p \in PageIds : pg2[p].type = "ZERO" <=> p >= hd2.next
  <2>1. \A p \in PageIds : pg[p].type = "ZERO" <=> p >= hd.next
    BY DEF Allocated
  <2>2. hd.next \in Nat /\ PageIds \subseteq Nat
    BY PageFacts DEF Allocated, HeaderType
  <2>3. CASE hd.free # NULL
    BY <2>1, <2>3, <1>0 DEF PageTaken
  <2>4. CASE hd.free = NULL
    <3>1. y = hd.next /\ hd2.next = hd.next + 1
      BY <2>4 DEF PageTaken
    <3>2. ASSUME NEW p \in PageIds PROVE pg2[p].type = "ZERO" <=> p >= hd2.next
      <4>1. CASE p = y
        BY <4>1, <3>1, <2>2
      <4>2. CASE p # y
        <5>1. pg2[p].type = "ZERO" <=> p >= hd.next
          BY <4>2, <2>1
        <5>2. p >= hd.next <=> p >= hd.next + 1
          BY <4>2, <3>1, <2>2
        <5> QED BY <5>1, <5>2, <3>1
      <4> QED BY <4>1, <4>2
    <3> QED BY <3>2
  <2> QED BY <2>3, <2>4
<1>7. pg[y].type \in {"ZERO", "FREE"}
  BY <1>0 DEF PageTaken
<1> QED BY <1>0, <1>5, <1>6, <1>7

(* Formatting the page that pager_alloc_page returns as a node leaves the  *)
(* allocator right.                                                        *)
LEMMA AllocationTakes ==
  ASSUME NEW hp, NEW pg, NEW hd, Allocated(pg, hd, hp), hd.free # NULL \/ hd.next <= MaxPage,
         NEW y, y = PageTaken(pg, hd),
         NEW pg2 \in [PageIds -> Node], NEW hd2 \in HeaderType,
         hd2.free = (IF hd.free # NULL THEN pg[hd.free].next ELSE NULL),
         hd2.next = (IF hd.free # NULL THEN hd.next ELSE hd.next + 1),
         pg2[y].type \in {"LEAF", "INTERNAL"},
         \A p \in PageIds : p # y =>
           /\ pg2[p].type = pg[p].type
           /\ p \notin NodesOf(pg) => pg2[p].next = pg[p].next /\ pg2[p].entries = pg[p].entries
  PROVE  Allocated(pg2, hd2, hp)
<1>1. /\ FreeListed(pg2, hd2.free)
      /\ \A p \in PageIds : pg2[p].type = "ZERO" <=> p >= hd2.next
      /\ y \in PageIds /\ pg[y].type \in {"ZERO", "FREE"}
  BY PageLeavesList
<1>2. NodesOf(pg2) = NodesOf(pg) \cup {y}
  BY <1>1 DEF NodesOf, LeavesOf, InnersOf
<1>3. \A p \in PageIds : pg2[p].type = "HEAP" <=> p \in hp
  BY <1>1 DEF Allocated
<1> QED BY <1>1, <1>2, <1>3 DEF Allocated

(* The row heap takes a page. *)
LEMMA HeapTakes ==
  ASSUME NEW hp, NEW pg, NEW hd, Allocated(pg, hd, hp), hd.free # NULL \/ hd.next <= MaxPage,
         NEW y, y = PageTaken(pg, hd),
         NEW pg2 \in [PageIds -> Node], NEW hd2 \in HeaderType,
         hd2.free = (IF hd.free # NULL THEN pg[hd.free].next ELSE NULL),
         hd2.next = (IF hd.free # NULL THEN hd.next ELSE hd.next + 1),
         pg2[y].type = "HEAP", pg2[y].entries = <<>>,
         \A p \in PageIds : p # y => pg2[p] = pg[p]
  PROVE  /\ Allocated(pg2, hd2, hp \cup {y}) /\ y \in PageIds \ hp
         /\ LeavesOf(pg2) = LeavesOf(pg) /\ InnersOf(pg2) = InnersOf(pg) /\ y \notin NodesOf(pg)
<1>1. /\ FreeListed(pg2, hd2.free)
      /\ \A p \in PageIds : pg2[p].type = "ZERO" <=> p >= hd2.next
      /\ y \in PageIds /\ pg[y].type \in {"ZERO", "FREE"}
  BY PageLeavesList
<1>2. /\ LeavesOf(pg2) = LeavesOf(pg) /\ InnersOf(pg2) = InnersOf(pg) /\ y \notin NodesOf(pg)
  BY <1>1 DEF NodesOf, LeavesOf, InnersOf
<1>3. y \notin hp /\ \A p \in PageIds : pg2[p].type = "HEAP" <=> p \in hp \cup {y}
  BY <1>1 DEF Allocated
<1>4. \A p \in PageIds : p \notin NodesOf(pg2) => pg2[p].entries = <<>>
  BY <1>2 DEF Allocated, NodesOf
<1> QED BY <1>1, <1>2, <1>3, <1>4 DEF Allocated

(* pager_free_page puts a node at the head of the free list and leaves the *)
(* allocator right.                                                        *)
LEMMA AllocationGives ==
  ASSUME NEW hp, NEW pg, NEW hd, Allocated(pg, hd, hp), NEW y \in NodesOf(pg),
         NEW pg2 \in [PageIds -> Node], NEW hd2 \in HeaderType,
         hd2.free = y, hd2.next = hd.next,
         pg2[y].type = "FREE", pg2[y].next = hd.free, pg2[y].entries = <<>>,
         \A p \in PageIds : p # y =>
           /\ pg2[p].type = pg[p].type
           /\ p \notin NodesOf(pg) => pg2[p].next = pg[p].next /\ pg2[p].entries = pg[p].entries
  PROVE  Allocated(pg2, hd2, hp)
<1>0. y \in PageIds /\ pg[y].type \in {"LEAF", "INTERNAL"}
  BY DEF NodesOf, LeavesOf, InnersOf
<1>1. NodesOf(pg2) = NodesOf(pg) \ {y} /\ FreeOf(pg2) = FreeOf(pg) \cup {y} /\ y \notin FreeOf(pg)
  BY <1>0 DEF NodesOf, LeavesOf, InnersOf, FreeOf
<1>2. PICK c, n : IsChain(NextOf(pg), hd.free, c, n) /\ ChainNodes(c, n) = FreeOf(pg)
  BY DEF Allocated, FreeListed
<1>3. DOMAIN NextOf(pg) = PageIds /\ DOMAIN NextOf(pg2) = PageIds /\ 0 \notin PageIds
  BY PageFacts DEF NextOf, NULL
<1>4. \A p \in FreeOf(pg) : NextOf(pg2)[p] = NextOf(pg)[p]
  BY <1>1 DEF FreeOf, NextOf, NodesOf, LeavesOf, InnersOf
<1>5. NextOf(pg2)[y] = hd.free
  BY <1>0 DEF NextOf
<1>6. \E d : IsChain(NextOf(pg2), y, d, n + 1) /\ ChainNodes(d, n + 1) = ChainNodes(c, n) \cup {y}
  BY <1>0, <1>1, <1>2, <1>3, <1>4, <1>5, ChainPush
<1>7. FreeListed(pg2, hd2.free)
  BY <1>1, <1>2, <1>6 DEF FreeListed
<1>8. \A p \in PageIds : pg2[p].type = "ZERO" <=> p >= hd2.next
  BY <1>0 DEF Allocated
<1>9. \A p \in PageIds : pg2[p].type = "HEAP" <=> p \in hp
  BY <1>0 DEF Allocated
<1> QED BY <1>1, <1>7, <1>8, <1>9 DEF Allocated

=============================================================================
