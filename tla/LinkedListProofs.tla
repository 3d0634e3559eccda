------------------------- MODULE LinkedListProofs -------------------------
(***************************************************************************)
(* Linked lists as finite sequences of distinct nodes (IsChain), on which  *)
(* pushing, popping and appending are simple.  WalkFollowsTheChain and     *)
(* NodesOfTheChain connect them with the recursive Walk, for lists and     *)
(* files of every length.                                                  *)
(***************************************************************************)
EXTENDS LinkedLists, FiniteSetTheorems, SequenceTheorems, SequencesExt, WellFoundedInduction, TLAPS

(* c[0 .. n] is the list that starts at head: n distinct nodes, each       *)
(* linked to the next one by the function next, then 0.                    *)
IsChain(next, head, c, n) ==
  /\ 0 \notin DOMAIN next
  /\ n \in Nat /\ c \in [0 .. n -> DOMAIN next \cup {0}]
  /\ c[0] = head /\ c[n] = 0
  /\ \A k \in 0 .. n - 1 : c[k] \in DOMAIN next /\ c[k + 1] = next[c[k]]
  /\ \A j, k \in 0 .. n - 1 : c[j] = c[k] => j = k

ChainNodes(c, n) == {c[k] : k \in 0 .. n - 1}

-----------------------------------------------------------------------------
(* Numbers *)

(* The least-number principle, for sets. *)
LEMMA LeastElement ==
  ASSUME NEW S \in SUBSET Nat, S # {}
  PROVE  \E m \in S : \A k \in S : m <= k
<1> DEFINE lt == OpToRel(<, Nat)
<1>1. \E m \in S : \A k \in S : ~ (<<k, m>> \in lt)
  <2>1. IsWellFoundedOn(lt, Nat) BY NatLessThanWellFounded
  <2> HIDE DEF lt
  <2> QED BY <2>1, WFMin
<1>2. \A k, m \in Nat : <<k, m>> \in lt <=> k < m
  BY DEF OpToRel
<1> HIDE DEF lt
<1>3. \A k, m \in S : ~(<<k, m>> \in lt) => m <= k
  BY <1>2
<1> QED BY <1>1, <1>3

(* Induction over the rounds of a loop, for a set of rounds.               *)
LEMMA EveryRound ==
  ASSUME NEW n \in Nat, NEW S, 0 \in S, \A k \in 1 .. n : k - 1 \in S => k \in S
  PROVE  \A k \in 0 .. n : k \in S
<1> DEFINE Missed == {k \in 0 .. n : k \notin S}
<1> SUFFICES ASSUME Missed # {} PROVE FALSE
  OBVIOUS
<1>1. Missed \in SUBSET Nat
  OBVIOUS
<1>2. PICK k \in Missed : \A j \in Missed : k <= j
  <2> HIDE DEF Missed
  <2> QED BY <1>1, LeastElement
<1>3. k \in 0 .. n /\ k \notin S /\ k # 0
  BY <1>2
<1>4. k \in 1 .. n /\ k - 1 \in 0 .. n /\ ~(k <= k - 1)
  BY <1>3
<1>5. k - 1 \in S
  BY <1>2, <1>4
<1> QED BY <1>3, <1>4, <1>5

-----------------------------------------------------------------------------
(* Lists *)

(* A node of the list that is not its last one has a node behind it. *)
LEMMA ChainSuccessor ==
  ASSUME NEW next, NEW head, NEW c, NEW n, IsChain(next, head, c, n),
         NEW p \in ChainNodes(c, n)
  PROVE  /\ p \in DOMAIN next
         /\ next[p] = 0 => p = c[n - 1]
         /\ next[p] # 0 => next[p] \in ChainNodes(c, n)
<1>1. PICK k \in 0 .. n - 1 : p = c[k]
  BY DEF ChainNodes
<1>2. n \in Nat /\ p \in DOMAIN next /\ c[k + 1] = next[p]
  BY <1>1 DEF IsChain
<1>3. CASE k = n - 1
  BY <1>1, <1>2, <1>3 DEF IsChain
<1>4. CASE k # n - 1
  <2>1. k + 1 \in 0 .. n - 1
    BY <1>1, <1>2, <1>4
  <2>2. c[k + 1] \in DOMAIN next /\ c[k + 1] \in ChainNodes(c, n)
    BY <2>1 DEF IsChain, ChainNodes
  <2> QED BY <1>2, <2>2 DEF IsChain
<1> QED BY <1>3, <1>4

(* The list depends on the links of its own nodes only. *)
LEMMA ChainUndisturbed ==
  ASSUME NEW next, NEW next2, DOMAIN next \subseteq DOMAIN next2, 0 \notin DOMAIN next2,
         NEW head, NEW c, NEW n, IsChain(next, head, c, n),
         \A p \in ChainNodes(c, n) : next2[p] = next[p]
  PROVE  IsChain(next2, head, c, n)
<1>1. c \in [0 .. n -> DOMAIN next2 \cup {0}]
  BY DEF IsChain
<1> QED BY <1>1 DEF IsChain, ChainNodes

(* A node in front. *)
LEMMA ChainPush ==
  ASSUME NEW next, NEW next2, DOMAIN next2 = DOMAIN next, NEW head, NEW c, NEW n, IsChain(next, head, c, n),
         NEW p \in DOMAIN next, p \notin ChainNodes(c, n), next2[p] = head,
         \A q \in ChainNodes(c, n) : next2[q] = next[q]
  PROVE  \E d : IsChain(next2, p, d, n + 1) /\ ChainNodes(d, n + 1) = ChainNodes(c, n) \cup {p}
<1> DEFINE d == [k \in 0 .. n + 1 |-> IF k = 0 THEN p ELSE c[k - 1]]
<1>1. n \in Nat /\ c \in [0 .. n -> (DOMAIN next \cup {0})] /\ c[0] = head /\ c[n] = 0
  BY DEF IsChain
<1>2. d[0] = p /\ \A k \in 0 .. n : d[k + 1] = c[k]
  BY <1>1
<1>3. d \in [0 .. n + 1 -> (DOMAIN next \cup {0})]
  <2>1. ASSUME NEW k \in 0 .. n + 1 PROVE d[k] \in (DOMAIN next \cup {0})
    <3>1. CASE k = 0
      BY <3>1
    <3>2. CASE k # 0
      <4>1. k - 1 \in 0 .. n
        BY <1>1, <3>2
      <4> QED BY <4>1, <1>1, <3>2
    <3> QED BY <3>1, <3>2
  <2> QED BY <2>1
<1> HIDE DEF d
<1>4. \A k \in 0 .. n + 1 : k = 0 \/ (k - 1 \in 0 .. n /\ d[k] = c[k - 1])
  BY <1>1, <1>2
<1>5. \A k \in 0 .. n : k = 0 \/ (k - 1 \in 0 .. n - 1 /\ d[k] = c[k - 1])
  BY <1>1, <1>2
<1>6. \A k \in 0 .. n - 1 : c[k] \in ChainNodes(c, n) /\ c[k] \in DOMAIN next
        /\ c[k + 1] = next2[c[k]]
  BY DEF IsChain, ChainNodes
<1>7. \A k \in 0 .. n : d[k] \in DOMAIN next /\ d[k + 1] = next2[d[k]]
  <2> TAKE k \in 0 .. n
  <2>1. d[k + 1] = c[k]
    BY <1>2
  <2>2. CASE k = 0
    BY <2>1, <2>2, <1>1, <1>2
  <2>3. CASE k # 0
    <3>1. k - 1 \in 0 .. n - 1 /\ d[k] = c[k - 1] /\ (k - 1) + 1 = k
      BY <2>3, <1>1, <1>5
    <3> QED BY <2>1, <3>1, <1>6
  <2> QED BY <2>2, <2>3
<1>8. \A j, k \in 0 .. n : d[j] = d[k] => j = k
  <2> SUFFICES ASSUME NEW j \in 0 .. n, NEW k \in 0 .. n, d[j] = d[k] PROVE j = k
    OBVIOUS
  <2>1. \A i \in 0 .. n : i # 0 => d[i] # p
    BY <1>5, <1>6
  <2>2. CASE j = 0 \/ k = 0
    BY <2>1, <2>2, <1>2
  <2>3. CASE j # 0 /\ k # 0
    <3>1. j - 1 \in 0 .. n - 1 /\ k - 1 \in 0 .. n - 1 /\ c[j - 1] = c[k - 1]
      BY <2>3, <1>5
    <3>2. j - 1 = k - 1
      BY <3>1 DEF IsChain
    <3> QED BY <3>2
  <2> QED BY <2>2, <2>3
<1>9. ChainNodes(d, n + 1) = ChainNodes(c, n) \cup {p}
  <2>1. ChainNodes(d, n + 1) = {d[k] : k \in 0 .. n}
    BY <1>1 DEF ChainNodes
  <2>2. \A k \in 0 .. n : d[k] \in ChainNodes(c, n) \cup {p}
    BY <1>2, <1>5, <1>6
  <2>3. \A k \in 0 .. n - 1 : k + 1 \in 0 .. n /\ d[k + 1] = c[k]
    BY <1>1, <1>2
  <2>4. p \in {d[k] : k \in 0 .. n}
    BY <1>1, <1>2
  <2>5. \A q \in ChainNodes(c, n) : q \in {d[k] : k \in 0 .. n}
    BY <2>3 DEF ChainNodes
  <2> QED BY <2>1, <2>2, <2>4, <2>5
<1>10. IsChain(next2, p, d, n + 1)
  <2>1. n + 1 \in Nat /\ (n + 1) - 1 = n /\ d[n + 1] = 0
    BY <1>1, <1>2
  <2> QED BY <2>1, <1>2, <1>3, <1>7, <1>8 DEF IsChain
<1> QED BY <1>9, <1>10

(* The first node off. *)
LEMMA ChainPop ==
  ASSUME NEW next, NEW head, NEW c, NEW n, IsChain(next, head, c, n), head # 0
  PROVE  /\ n > 0 /\ head \in ChainNodes(c, n)
         /\ \E d : /\ IsChain(next, next[head], d, n - 1)
                   /\ ChainNodes(d, n - 1) = ChainNodes(c, n) \ {head}
<1> DEFINE d == [k \in 0 .. n - 1 |-> c[k + 1]]
<1>1. n \in Nat /\ n > 0 /\ c \in [0 .. n -> (DOMAIN next \cup {0})] /\ c[0] = head /\ c[n] = 0
  BY DEF IsChain
<1>2. d \in [0 .. n - 1 -> (DOMAIN next \cup {0})]
  BY <1>1
<1>3. \A k \in 0 .. n - 1 : d[k] = c[k + 1]
  OBVIOUS
<1> HIDE DEF d
<1>4. head \in ChainNodes(c, n)
  <2>1. 0 \in 0 .. n - 1
    BY <1>1
  <2> QED BY <1>1, <2>1 DEF ChainNodes
<1>5. IsChain(next, next[head], d, n - 1)
  <2>1. n - 1 \in Nat /\ d[0] = next[head] /\ d[n - 1] = 0
    BY <1>1, <1>3 DEF IsChain
  <2>2. \A k \in 0 .. (n - 1) - 1 : /\ k \in 0 .. n - 1 /\ k + 1 \in 0 .. n - 1
                                    /\ d[k] = c[k + 1] /\ d[k + 1] = c[(k + 1) + 1]
    BY <1>1, <1>3
  <2>3. \A k \in 0 .. (n - 1) - 1 : d[k] \in DOMAIN next /\ d[k + 1] = next[d[k]]
    BY <2>2 DEF IsChain
  <2>4. \A j, k \in 0 .. (n - 1) - 1 : d[j] = d[k] => j = k
    <3> SUFFICES ASSUME NEW j \in 0 .. (n - 1) - 1, NEW k \in 0 .. (n - 1) - 1, d[j] = d[k]
                 PROVE  j = k
      OBVIOUS
    <3>1. j + 1 = k + 1
      BY <2>2 DEF IsChain
    <3> QED BY <3>1
  <2> QED BY <1>2, <2>1, <2>3, <2>4 DEF IsChain
<1>6. ChainNodes(d, n - 1) = ChainNodes(c, n) \ {head}
  <2>1. ASSUME NEW k \in 0 .. (n - 1) - 1
        PROVE  d[k] \in ChainNodes(c, n) \ {head}
    <3>1. k + 1 \in 0 .. n - 1 /\ 0 \in 0 .. n - 1 /\ k + 1 # 0 /\ d[k] = c[k + 1]
      BY <1>1, <1>3
    <3>2. c[k + 1] # c[0]
      BY <3>1 DEF IsChain
    <3> QED BY <3>1, <3>2, <1>1 DEF ChainNodes
  <2>2. ASSUME NEW q \in ChainNodes(c, n), q # head
        PROVE  \E k \in 0 .. (n - 1) - 1 : d[k] = q
    <3>1. PICK k \in 0 .. n - 1 : c[k] = q
      BY DEF ChainNodes
    <3>2. k # 0
      BY <3>1, <2>2, <1>1
    <3>3. k - 1 \in 0 .. (n - 1) - 1 /\ d[k - 1] = c[(k - 1) + 1] /\ (k - 1) + 1 = k
      BY <3>1, <3>2, <1>1, <1>3
    <3> QED BY <3>1, <3>3
  <2> QED BY <2>1, <2>2 DEF ChainNodes
<1> QED BY <1>1, <1>4, <1>5, <1>6

(* A node behind the last one. *)
LEMMA ChainAppend ==
  ASSUME NEW next, NEW next2, DOMAIN next2 = DOMAIN next, NEW head, NEW c, NEW n, IsChain(next, head, c, n), n > 0,
         NEW p \in DOMAIN next, p \notin ChainNodes(c, n),
         next2[c[n - 1]] = p, next2[p] = 0,
         \A q \in ChainNodes(c, n) : q # c[n - 1] => next2[q] = next[q]
  PROVE  \E d : /\ IsChain(next2, head, d, n + 1) /\ d[n] = p
                /\ \A k \in 0 .. n - 1 : d[k] = c[k]
                /\ ChainNodes(d, n + 1) = ChainNodes(c, n) \cup {p}
<1> DEFINE d == [k \in 0 .. n + 1 |-> IF k < n THEN c[k] ELSE IF k = n THEN p ELSE 0]
<1>1. n \in Nat /\ n > 0 /\ c \in [0 .. n -> (DOMAIN next \cup {0})] /\ c[0] = head
  BY DEF IsChain
<1>2. d[n] = p /\ d[n + 1] = 0 /\ \A k \in 0 .. n - 1 : d[k] = c[k]
  BY <1>1
<1>3. d \in [0 .. n + 1 -> (DOMAIN next \cup {0})]
  <2>1. ASSUME NEW k \in 0 .. n + 1 PROVE d[k] \in (DOMAIN next \cup {0})
    <3>1. CASE k < n
      <4>1. k \in 0 .. n
        BY <1>1, <3>1
      <4> QED BY <4>1, <3>1, <1>1
    <3>2. CASE ~(k < n)
      BY <3>2
    <3> QED BY <3>1, <3>2
  <2> QED BY <2>1
<1> HIDE DEF d
<1>4. \A k \in 0 .. n : k = n \/ k \in 0 .. n - 1
  BY <1>1
<1>5. \A k \in 0 .. n - 1 : c[k] \in ChainNodes(c, n) /\ c[k] \in DOMAIN next
  BY DEF IsChain, ChainNodes
<1>6. \A k \in 0 .. n : d[k] \in DOMAIN next /\ d[k + 1] = next2[d[k]]
  <2> SUFFICES ASSUME NEW k \in 0 .. n PROVE d[k] \in DOMAIN next /\ d[k + 1] = next2[d[k]]
    OBVIOUS
  <2>1. CASE k = n
    BY <2>1, <1>2
  <2>2. CASE k = n - 1
    <3>1. k \in 0 .. n - 1 /\ k + 1 = n
      BY <2>2, <1>1
    <3> QED BY <3>1, <2>2, <1>2, <1>5
  <2>3. CASE k # n /\ k # n - 1
    <3>1. k \in 0 .. n - 1 /\ k + 1 \in 0 .. n - 1 /\ n - 1 \in 0 .. n - 1
      BY <2>3, <1>1
    <3>2. c[k] # c[n - 1] /\ c[k + 1] = next[c[k]]
      BY <3>1, <2>3 DEF IsChain
    <3> QED BY <3>1, <3>2, <1>2, <1>5
  <2> QED BY <2>1, <2>2, <2>3
<1>7. \A j, k \in 0 .. n : d[j] = d[k] => j = k
  <2> SUFFICES ASSUME NEW j \in 0 .. n, NEW k \in 0 .. n, d[j] = d[k] PROVE j = k
    OBVIOUS
  <2>1. \A i \in 0 .. n - 1 : d[i] # p
    BY <1>2, <1>5
  <2>2. CASE j = n \/ k = n
    BY <2>1, <2>2, <1>2, <1>4
  <2>3. CASE j \in 0 .. n - 1 /\ k \in 0 .. n - 1
    BY <2>3, <1>2 DEF IsChain
  <2> QED BY <2>2, <2>3, <1>4
<1>8. ChainNodes(d, n + 1) = ChainNodes(c, n) \cup {p}
  <2>1. ChainNodes(d, n + 1) = {d[k] : k \in 0 .. n}
    BY <1>1 DEF ChainNodes
  <2>2. \A k \in 0 .. n : d[k] \in ChainNodes(c, n) \cup {p}
    BY <1>2, <1>4, <1>5
  <2>3. \A k \in 0 .. n - 1 : k \in 0 .. n /\ d[k] = c[k]
    BY <1>1, <1>2
  <2>4. n \in 0 .. n
    BY <1>1
  <2>5. \A q \in ChainNodes(c, n) : q \in {d[k] : k \in 0 .. n}
    BY <2>3 DEF ChainNodes
  <2>6. p \in {d[k] : k \in 0 .. n}
    BY <2>4, <1>2
  <2> QED BY <2>1, <2>2, <2>5, <2>6
<1>9. IsChain(next2, head, d, n + 1)
  <2>1. n + 1 \in Nat /\ (n + 1) - 1 = n /\ d[0] = head
    <3>1. 0 \in 0 .. n - 1
      BY <1>1
    <3> QED BY <3>1, <1>1, <1>2
  <2> QED BY <2>1, <1>2, <1>3, <1>6, <1>7 DEF IsChain
<1> QED BY <1>2, <1>8, <1>9

(* A list of distinct nodes is no longer than there are nodes. *)
LEMMA ChainIsShort ==
  ASSUME NEW next, NEW head, NEW c, NEW n, IsChain(next, head, c, n),
         IsFiniteSet(DOMAIN next)
  PROVE  n <= Cardinality(DOMAIN next)
<1> DEFINE N == Cardinality(DOMAIN next)
           f == [k \in 0 .. N |-> c[k]]
<1>1. n \in Nat /\ N \in Nat
  BY FS_CardinalityType DEF IsChain
<1> SUFFICES ASSUME n > N PROVE FALSE
  BY <1>1
<1> HIDE DEF N
<1>2. \A k \in 0 .. N : k \in 0 .. n - 1
  BY <1>1
<1>3. f \in [0 .. N -> DOMAIN next]
  BY <1>2 DEF IsChain
<1>4. IsFiniteSet(0 .. N) /\ Cardinality(0 .. N) = N + 1
  BY <1>1, FS_Interval
<1>5. \E j, k \in 0 .. N : j # k /\ f[j] = f[k]
  <2> HIDE DEF f
  <2>1. N < Cardinality(0 .. N)
    BY <1>1, <1>4
  <2> QED BY <1>3, <1>4, <2>1, FS_PigeonHole DEF N
<1> QED BY <1>2, <1>5 DEF IsChain

-----------------------------------------------------------------------------
(* Walking along a list *)

(* The recursion has one solution: it follows the list and stays at 0.     *)
LEMMA WalkFollowsTheChain ==
  ASSUME NEW next, NEW head, NEW c, NEW n, IsChain(next, head, c, n),
         NEW limit \in Nat, n <= limit
  PROVE  Walk(next, head, limit) = [k \in 0 .. limit |-> IF k < n THEN c[k] ELSE 0]
<1> DEFINE after == [x \in {0} \cup DOMAIN next |-> IF x = 0 THEN 0 ELSE next[x]]
           Walks(f) == f = [k \in 0 .. limit |-> IF k = 0 THEN head ELSE after[f[k - 1]]]
           f == [k \in 0 .. limit |-> IF k < n THEN c[k] ELSE 0]
           g == Walk(next, head, limit)
<1>1. n \in Nat /\ c[0] = head /\ c[n] = 0
  BY DEF IsChain
<1>2. g = CHOOSE h : Walks(h)
  BY DEF Walk
<1>3. after[0] = 0 /\ \A k \in 0 .. n - 1 : c[k + 1] = after[c[k]]
  BY DEF IsChain
<1> HIDE DEF after
<1>4. \A k \in 0 .. limit : f[k] = IF k = 0 THEN head ELSE after[f[k - 1]]
  <2> SUFFICES ASSUME NEW k \in 0 .. limit
               PROVE  f[k] = IF k = 0 THEN head ELSE after[f[k - 1]]
    OBVIOUS
  <2>1. CASE k = 0
    BY <2>1, <1>1
  <2>2. CASE k # 0 /\ k <= n
    <3>1. k - 1 \in 0 .. limit /\ k - 1 \in 0 .. n - 1 /\ (k - 1) + 1 = k /\ k - 1 < n
      BY <2>2, <1>1
    <3>2. f[k - 1] = c[k - 1]
      BY <3>1
    <3>3. f[k] = c[k]
      BY <2>2, <1>1
    <3>4. c[k] = after[c[k - 1]]
      BY <3>1, <1>3
    <3> HIDE DEF f
    <3> QED BY <2>2, <3>2, <3>3, <3>4
  <2>3. CASE k > n
    <3>1. k - 1 \in 0 .. limit /\ ~(k - 1 < n) /\ ~(k < n) /\ k # 0
      BY <2>3, <1>1
    <3>2. f[k - 1] = 0 /\ f[k] = 0
      BY <3>1
    <3> HIDE DEF f
    <3> QED BY <3>1, <3>2, <1>3
  <2> QED BY <2>1, <2>2, <2>3, <1>1
<1>5. Walks(f)
  <2>1. DOMAIN f = 0 .. limit /\ f = [k \in 0 .. limit |-> f[k]]
    OBVIOUS
  <2> HIDE DEF f
  <2> QED BY <2>1, <1>4
<1>6. Walks(g)
  <2> HIDE DEF Walks, g, f
  <2> QED BY <1>2, <1>5
<1>7. \A k \in 0 .. limit : g[k] = IF k = 0 THEN head ELSE after[g[k - 1]]
  <2> HIDE DEF g
  <2> QED BY <1>6
<1>8. \A k \in 0 .. limit : g[k] = f[k]
  <2> DEFINE Differ == {k \in 0 .. limit : g[k] # f[k]}
  <2> HIDE DEF g, f
  <2> SUFFICES ASSUME Differ # {} PROVE FALSE
    OBVIOUS
  <2>1. Differ \in SUBSET Nat
    OBVIOUS
  <2>2. PICK k \in Differ : \A j \in Differ : k <= j
    <3> HIDE DEF Differ
    <3> QED BY <2>1, LeastElement
  <2>3. k \in 0 .. limit /\ g[k] # f[k]
    BY <2>2
  <2>4. k # 0
    BY <2>3, <1>4, <1>7
  <2>5. k - 1 \in 0 .. limit /\ k - 1 \notin Differ
    BY <2>2, <2>3, <2>4
  <2>6. g[k - 1] = f[k - 1]
    BY <2>5
  <2> QED BY <2>3, <2>4, <2>6, <1>4, <1>7
<1>9. DOMAIN g = 0 .. limit /\ DOMAIN f = 0 .. limit
  <2> HIDE DEF g
  <2> QED BY <1>6
<1>10. g = [k \in 0 .. limit |-> g[k]] /\ f = [k \in 0 .. limit |-> f[k]]
  <2> HIDE DEF g
  <2> QED BY <1>6
<1> HIDE DEF f, g
<1>11. g = f
  BY <1>8, <1>10
<1> QED BY <1>11 DEF f, g

(* NodesFrom lists the nodes of a chain. *)
LEMMA NodesOfTheChain ==
  ASSUME NEW next, NEW head, NEW c, NEW n, IsChain(next, head, c, n),
         NEW limit \in Nat, n <= limit
  PROVE  NodesFrom(next, head, limit) = [k \in 1 .. n |-> c[k - 1]]
<1> DEFINE at == Walk(next, head, limit)
<1>1. n \in Nat /\ \A k \in 0 .. n - 1 : c[k] # 0
  BY DEF IsChain
<1>2. at = [k \in 0 .. limit |-> IF k < n THEN c[k] ELSE 0]
  BY WalkFollowsTheChain
<1> HIDE DEF at
<1>3. {k \in 0 .. limit : at[k] # 0} = 0 .. n - 1
  BY <1>1, <1>2
<1>4. Cardinality(0 .. n - 1) = n
  BY <1>1, FS_Interval
<1>5. \A k \in 1 .. n : at[k - 1] = c[k - 1]
  BY <1>1, <1>2
<1> QED BY <1>3, <1>4, <1>5 DEF NodesFrom, at

-----------------------------------------------------------------------------
(* Loops *)

(* A loop of n rounds over a variable in X, which starts as base; f is     *)
(* what the variable holds after each round.                               *)
IsLoop(X, base, n, step) == base \in X /\ n \in Nat /\ step \in [X \X (1 .. n) -> X]
LoopRun(X, base, n, step, f) ==
  /\ f \in [0 .. n -> X] /\ f[0] = base
  /\ \A i \in 1 .. n : f[i] = step[<<f[i - 1], i>>]

(* Every loop has a run. *)
LEMMA LoopRuns ==
  ASSUME NEW X, NEW base, NEW n, NEW step, IsLoop(X, base, n, step)
  PROVE  \E f : LoopRun(X, base, n, step, f)
<1> USE DEF IsLoop, LoopRun
<1> DEFINE Run(m, f) == /\ f \in [0 .. m -> X] /\ f[0] = base
                        /\ \A i \in 1 .. m : f[i] = step[<<f[i - 1], i>>]
           Stuck == {m \in 0 .. n : ~\E f : Run(m, f)}
<1>1. SUFFICES ASSUME Stuck # {} PROVE FALSE
  <2>1. Stuck = {} => \E f : Run(n, f)
    OBVIOUS
  <2> QED BY <2>1
<1>2. PICK m \in Stuck : \A k \in Stuck : m <= k
  <2>1. Stuck \in SUBSET Nat
    OBVIOUS
  <2> HIDE DEF Stuck
  <2> QED BY <1>1, <2>1, LeastElement
<1>3. m \in 0 .. n /\ ~\E f : Run(m, f)
  BY <1>2
<1>4. m # 0
  <2> DEFINE f == [k \in 0 .. 0 |-> base]
  <2>1. f \in [0 .. 0 -> X] /\ f[0] = base
    OBVIOUS
  <2>2. 1 .. 0 = {}
    OBVIOUS
  <2>3. Run(0, f)
    BY <2>1, <2>2
  <2> QED BY <2>3, <1>3
<1>5. m - 1 \in 0 .. n /\ m - 1 \notin Stuck
  <2>1. m - 1 \in 0 .. n /\ ~(m <= m - 1)
    BY <1>3, <1>4
  <2> HIDE DEF Stuck
  <2> QED BY <2>1, <1>2
<1>6. PICK f : Run(m - 1, f)
  BY <1>5
<1> DEFINE x == step[<<f[m - 1], m>>]
           g == [k \in 0 .. m |-> IF k = m THEN x ELSE f[k]]
<1>7. f[m - 1] \in X /\ x \in X
  BY <1>3, <1>4, <1>6
<1>8. \A k \in 0 .. m : k # m => k \in 0 .. m - 1
  BY <1>3
<1>9. g \in [0 .. m -> X] /\ g[m] = x /\ \A k \in 0 .. m - 1 : g[k] = f[k]
  BY <1>3, <1>4, <1>6, <1>7, <1>8
<1> HIDE DEF g
<1>10. \A i \in 1 .. m : g[i] = step[<<g[i - 1], i>>]
  <2> SUFFICES ASSUME NEW i \in 1 .. m PROVE g[i] = step[<<g[i - 1], i>>]
    OBVIOUS
  <2>1. i - 1 \in 0 .. m - 1
    BY <1>3
  <2>2. g[i - 1] = f[i - 1]
    BY <2>1, <1>9
  <2>3. CASE i = m
    BY <2>2, <2>3, <1>9
  <2>4. CASE i # m
    <3>1. i \in 1 .. m - 1 /\ i \in 0 .. m - 1
      BY <2>4, <1>3
    <3> QED BY <3>1, <2>2, <1>6, <1>9
  <2> QED BY <2>3, <2>4
<1>11. Run(m, g)
  BY <1>4, <1>3, <1>6, <1>9, <1>10
<1> QED BY <1>3, <1>11

(* Links that only ever lead to nodes of a higher rank make a list.        *)
Ranked(next, head, S, rank) ==
  /\ 0 \notin DOMAIN next /\ S \subseteq DOMAIN next /\ head \in S
  /\ \A p \in S : rank[p] \in Int /\ (next[p] = 0 \/ (next[p] \in S /\ rank[p] < rank[next[p]]))

LEMMA RankedChain ==
  ASSUME NEW next, NEW head, NEW S, NEW rank, Ranked(next, head, S, rank), IsFiniteSet(S)
  PROVE  \E c, n : IsChain(next, head, c, n) /\ n >= 1 /\ ChainNodes(c, n) \subseteq S
<1> DEFINE N == Cardinality(S)
           X == S \cup {0}
           step == [x \in X \X (1 .. N) |-> IF x[1] = 0 THEN 0 ELSE next[x[1]]]
<1>1. /\ 0 \notin DOMAIN next /\ S \subseteq DOMAIN next /\ head \in S /\ 0 \notin S
      /\ \A p \in S : rank[p] \in Int /\ next[p] \in X
      /\ \A p \in S : next[p] \in S => rank[p] < rank[next[p]]
  BY DEF Ranked
<1>2. N \in Nat
  BY FS_CardinalityType
<1>3. PICK f : LoopRun(X, head, N, step, f)
  <2>1. IsLoop(X, head, N, step)
    <3>1. ASSUME NEW x \in X \X (1 .. N) PROVE (IF x[1] = 0 THEN 0 ELSE next[x[1]]) \in X
      <4>1. x[1] \in X
        OBVIOUS
      <4> QED BY <4>1, <1>1
    <3>2. step \in [X \X (1 .. N) -> X]
      BY <3>1
    <3> HIDE DEF step
    <3> QED BY <3>2, <1>1, <1>2 DEF IsLoop
  <2> HIDE DEF step, X, N
  <2> QED BY <2>1, LoopRuns
<1>4. f \in [0 .. N -> X] /\ f[0] = head
  BY <1>3 DEF LoopRun
<1>5. \A k \in 1 .. N : f[k - 1] \in X /\ f[k] = IF f[k - 1] = 0 THEN 0 ELSE next[f[k - 1]]
  <2> TAKE k \in 1 .. N
  <2>1. k - 1 \in 0 .. N
    BY <1>2
  <2>2. f[k - 1] \in X
    BY <2>1, <1>4
  <2>3. f[k] = step[<<f[k - 1], k>>]
    BY <1>3 DEF LoopRun
  <2> QED BY <2>2, <2>3
<1> HIDE DEF step
<1> DEFINE Rising == {k \in 0 .. N : f[k] # 0 =>
                        \A j \in 0 .. N : j < k => f[j] # 0 /\ rank[f[j]] < rank[f[k]]}
<1>6. \A k \in 0 .. N : k \in Rising
  <2>1. 0 \in Rising
    BY <1>2
  <2>2. ASSUME NEW k \in 1 .. N, k - 1 \in Rising PROVE k \in Rising
    <3>1. k - 1 \in 0 .. N /\ k \in 0 .. N
      BY <1>2
    <3>2. ASSUME f[k] # 0, NEW j \in 0 .. N, j < k PROVE f[j] # 0 /\ rank[f[j]] < rank[f[k]]
      <4>1. f[k - 1] \in S /\ f[k] = next[f[k - 1]] /\ f[k] \in S
        BY <3>1, <3>2, <1>1, <1>4, <1>5
      <4>2. rank[f[k - 1]] < rank[f[k]] /\ rank[f[k - 1]] \in Int /\ rank[f[k]] \in Int
        BY <4>1, <1>1
      <4>3. CASE j = k - 1
        BY <4>1, <4>2, <4>3, <1>1
      <4>4. CASE j # k - 1
        <5>1. j < k - 1
          BY <3>1, <3>2, <4>4
        <5>2. f[j] # 0 /\ rank[f[j]] < rank[f[k - 1]]
          BY <5>1, <4>1, <2>2, <1>1
        <5>3. f[j] \in S /\ rank[f[j]] \in Int
          BY <5>2, <1>1, <1>4
        <5> QED BY <5>2, <5>3, <4>2
      <4> QED BY <4>3, <4>4
    <3> QED BY <3>1, <3>2
  <2> HIDE DEF Rising
  <2> QED BY <2>1, <2>2, <1>2, EveryRound
<1> DEFINE Ended == {k \in 0 .. N : f[k] = 0}
<1>7. Ended # {}
  <2> SUFFICES ASSUME Ended = {} PROVE FALSE
    OBVIOUS
  <2>1. f \in [0 .. N -> S]
    <3>1. \A k \in 0 .. N : f[k] \in S
      BY <1>4
    <3> QED BY <3>1, <1>4
  <2>2. IsFiniteSet(0 .. N) /\ Cardinality(0 .. N) = N + 1
    BY <1>2, FS_Interval
  <2>3. \E i, j \in 0 .. N : i # j /\ f[i] = f[j]
    <3>1. Cardinality(S) < Cardinality(0 .. N)
      BY <2>2, <1>2
    <3> HIDE DEF Ended, N
    <3> QED BY <2>1, <2>2, <3>1, FS_PigeonHole
  <2>4. PICK i, j \in 0 .. N : i # j /\ f[i] = f[j]
    BY <2>3
  <2>5. f[i] \in S /\ rank[f[i]] \in Int
    BY <2>1, <1>1
  <2>6. i < j => rank[f[i]] < rank[f[j]]
    BY <2>1, <1>1, <1>6
  <2>7. j < i => rank[f[j]] < rank[f[i]]
    BY <2>1, <1>1, <1>6
  <2>8. i \in Int /\ j \in Int
    OBVIOUS
  <2> HIDE DEF Ended
  <2> QED BY <2>4, <2>5, <2>6, <2>7, <2>8
<1>8. PICK n \in Ended : \A k \in Ended : n <= k
  <2>1. Ended \in SUBSET Nat
    BY <1>2
  <2> HIDE DEF Ended
  <2> QED BY <2>1, <1>7, LeastElement
<1>9. n \in 0 .. N /\ f[n] = 0 /\ n \in Nat /\ n >= 1
  BY <1>1, <1>2, <1>4, <1>8
<1>10. \A k \in 0 .. n - 1 : k \in 0 .. N /\ f[k] \in S
  <2> TAKE k \in 0 .. n - 1
  <2>1. k \in 0 .. N /\ ~(n <= k)
    <3> HIDE DEF N, Ended
    <3> QED BY <1>2, <1>9
  <2> QED BY <2>1, <1>4, <1>8
<1>11. \A k \in 0 .. n - 1 : f[k + 1] = next[f[k]]
  <2> TAKE k \in 0 .. n - 1
  <2>1. k + 1 \in 1 .. N /\ (k + 1) - 1 = k
    BY <1>2, <1>9
  <2> QED BY <2>1, <1>1, <1>5, <1>10
<1>12. ASSUME NEW j \in 0 .. n - 1, NEW k \in 0 .. n - 1, f[j] = f[k] PROVE j = k
  <2>1. f[j] \in S /\ f[k] \in S /\ j \in 0 .. N /\ k \in 0 .. N /\ rank[f[j]] \in Int
    BY <1>1, <1>10
  <2>2. ~(j < k) /\ ~(k < j)
    BY <2>1, <1>1, <1>6, <1>12
  <2>3. j \in Int /\ k \in Int
    OBVIOUS
  <2> QED BY <2>2, <2>3
<1> DEFINE c == [k \in 0 .. n |-> f[k]]
<1>13. \A k \in 0 .. n : k \in 0 .. N
  BY <1>2, <1>9
<1>14. /\ \A k \in 0 .. n - 1 : c[k] = f[k] /\ c[k + 1] = f[k + 1]
       /\ c[0] = head /\ c[n] = 0
  BY <1>4, <1>9
<1>15. c \in [0 .. n -> DOMAIN next \cup {0}]
  <2>1. \A k \in 0 .. n : f[k] \in DOMAIN next \cup {0}
    BY <1>1, <1>4, <1>13
  <2> QED BY <2>1
<1> HIDE DEF c, Ended, Rising, N, X
<1>16. \A k \in 0 .. n - 1 : c[k] \in DOMAIN next /\ c[k + 1] = next[c[k]] /\ c[k] \in S
  BY <1>1, <1>10, <1>11, <1>14
<1>17. \A j, k \in 0 .. n - 1 : c[j] = c[k] => j = k
  BY <1>12, <1>14
<1>18. IsChain(next, head, c, n)
  BY <1>1, <1>9, <1>14, <1>15, <1>16, <1>17 DEF IsChain
<1>19. ChainNodes(c, n) \subseteq S
  BY <1>16 DEF ChainNodes
<1> QED BY <1>9, <1>18, <1>19

-----------------------------------------------------------------------------
(* Sequences of sequences *)

(* s is the first k sequences of seqs one behind the other: its element m  *)
(* is element off[m] of sequence blk[m].                                   *)
FlatOf(seqs, k, s, blk, off) ==
  /\ DOMAIN s = 1 .. Len(s) /\ Len(s) \in Nat
  /\ \A m \in 1 .. Len(s) :
       /\ blk[m] \in 1 .. k /\ off[m] \in 1 .. Len(seqs[blk[m]])
       /\ s[m] = seqs[blk[m]][off[m]]
  /\ \A l, m \in 1 .. Len(s) :
       l < m => blk[l] < blk[m] \/ (blk[l] = blk[m] /\ off[l] < off[m])
  /\ \A i \in 1 .. k : \A j \in 1 .. Len(seqs[i]) :
       \E m \in 1 .. Len(s) : blk[m] = i /\ off[m] = j

(* Joining one more sequence appends it. *)
LEMMA FlatStep ==
  ASSUME NEW S, NEW seqs \in Seq(Seq(S)), NEW k \in Nat, k + 1 \in 1 .. Len(seqs),
         NEW s \in Seq(S), NEW blk, NEW off, FlatOf(seqs, k, s, blk, off)
  PROVE  \E blk2, off2 : FlatOf(seqs, k + 1, s \o seqs[k + 1], blk2, off2)
<1> DEFINE a == seqs[k + 1]
           t == s \o a
           n == Len(s)
           blk2 == [m \in 1 .. Len(t) |-> IF m <= n THEN blk[m] ELSE k + 1]
           off2 == [m \in 1 .. Len(t) |-> IF m <= n THEN off[m] ELSE m - n]
<1>1. a \in Seq(S) /\ Len(a) \in Nat /\ n \in Nat
  OBVIOUS
<1>2. /\ t \in Seq(S) /\ Len(t) = n + Len(a)
      /\ \A m \in 1 .. n + Len(a) : t[m] = IF m <= n THEN s[m] ELSE a[m - n]
  BY <1>1, ConcatProperties
<1>3. DOMAIN t = 1 .. Len(t) /\ Len(t) \in Nat
  BY <1>1, <1>2
<1>4. /\ \A m \in 1 .. n : blk2[m] = blk[m] /\ off2[m] = off[m] /\ t[m] = s[m] /\ m \in 1 .. Len(t)
      /\ \A j \in 1 .. Len(a) : blk2[n + j] = k + 1 /\ off2[n + j] = j /\ t[n + j] = a[j]
                                /\ n + j \in 1 .. Len(t)
  BY SMTT(30), <1>1, <1>2
<1>5. \A m \in 1 .. Len(t) : m \notin 1 .. n => \E j \in 1 .. Len(a) : m = n + j
  <2> SUFFICES ASSUME NEW m \in 1 .. Len(t), m \notin 1 .. n
               PROVE  \E j \in 1 .. Len(a) : m = n + j
    OBVIOUS
  <2>1. m - n \in 1 .. Len(a) /\ m = n + (m - n)
    BY <1>1, <1>2
  <2> QED BY <2>1
<1> HIDE DEF t, n, blk2, off2, a
<1>6. \A m \in 1 .. n : /\ blk[m] \in 1 .. k /\ off[m] \in 1 .. Len(seqs[blk[m]])
                        /\ s[m] = seqs[blk[m]][off[m]]
  BY DEF FlatOf, n
<1>7. \A m \in 1 .. Len(t) : /\ blk2[m] \in 1 .. k + 1 /\ off2[m] \in 1 .. Len(seqs[blk2[m]])
                             /\ t[m] = seqs[blk2[m]][off2[m]]
  <2> SUFFICES ASSUME NEW m \in 1 .. Len(t)
               PROVE  /\ blk2[m] \in 1 .. k + 1 /\ off2[m] \in 1 .. Len(seqs[blk2[m]])
                      /\ t[m] = seqs[blk2[m]][off2[m]]
    OBVIOUS
  <2>1. CASE m \in 1 .. n
    <3>1. blk2[m] = blk[m] /\ off2[m] = off[m] /\ t[m] = s[m]
      BY <2>1, <1>4
    <3>2. blk[m] \in 1 .. k + 1 /\ off[m] \in 1 .. Len(seqs[blk[m]]) /\ s[m] = seqs[blk[m]][off[m]]
      <4>1. blk[m] \in 1 .. k /\ 1 .. k \subseteq 1 .. k + 1
        BY <2>1, <1>6
      <4> QED BY <4>1, <2>1, <1>6
    <3> QED BY <3>1, <3>2
  <2>2. CASE m \notin 1 .. n
    <3>1. PICK j \in 1 .. Len(a) : m = n + j
      BY <2>2, <1>5
    <3>2. blk2[m] = k + 1 /\ off2[m] = j /\ t[m] = a[j]
      BY <3>1, <1>4
    <3>3. k + 1 \in 1 .. k + 1
      OBVIOUS
    <3>4. seqs[blk2[m]] = a
      BY <3>2 DEF a
    <3> QED BY <3>2, <3>3, <3>4
  <2> QED BY <2>1, <2>2
<1>8. \A l, m \in 1 .. Len(t) :
        l < m => blk2[l] < blk2[m] \/ (blk2[l] = blk2[m] /\ off2[l] < off2[m])
  <2> SUFFICES ASSUME NEW l \in 1 .. Len(t), NEW m \in 1 .. Len(t), l < m
               PROVE  blk2[l] < blk2[m] \/ (blk2[l] = blk2[m] /\ off2[l] < off2[m])
    OBVIOUS
  <2>1. CASE m \in 1 .. n
    <3>1. l \in 1 .. n
      BY <2>1, <1>1
    <3> QED BY <2>1, <3>1, <1>4 DEF FlatOf, n
  <2>2. CASE m \notin 1 .. n /\ l \in 1 .. n
    <3>1. PICK j \in 1 .. Len(a) : m = n + j
      BY <2>2, <1>5
    <3>2. blk2[m] = k + 1 /\ blk2[l] \in 1 .. k
      BY <2>2, <3>1, <1>4, <1>6
    <3> QED BY <3>2
  <2>3. CASE m \notin 1 .. n /\ l \notin 1 .. n
    <3>1. PICK j \in 1 .. Len(a) : m = n + j
      BY <2>3, <1>5
    <3>2. PICK i \in 1 .. Len(a) : l = n + i
      BY <2>3, <1>5
    <3>3. blk2[m] = k + 1 /\ blk2[l] = k + 1 /\ off2[m] = j /\ off2[l] = i
      BY <3>1, <3>2, <1>4
    <3> QED BY <3>1, <3>2, <3>3, <1>1
  <2> QED BY <2>1, <2>2, <2>3
<1>9. \A i \in 1 .. k + 1 : \A j \in 1 .. Len(seqs[i]) :
        \E m \in 1 .. Len(t) : blk2[m] = i /\ off2[m] = j
  <2> SUFFICES ASSUME NEW i \in 1 .. k + 1, NEW j \in 1 .. Len(seqs[i])
               PROVE  \E m \in 1 .. Len(t) : blk2[m] = i /\ off2[m] = j
    OBVIOUS
  <2>1. CASE i = k + 1
    <3>1. j \in 1 .. Len(a)
      BY <2>1 DEF a
    <3> QED BY <2>1, <3>1, <1>4
  <2>2. CASE i # k + 1
    <3>1. i \in 1 .. k
      BY <2>2
    <3>2. PICK m \in 1 .. n : blk[m] = i /\ off[m] = j
      BY <3>1 DEF FlatOf, n
    <3> QED BY <3>2, <1>4
  <2> QED BY <2>1, <2>2
<1>10. FlatOf(seqs, k + 1, t, blk2, off2)
  BY <1>3, <1>7, <1>8, <1>9 DEF FlatOf
<1> QED BY <1>10 DEF t, a

(* FlattenSeq puts the sequences one behind the other.                     *)
LEMMA Flattening ==
  ASSUME NEW S, NEW seqs \in Seq(Seq(S))
  PROVE  /\ FlattenSeq(seqs) \in Seq(S)
         /\ \E blk, off : FlatOf(seqs, Len(seqs), FlattenSeq(seqs), blk, off)
<1> DEFINE n == Len(seqs)
           X == Seq(S)
           step == [p \in X \X (1 .. n) |-> p[1] \o seqs[p[2]]]
           Flat(h) == h = [i \in 1 .. n |-> IF i = 1 THEN seqs[i] ELSE h[i - 1] \o seqs[i]]
           h == CHOOSE g : Flat(g)
<1>1. n \in Nat /\ <<>> \in X /\ \A i \in 1 .. n : seqs[i] \in X
  OBVIOUS
<1>2. step \in [X \X (1 .. n) -> X]
  <2> SUFFICES ASSUME NEW p \in X \X (1 .. n) PROVE p[1] \o seqs[p[2]] \in X
    OBVIOUS
  <2>1. p[1] \in Seq(S) /\ seqs[p[2]] \in Seq(S)
    BY <1>1
  <2> QED BY <2>1, ConcatProperties
<1>3. PICK f \in [0 .. n -> X] : f[0] = <<>> /\ \A i \in 1 .. n : f[i] = step[<<f[i - 1], i>>]
  <2>1. IsLoop(X, <<>>, n, step)
    <3> HIDE DEF step, X
    <3> QED BY <1>1, <1>2 DEF IsLoop
  <2>2. \E f : LoopRun(X, <<>>, n, step, f)
    <3> HIDE DEF step, X, n
    <3> QED BY <2>1, LoopRuns
  <2> HIDE DEF step, X, n
  <2> QED BY <2>2 DEF LoopRun
<1>4. \A i \in 1 .. n : f[i - 1] \in X /\ f[i] = f[i - 1] \o seqs[i]
  <2> SUFFICES ASSUME NEW i \in 1 .. n PROVE f[i - 1] \in X /\ f[i] = f[i - 1] \o seqs[i]
    OBVIOUS
  <2>1. i - 1 \in 0 .. n
    OBVIOUS
  <2>2. f[i - 1] \in X
    BY <2>1
  <2>3. <<f[i - 1], i>> \in X \X (1 .. n)
    BY <2>2
  <2>4. step[<<f[i - 1], i>>] = f[i - 1] \o seqs[i]
    BY <2>3
  <2> HIDE DEF step
  <2> QED BY <2>2, <2>4, <1>3
<1> HIDE DEF step
<1>5. \E blk, off : FlatOf(seqs, n, f[n], blk, off)
  <2> DEFINE Bad == {k \in 0 .. n : ~\E blk, off : FlatOf(seqs, k, f[k], blk, off)}
  <2>1. SUFFICES ASSUME Bad # {} PROVE FALSE
    BY <1>1
  <2>2. PICK k \in Bad : \A j \in Bad : k <= j
    <3>1. Bad \in SUBSET Nat
      OBVIOUS
    <3> HIDE DEF Bad
    <3> QED BY <2>1, <3>1, LeastElement
  <2>3. k \in 0 .. n /\ ~\E blk, off : FlatOf(seqs, k, f[k], blk, off)
    BY <2>2
  <2>4. k # 0
    <3>1. FlatOf(seqs, 0, <<>>, <<>>, <<>>)
      BY DEF FlatOf
    <3> QED BY <3>1, <2>3, <1>3
  <2>5. k - 1 \in 0 .. n /\ k - 1 \in Nat /\ (k - 1) + 1 = k /\ k \in 1 .. n /\ ~(k <= k - 1)
    BY <2>3, <2>4
  <2>6. k - 1 \notin Bad
    <3> HIDE DEF Bad
    <3> QED BY <2>2, <2>5
  <2>7. PICK blk, off : FlatOf(seqs, k - 1, f[k - 1], blk, off)
    BY <2>5, <2>6
  <2>8. f[k - 1] \in Seq(S) /\ f[k] = f[k - 1] \o seqs[k]
    BY <2>5, <1>4
  <2> DEFINE j == k - 1
             s == f[k - 1]
  <2>9. j \in Nat /\ j + 1 = k /\ j + 1 \in 1 .. Len(seqs) /\ s \in Seq(S)
        /\ FlatOf(seqs, j, s, blk, off)
    BY <2>5, <2>7, <2>8
  <2> HIDE DEF j, s
  <2>10. \E blk2, off2 : FlatOf(seqs, j + 1, s \o seqs[j + 1], blk2, off2)
    BY <2>9, FlatStep
  <2> QED BY <2>3, <2>8, <2>9, <2>10 DEF s
<1>6. 1 \in 1 .. n => f[1] = seqs[1]
  <2> SUFFICES ASSUME 1 \in 1 .. n PROVE f[1] = seqs[1]
    OBVIOUS
  <2>1. f[1 - 1] = <<>> /\ 1 - 1 = 0
    BY <1>3
  <2>2. f[1] = f[1 - 1] \o seqs[1]
    BY <1>4
  <2>3. seqs[1] \in Seq(S)
    BY <1>1
  <2>4. <<>> \o seqs[1] = seqs[1]
    BY <2>3, ConcatEmptySeq
  <2> QED BY <2>1, <2>2, <2>4
<1>7. CASE n = 0
  <2>1. seqs = <<>>
    BY <1>7
  <2>2. FlattenSeq(seqs) = f[n]
    BY <1>3, <1>7, <2>1 DEF FlattenSeq
  <2> QED BY <2>2, <1>3, <1>5, <1>1
<1>8. CASE n # 0
  <2> DEFINE g == [i \in 1 .. n |-> f[i]]
  <2>1. Flat(g)
    <3>1. ASSUME NEW i \in 1 .. n PROVE g[i] = IF i = 1 THEN seqs[i] ELSE g[i - 1] \o seqs[i]
      <4>1. CASE i = 1
        <5>1. f[1] = seqs[1]
          BY <4>1, <1>6
        <5> QED BY <4>1, <5>1
      <4>2. CASE i # 1
        <5>1. i - 1 \in 1 .. n
          BY <4>2
        <5> QED BY <4>2, <5>1, <1>4
      <4> QED BY <4>1, <4>2
    <3>2. g = [i \in 1 .. n |-> g[i]]
      OBVIOUS
    <3> HIDE DEF g
    <3> QED BY <3>1, <3>2
  <2>2. Flat(h)
    <3> HIDE DEF Flat, g
    <3> QED BY <2>1
  <2>3. \A i \in 1 .. n : h[i] = IF i = 1 THEN seqs[i] ELSE h[i - 1] \o seqs[i]
    <3> HIDE DEF h
    <3> QED BY <2>2
  <2> HIDE DEF h
  <2>4. h[n] = f[n]
    <3> DEFINE Differ == {i \in 1 .. n : h[i] # f[i]}
    <3>1. SUFFICES ASSUME Differ # {} PROVE FALSE
      <4>1. n \in 1 .. n
        BY <1>1, <1>8
      <4> QED BY <4>1
    <3>2. PICK i \in Differ : \A j \in Differ : i <= j
      <4>1. Differ \in SUBSET Nat
        OBVIOUS
      <4> HIDE DEF Differ
      <4> QED BY <3>1, <4>1, LeastElement
    <3>3. i \in 1 .. n /\ h[i] # f[i]
      BY <3>2
    <3>4. CASE i = 1
      <4>1. f[1] = seqs[1]
        BY <3>3, <3>4, <1>6
      <4> QED BY <3>3, <3>4, <4>1, <2>3
    <3>5. CASE i # 1
      <4>1. i - 1 \in 1 .. n /\ ~(i <= i - 1)
        BY <3>3, <3>5
      <4>2. i - 1 \notin Differ
        <5> HIDE DEF Differ
        <5> QED BY <3>2, <4>1
      <4>3. h[i - 1] = f[i - 1]
        BY <4>1, <4>2
      <4> QED BY <3>3, <3>5, <4>3, <2>3, <1>4
    <3> QED BY <3>4, <3>5
  <2>5. FlattenSeq(seqs) = h[n]
    BY <1>8 DEF FlattenSeq, h
  <2> QED BY <2>4, <2>5, <1>1, <1>3, <1>5
<1> QED BY <1>7, <1>8

=============================================================================
