--------------------------- MODULE DocumentProofs ---------------------------
(***************************************************************************)
(* Facts about every registered document: the ranges of its numbers, and   *)
(* its prefix order, in which most passes walk.                            *)
(***************************************************************************)
EXTENDS Document, FiniteSetTheorems, TLAPS

(* A document has a root, and its nodes are numbers. *)
LEMMA DocumentNodes ==
  ASSUME NEW d, IsDocument(d)
  PROVE  /\ d.n \in Nat /\ 1 <= d.n
         /\ Root(d) \in Nodes(d)
         /\ \A i \in Nodes(d) :
              Children(d, i) \subseteq Nodes(d) /\ Subtree(d, i) \subseteq Nodes(d)
                /\ Ancestors(d, i) \subseteq Nodes(d)
PROOF
  <1>1. d.n \in Nat \ {0}
    BY DEF IsDocument, IsTree
  <1> QED
    BY <1>1 DEF Root, Nodes, Children, Subtree, Ancestors

(* The nodes of a document are numbers, and all but the root have a parent. *)
LEMMA DocumentFacts ==
  ASSUME NEW d, IsDocument(d)
  PROVE  /\ d.n \in Nat /\ 1 <= d.n /\ Root(d) = d.n /\ Nodes(d) = 1 .. d.n
         /\ Root(d) \in Nodes(d) /\ d.parent[Root(d)] = 0
         /\ \A i \in Nodes(d) \ {Root(d)} : d.parent[i] \in Nodes(d) /\ d.parent[i] > i
         /\ \A i \in Nodes(d) : \A c : c \in Children(d, i) <=> c \in Nodes(d) /\ d.parent[c] = i
         /\ IsFiniteSet(Nodes(d))
PROOF
  <1>1. /\ d.n \in Nat \ {0} /\ d.parent \in [Nodes(d) -> 0 .. d.n] /\ d.parent[d.n] = 0
        /\ \A i \in 1 .. (d.n - 1) : d.parent[i] > i
    BY DEF IsDocument, IsTree
  <1>2. \A i \in Nodes(d) \ {Root(d)} : d.parent[i] \in Nodes(d) /\ d.parent[i] > i
    BY <1>1 DEF Root, Nodes
  <1>3. \A i \in Nodes(d) : \A c : c \in Children(d, i) <=> c \in Nodes(d) /\ d.parent[c] = i
    BY <1>1 DEF Children, Nodes
  <1>4. IsFiniteSet(1 .. d.n)
    BY <1>1, FS_Interval
  <1> QED
    BY <1>1, <1>2, <1>3, <1>4 DEF Root, Nodes

(* Two ancestors of a node are at different levels. *)
LEMMA LevelIsInjective ==
  ASSUME NEW d, IsDocument(d), NEW i \in Nodes(d),
         NEW a \in Ancestors(d, i), NEW b \in Ancestors(d, i),
         Level(d, i, a) = Level(d, i, b)
  PROVE  a = b
PROOF
  <1> DEFINE UpTo(c) == {x \in Ancestors(d, i) : x <= c}
  <1>1. d.n \in Nat /\ Ancestors(d, i) \subseteq 1 .. d.n
    BY DocumentNodes DEF Nodes
  <1>2. IsFiniteSet(1 .. d.n)
    BY <1>1, FS_Interval
  <1>3. \A c, e \in Ancestors(d, i) : c < e => Level(d, i, c) # Level(d, i, e)
    <2> SUFFICES ASSUME NEW c \in Ancestors(d, i), NEW e \in Ancestors(d, i), c < e,
                        Level(d, i, c) = Level(d, i, e)
                 PROVE  FALSE
      OBVIOUS
    <2>1. UpTo(c) \subseteq UpTo(e)
      BY <1>1
    <2>2. IsFiniteSet(UpTo(e))
      BY <1>1, <1>2, FS_Subset
    <2>3. UpTo(c) = UpTo(e)
      <3>1. Cardinality(UpTo(c)) = Cardinality(UpTo(e))
        BY DEF Level
      <3> QED
        BY <2>1, <2>2, <3>1, FS_Subset
    <2>4. e \in UpTo(e) /\ e \notin UpTo(c)
      BY <1>1
    <2> QED
      BY <2>3, <2>4
  <1> QED
    BY <1>1, <1>3

-----------------------------------------------------------------------------
(***************************************************************************)
(* The nodes that come before i in prefix order: its ancestors, and the    *)
(* subtrees that end before its own begins.                                *)
(***************************************************************************)
Before(d, i) == Ancestors(d, i) \cup {j \in 1 .. i : j \notin Subtree(d, i)}

(* A rank counts the nodes before, and there are as many ranks as nodes. *)
LEMMA RankCountsBefore ==
  ASSUME NEW d, IsDocument(d), NEW i \in Nodes(d)
  PROVE  /\ PrefixRank(d, i) = 1 + Cardinality(Before(d, i))
         /\ IsFiniteSet(Before(d, i)) /\ Cardinality(Before(d, i)) \in Nat
         /\ Before(d, i) \subseteq Nodes(d) \ {i}
         /\ PrefixRank(d, i) \in 1 .. d.n
PROOF
  <1> DEFINE S == Ancestors(d, i)
             T == {j \in 1 .. i : j \notin Subtree(d, i)}
  <1>1. d.n \in Nat /\ i \in 1 .. d.n /\ IsFiniteSet(1 .. d.n) /\ Cardinality(1 .. d.n) = d.n
    BY DocumentNodes, FS_Interval DEF Nodes
  <1>2. S \subseteq (i + 1) .. d.n /\ T \subseteq 1 .. (i - 1)
    <2>1. i \in Subtree(d, i)
      BY <1>1 DEF Subtree
    <2>2. T \subseteq 1 .. i /\ i \notin T
      BY <2>1
    <2>3. T \subseteq 1 .. (i - 1)
      BY <1>1, <2>2
    <2> QED
      BY <2>3 DEF Ancestors
  <1>3. S \cap T = {} /\ S \subseteq 1 .. d.n /\ T \subseteq 1 .. d.n /\ i \notin S \cup T
    BY <1>1, <1>2
  <1>4. IsFiniteSet(S) /\ IsFiniteSet(T) /\ IsFiniteSet(S \cup T)
    BY <1>1, <1>3, FS_Subset
  <1>5. Cardinality(S) \in Nat /\ Cardinality(T) \in Nat /\ Cardinality(S \cup T) \in Nat
    BY <1>4, FS_CardinalityType
  <1>6. Cardinality(S \cup T) = Cardinality(S) + Cardinality(T)
    <2>1. Cardinality(S \cap T) = 0
      BY <1>3, FS_EmptySet
    <2>2. Cardinality(S \cup T) = Cardinality(S) + Cardinality(T) - Cardinality(S \cap T)
      BY <1>4, FS_Union
    <2> QED
      BY <1>5, <2>1, <2>2
  <1>7. PrefixRank(d, i) = 1 + Cardinality(S) + Cardinality(T) /\ Before(d, i) = S \cup T
    BY DEF PrefixRank, Before
  <1>8. Cardinality((S \cup T) \cup {i}) <= d.n
        /\ Cardinality((S \cup T) \cup {i}) = Cardinality(S \cup T) + 1
    <2>1. (S \cup T) \cup {i} \subseteq 1 .. d.n
      BY <1>1, <1>3
    <2>2. Cardinality((S \cup T) \cup {i}) <= Cardinality(1 .. d.n)
      BY <1>1, <2>1, FS_Subset
    <2>3. Cardinality((S \cup T) \cup {i}) = Cardinality(S \cup T) + 1
      BY <1>3, <1>4, FS_AddElement
    <2> QED
      BY <1>1, <2>2, <2>3
  <1>9. S \cup T \subseteq Nodes(d) \ {i}
    BY <1>3 DEF Nodes
  <1> HIDE DEF S, T
  <1> QED
    BY <1>1, <1>4, <1>5, <1>6, <1>7, <1>8, <1>9

(* An ancestor is before a node, and so is all that is before the ancestor. *)
LEMMA AncestorsComeBefore ==
  ASSUME NEW d, IsDocument(d), NEW a \in Nodes(d), NEW b \in Ancestors(d, a)
  PROVE  b \in Before(d, a) /\ Before(d, b) \subseteq Before(d, a)
PROOF
  <1>1. /\ d.n \in Nat /\ a \in 1 .. d.n /\ b \in (a + 1) .. d.n
        /\ d.parent \in [1 .. d.n -> 0 .. d.n]
        /\ \A k \in a .. (b - 1) : d.parent[k] <= b
    BY DocumentNodes DEF Nodes, Ancestors, IsDocument, IsTree
  <1>2. ASSUME NEW x \in Ancestors(d, b) PROVE x \in Ancestors(d, a)
    <2>1. x \in (b + 1) .. d.n /\ \A k \in b .. (x - 1) : d.parent[k] <= x
      BY DEF Ancestors
    <2>2. x \in (a + 1) .. d.n
      BY <1>1, <2>1
    <2>3. \A k \in a .. (x - 1) : d.parent[k] <= x
      <3> SUFFICES ASSUME NEW k \in a .. (x - 1) PROVE d.parent[k] <= x
        OBVIOUS
      <3>1. k \in 1 .. d.n /\ d.parent[k] \in Int /\ k \in Int /\ x \in Int /\ b \in Int
        BY <1>1, <2>1
      <3>2. CASE k < b
        BY <1>1, <2>1, <3>1, <3>2
      <3>3. CASE k >= b
        BY <2>1, <3>1, <3>3
      <3> QED
        BY <3>1, <3>2, <3>3
    <2> QED
      BY <2>2, <2>3 DEF Ancestors
  <1>3. ASSUME NEW x \in 1 .. b, x \notin Subtree(d, b)
        PROVE  x \in 1 .. a /\ x \notin Subtree(d, a)
    <2>1. PICK k \in x .. (b - 1) : ~(d.parent[k] <= b)
      BY <1>3 DEF Subtree
    <2>2. k \in 1 .. d.n /\ d.parent[k] \in Int /\ ~(k \in a .. (b - 1))
      BY <1>1, <2>1
    <2>3. k < a /\ k \in x .. (a - 1) /\ x \in 1 .. a
      BY <1>1, <2>1, <2>2
    <2>4. ~(d.parent[k] <= a)
      BY <1>1, <2>1, <2>2
    <2> QED
      BY <2>3, <2>4 DEF Subtree
  <1> QED
    BY <1>2, <1>3 DEF Before

(* Of two nodes that are not one above the other the lower number is before. *)
LEMMA SubtreesInOrder ==
  ASSUME NEW d, IsDocument(d), NEW a \in Nodes(d), NEW b \in Nodes(d), a < b,
         b \notin Ancestors(d, a)
  PROVE  a \in Before(d, b) /\ Before(d, a) \subseteq Before(d, b)
PROOF
  <1>1. /\ d.n \in Nat /\ a \in 1 .. d.n /\ b \in 1 .. d.n
        /\ d.parent \in [1 .. d.n -> 0 .. d.n]
    BY DocumentNodes DEF Nodes, IsDocument, IsTree
  <1>2. PICK e \in a .. (b - 1) : ~(d.parent[e] <= b)
    BY <1>1 DEF Ancestors
  <1>3. e \in 1 .. d.n /\ d.parent[e] \in Int
    BY <1>1, <1>2
  <1>4. \A x \in 1 .. a : x \in 1 .. b /\ x \notin Subtree(d, b)
    BY <1>1, <1>2 DEF Subtree
  <1>5. ASSUME NEW x \in Ancestors(d, a)
        PROVE  x \in Ancestors(d, b) \/ (x \in 1 .. b /\ x \notin Subtree(d, b))
    <2>1. x \in (a + 1) .. d.n /\ \A k \in a .. (x - 1) : d.parent[k] <= x
      BY DEF Ancestors
    <2>2. CASE x <= b
      <3>1. ~(e \in a .. (x - 1))
        BY <1>1, <1>2, <1>3, <2>1, <2>2
      <3>2. e \in x .. (b - 1)
        BY <1>1, <1>2, <2>1, <3>1
      <3> QED
        BY <1>1, <1>2, <2>1, <2>2, <3>2 DEF Subtree
    <2>3. CASE x > b
      <3>1. x \in (b + 1) .. d.n /\ \A k \in b .. (x - 1) : k \in a .. (x - 1)
        BY <1>1, <2>1, <2>3
      <3> QED
        BY <2>1, <3>1 DEF Ancestors
    <2> QED
      BY <1>1, <2>1, <2>2, <2>3
  <1>6. \A x \in Before(d, a) : x \in Before(d, b)
    BY <1>4, <1>5 DEF Before
  <1> QED
    BY <1>1, <1>4, <1>6 DEF Before

(* What is before grows, and so does the rank. *)
LEMMA BeforeIsSmaller ==
  ASSUME NEW d, IsDocument(d), NEW a \in Nodes(d), NEW b \in Nodes(d),
         b \in Before(d, a), Before(d, b) \subseteq Before(d, a)
  PROVE  PrefixRank(d, b) < PrefixRank(d, a)
PROOF
  <1>1. b \notin Before(d, b)
    BY RankCountsBefore
  <1>2. Cardinality(Before(d, b)) < Cardinality(Before(d, a))
    <2>1. Before(d, b) # Before(d, a) /\ IsFiniteSet(Before(d, a))
      BY <1>1, RankCountsBefore
    <2>2. Cardinality(Before(d, b)) <= Cardinality(Before(d, a))
          /\ (Cardinality(Before(d, b)) = Cardinality(Before(d, a)) => Before(d, b) = Before(d, a))
      BY <2>1, FS_Subset
    <2> QED
      BY <2>1, <2>2, RankCountsBefore
  <1> QED
    BY <1>2, RankCountsBefore

(***************************************************************************)
(* Prefix ranks tell the nodes of a document apart, a node has a lower one *)
(* than those below it, and they run from 1 to the number of nodes: what a *)
(* pass visits in prefix order is every node, each once, parents first.    *)
(***************************************************************************)
LEMMA PrefixOrder ==
  ASSUME NEW d, IsDocument(d)
  PROVE  /\ \A i \in Nodes(d) : PrefixRank(d, i) \in 1 .. d.n
         /\ \A i, k \in Nodes(d) : PrefixRank(d, i) = PrefixRank(d, k) => i = k
         /\ \A i \in Nodes(d), c \in Nodes(d) :
              c \in Children(d, i) => PrefixRank(d, i) < PrefixRank(d, c)
PROOF
  <1>1. \A i \in Nodes(d) : PrefixRank(d, i) \in 1 .. d.n
    BY RankCountsBefore
  <1>2. d.n \in Nat /\ Nodes(d) = 1 .. d.n
    BY DocumentNodes DEF Nodes
  <1>3. ASSUME NEW a \in Nodes(d), NEW b \in Nodes(d), a < b
        PROVE  PrefixRank(d, a) # PrefixRank(d, b)
    <2>1. CASE b \in Ancestors(d, a)
      <3>1. PrefixRank(d, b) < PrefixRank(d, a)
        BY <2>1, AncestorsComeBefore, BeforeIsSmaller
      <3> QED
        BY <1>1, <1>2, <3>1
    <2>2. CASE b \notin Ancestors(d, a)
      <3>1. PrefixRank(d, a) < PrefixRank(d, b)
        BY <1>3, <2>2, SubtreesInOrder, BeforeIsSmaller
      <3> QED
        BY <1>1, <1>2, <3>1
    <2> QED
      BY <2>1, <2>2
  <1>4. ASSUME NEW i \in Nodes(d), NEW c \in Children(d, i)
        PROVE  PrefixRank(d, i) < PrefixRank(d, c)
    <2>1. c \in Nodes(d) /\ c \in 1 .. (i - 1) /\ d.parent[c] = i
      BY DocumentNodes DEF Children
    <2>2. c \in 1 .. (d.n - 1)
      BY <1>2, <2>1
    <2>3. \A k \in c .. (d.parent[c] - 1) : d.parent[k] <= d.parent[c]
      BY <2>2 DEF IsDocument, IsTree
    <2>4. i \in Ancestors(d, c)
      BY <1>2, <2>1, <2>3 DEF Ancestors
    <2> QED
      BY <2>1, <2>4, AncestorsComeBefore, BeforeIsSmaller
  <1>5. \A i, k \in Nodes(d) : PrefixRank(d, i) = PrefixRank(d, k) => i = k
    <2> SUFFICES ASSUME NEW i \in Nodes(d), NEW k \in Nodes(d),
                        PrefixRank(d, i) = PrefixRank(d, k), i # k
                 PROVE  FALSE
      OBVIOUS
    <2>1. i < k \/ k < i
      BY <1>2
    <2> QED
      BY <1>3, <2>1
  <1> QED
    BY <1>1, <1>4, <1>5
=============================================================================
