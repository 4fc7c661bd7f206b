--------------------------- MODULE MatchingProofs ---------------------------
(***************************************************************************)
(* Theorems about Matching, for all documents.                             *)
(*                                                                         *)
(* Every step claims a set of pairs through nodeAssign, matches the roots, *)
(* or leaves the matching alone (OnlyClaims).  No step claims a node twice *)
(* (the lemmas on the sets each pass builds), and nodeAssign's tests then  *)
(* keep the matching mutual.  What a pass in prefix order has achieved for *)
(* the nodes it has visited holds for all of them in the end, because the  *)
(* ranks are one-to-one and parents come first (PrefixOrder).  That a      *)
(* document compared with itself matches itself depends on the order of    *)
(* topdownMatch's queue: ItselfInv says what the queue covers, and equal   *)
(* subtrees weigh the same (EqualsWeighTheSame).                           *)
(***************************************************************************)
EXTENDS Matching, DocumentProofs, NumberInduction

(* Pairs of a v0 and a v1 node in which no node occurs twice. *)
OneToOne(pairs) ==
  /\ pairs \subseteq Nodes(v0) \X Nodes(v1)
  /\ \A p, q \in pairs : p[1] = q[1] <=> p[2] = q[2]

-----------------------------------------------------------------------------
(* MatchById claims at most one pair: the table holds one node a key. *)
LEMMA ByIdAttrHashIsOneToOne ==
  ASSUME TypeOK, NEW j \in Nodes(v1)
  PROVE  OneToOne(ByIdAttrHash(j) \X {j})
PROOF
  <1>1. v0.n \in Nat /\ ByIdAttrHash(j) \subseteq 1 .. v0.n
    BY DocumentNodes DEF TypeOK, ByIdAttrHash, Nodes
  <1>2. \A i, k \in ByIdAttrHash(j) : ~(i < k)
    BY <1>1 DEF ByIdAttrHash
  <1>3. \A i, k \in ByIdAttrHash(j) : i = k
    BY <1>1, <1>2
  <1> QED
    BY <1>1, <1>3 DEF OneToOne, Nodes

(* FullBottomUp claims at most one pair. *)
LEMMA FavouriteIsOneToOne ==
  ASSUME TypeOK, NEW j \in Nodes(v1)
  PROVE  OneToOne(Favourite(j) \X {j})
PROOF
  <1>1. v0.n \in Nat /\ Favourite(j) \subseteq 1 .. v0.n
    BY DocumentNodes DEF TypeOK, Favourite, Heaviest, Nodes
  <1>2. \A i, k \in Favourite(j) : i <= k
    BY DEF Favourite
  <1>3. \A i, k \in Favourite(j) : i = k
    BY <1>1, <1>2
  <1> QED
    BY <1>1, <1>3 DEF OneToOne, Nodes

(* Optimize claims a child at most once on each side. *)
LEMMA UniqueTagsIsOneToOne ==
  ASSUME TypeOK, NEW i \in Nodes(v0), NEW j \in Nodes(v1)
  PROVE  OneToOne(UniqueTags(i, j))
PROOF
  <1>1. FreeV0(i) \subseteq Nodes(v0) /\ FreeV1(j) \subseteq Nodes(v1)
    BY DocumentNodes DEF TypeOK, FreeV0, FreeV1
  <1>2. UniqueTags(i, j) \subseteq FreeV0(i) \X FreeV1(j)
    BY DEF UniqueTags
  <1>3. ASSUME NEW p \in UniqueTags(i, j), NEW q \in UniqueTags(i, j)
        PROVE  p[1] = q[1] <=> p[2] = q[2]
    BY <1>2, <1>3 DEF UniqueTags
  <1> QED
    BY <1>1, <1>2, <1>3 DEF OneToOne

(***************************************************************************)
(* What topdownMatch claims for a subtree: its nodes go to the nodes at    *)
(* the same postfix distance from the top, and its ancestors, which come   *)
(* after it, to the ancestors at the same level.                           *)
(***************************************************************************)
LEMMA SubtreeClaimIsOneToOne ==
  ASSUME TypeOK, NEW c \in Nodes(v0), NEW j \in Nodes(v1), NEW level
  PROVE  OneToOne(ForceParentsAssign(c, j, level) \cup RecursiveAssign(c, j))
PROOF
  <1> DEFINE parents == ForceParentsAssign(c, j, level)
             inside  == RecursiveAssign(c, j)
  <1>1. /\ v0.n \in Nat /\ v1.n \in Nat
        /\ parents \subseteq Ancestors(v0, c) \X Ancestors(v1, j)
        /\ inside \subseteq Subtree(v0, c) \X Subtree(v1, j)
    BY DocumentNodes DEF TypeOK, ForceParentsAssign, AncestorPairs, RecursiveAssign
  <1>2. /\ Ancestors(v0, c) \subseteq (c + 1) .. v0.n /\ Subtree(v0, c) \subseteq 1 .. c
        /\ Ancestors(v1, j) \subseteq (j + 1) .. v1.n /\ Subtree(v1, j) \subseteq 1 .. j
    BY DEF Ancestors, Subtree
  <1>3. c \in 1 .. v0.n /\ j \in 1 .. v1.n
    BY DEF Nodes
  <1>4. parents \cup inside \subseteq Nodes(v0) \X Nodes(v1)
    <2>1. parents \subseteq Nodes(v0) \X Nodes(v1)
      BY <1>1, <1>2, <1>3 DEF Nodes
    <2>2. inside \subseteq Nodes(v0) \X Nodes(v1)
      BY <1>1, <1>2, <1>3 DEF Nodes
    <2> QED
      BY <2>1, <2>2
  <1>5. ASSUME NEW p \in parents \cup inside, NEW q \in parents \cup inside
        PROVE  p[1] = q[1] <=> p[2] = q[2]
    <2>1. CASE p \in inside /\ q \in inside
      <3>1. c - p[1] = j - p[2] /\ c - q[1] = j - q[2]
        BY <2>1 DEF RecursiveAssign
      <3>2. p[1] \in Int /\ p[2] \in Int /\ q[1] \in Int /\ q[2] \in Int
        BY <1>4, <1>5, <1>1 DEF Nodes
      <3> QED
        BY <3>1, <3>2, <1>3
    <2>2. CASE p \in parents /\ q \in parents
      <3>1. /\ Level(v0, c, p[1]) = Level(v1, j, p[2])
            /\ Level(v0, c, q[1]) = Level(v1, j, q[2])
        BY <2>2 DEF ForceParentsAssign, AncestorPairs
      <3>2. /\ p[1] \in Ancestors(v0, c) /\ q[1] \in Ancestors(v0, c)
            /\ p[2] \in Ancestors(v1, j) /\ q[2] \in Ancestors(v1, j)
        BY <1>1, <2>2
      <3>3. p[1] = q[1] => p[2] = q[2]
        BY <3>1, <3>2, LevelIsInjective DEF TypeOK
      <3>4. p[2] = q[2] => p[1] = q[1]
        BY <3>1, <3>2, LevelIsInjective DEF TypeOK
      <3> QED
        BY <3>3, <3>4
    <2>3. CASE p \in parents /\ q \in inside
      BY <1>1, <1>2, <1>3, <2>3
    <2>4. CASE p \in inside /\ q \in parents
      BY <1>1, <1>2, <1>3, <2>4
    <2> QED
      BY <2>1, <2>2, <2>3, <2>4
  <1> QED
    BY <1>4, <1>5 DEF OneToOne

-----------------------------------------------------------------------------
(* Two nodes the delta needs no operation for, as far as kind and value go. *)
AlikeNodes(i, j) ==
  /\ v0.kind[i] = v1.kind[j]
  /\ v1.kind[j] = "text" => v0.label[i] = v1.label[j]

(* Pairs that are alike wherever nodeAssign accepts them. *)
AlikeIfAssignable(pairs) == \A p \in pairs : Assignable(p[1], p[2]) => AlikeNodes(p[1], p[2])

(* Own hashes tell elements from leaves: a tag is never NULL. *)
LEMMA ElementsAreAlike ==
  ASSUME TypeOK, NEW i \in Nodes(v0), NEW j \in Nodes(v1),
         v0.kind[i] = "element", OwnHash(v0, i) = OwnHash(v1, j)
  PROVE  AlikeNodes(i, j)
PROOF
  <1>1. v0.label[i] \in Label /\ v0.label[i] # None
    BY DocumentAssumption DEF TypeOK, IsDocument, IsContent
  <1>2. v1.kind[j] = "element"
    BY <1>1 DEF OwnHash
  <1> QED
    BY <1>2 DEF AlikeNodes

(* Own hash and seed together tell texts by their value and comments. *)
LEMMA SeedsTellLeaves ==
  ASSUME TypeOK, NEW i \in Nodes(v0), NEW j \in Nodes(v1),
         OwnHash(v0, i) = OwnHash(v1, j), HashSeed(v0, i) = HashSeed(v1, j)
  PROVE  AlikeNodes(i, j)
PROOF
  <1>1. /\ v0.kind[i] \in Kinds /\ v1.kind[j] \in Kinds
        /\ v0.label[i] \in Label /\ v1.label[j] \in Label
    BY DEF TypeOK, IsDocument, IsContent
  <1>2. v0.label[i] # None /\ v1.label[j] # None
    BY <1>1, DocumentAssumption
  <1>3. CASE v0.kind[i] = "element"
    BY <1>3, ElementsAreAlike
  <1>4. CASE v0.kind[i] = "text"
    <2>1. v1.kind[j] # "element"
      BY <1>2, <1>4 DEF OwnHash
    <2>2. HashSeed(v0, i) = <<v0.label[i], None>>
      BY <1>4 DEF HashSeed
    <2>3. v1.kind[j] = "text"
      BY <1>1, <1>2, <2>1, <2>2 DEF HashSeed, OwnHash, Kinds
    <2> QED
      BY <1>4, <2>2, <2>3 DEF HashSeed, AlikeNodes
  <1>5. CASE v0.kind[i] = "comment"
    <2>1. v1.kind[j] # "element"
      BY <1>2, <1>5 DEF OwnHash
    <2>2. v1.kind[j] # "text"
      BY <1>2, <1>5 DEF HashSeed, OwnHash
    <2> QED
      BY <1>1, <1>5, <2>1, <2>2 DEF AlikeNodes, Kinds
  <1> QED
    BY <1>1, <1>3, <1>4, <1>5 DEF Kinds

(* An ancestor of a node has a child, the node numbered just below it. *)
LEMMA AncestorsAreElements ==
  ASSUME NEW d, IsDocument(d), NEW i \in Nodes(d), NEW a \in Ancestors(d, i)
  PROVE  d.kind[a] = "element"
PROOF
  <1>1. /\ d.n \in Nat /\ i \in 1 .. d.n /\ a \in (i + 1) .. d.n
        /\ d.parent \in [1 .. d.n -> 0 .. d.n]
    BY DEF IsDocument, IsTree, Nodes, Ancestors
  <1>2. a - 1 \in i .. (a - 1) /\ a - 1 \in 1 .. (d.n - 1)
    BY <1>1
  <1>3. d.parent[a - 1] <= a /\ d.parent[a - 1] > a - 1
    BY <1>2 DEF Ancestors, IsDocument, IsTree
  <1>4. d.parent[a - 1] = a
    BY <1>1, <1>2, <1>3
  <1>5. a - 1 \in Children(d, a)
    BY <1>1, <1>2, <1>4 DEF Children
  <1> QED
    BY <1>1, <1>5 DEF IsDocument, IsXml, Nodes

(* The parent of a node is an element. *)
LEMMA ParentsAreElements ==
  ASSUME NEW d, IsDocument(d), NEW i \in Nodes(d), NEW c \in Nodes(d), d.parent[c] = i
  PROVE  d.kind[i] = "element"
PROOF
  <1>1. d.n \in Nat \ {0} /\ c \in 1 .. d.n /\ i \in 1 .. d.n
    BY DEF IsDocument, IsTree, Nodes
  <1>2. c # d.n
    BY <1>1 DEF IsDocument, IsTree
  <1>3. c < i
    BY <1>1, <1>2 DEF IsDocument, IsTree
  <1>4. c \in Children(d, i)
    BY <1>1, <1>3 DEF Children
  <1> QED
    BY <1>4 DEF IsDocument, IsXml

(* A set of numbers that contains an interval has room for it. *)
LEMMA SizeOfInterval ==
  ASSUME NEW c \in Nat, NEW low \in 1 .. c, NEW S, S \subseteq 1 .. c, low .. c \subseteq S
  PROVE  c - low \in 0 .. (Cardinality(S) - 1)
PROOF
  <1>1. IsFiniteSet(1 .. c)
    BY FS_Interval
  <1>2. IsFiniteSet(S)
    BY <1>1, FS_Subset
  <1>3. Cardinality(low .. c) = c - low + 1
    <2>1. low \in Int /\ c \in Int /\ ~(low > c)
      OBVIOUS
    <2> QED
      BY <2>1, FS_Interval
  <1>4. Cardinality(S) \in Nat
    BY <1>2, FS_CardinalityType
  <1>5. Cardinality(low .. c) <= Cardinality(S)
    BY <1>2, FS_Subset
  <1> QED
    BY <1>3, <1>4, <1>5

(***************************************************************************)
(* recursiveAssign pairs nodes at one place of two subtrees with one hash, *)
(* so their seeds are the same.                                            *)
(***************************************************************************)
LEMMA SubtreeClaimIsAlike ==
  ASSUME TypeOK, NEW c \in Nodes(v0), NEW j \in Nodes(v1), SameSubtreeHash(v0, c, v1, j)
  PROVE  AlikeIfAssignable(RecursiveAssign(c, j))
PROOF
  <1> SUFFICES ASSUME NEW p \in RecursiveAssign(c, j), Assignable(p[1], p[2])
               PROVE  AlikeNodes(p[1], p[2])
    BY DEF AlikeIfAssignable
  <1> DEFINE k == c - p[1]
  <1>1. /\ v0.n \in Nat /\ c \in 1 .. v0.n /\ v1.n \in Nat /\ j \in 1 .. v1.n
        /\ Subtree(v0, c) \subseteq 1 .. c /\ Subtree(v1, j) \subseteq 1 .. j
    BY DocumentNodes DEF TypeOK, Nodes, Subtree
  <1>2. /\ p[1] \in Subtree(v0, c) /\ p[2] \in Subtree(v1, j)
        /\ c - p[1] = j - p[2]
    BY DEF RecursiveAssign
  <1>3. /\ p[1] \in 1 .. c /\ p[2] \in 1 .. j
        /\ p[1] \in Nodes(v0) /\ p[2] \in Nodes(v1)
    BY <1>1, <1>2 DEF Nodes
  <1>4. p[1] .. c \subseteq Subtree(v0, c)
    BY <1>1, <1>2, <1>3 DEF Subtree
  <1>5. k \in 0 .. (Cardinality(Subtree(v0, c)) - 1)
    <2>1. c \in Nat
      BY <1>1
    <2> QED
      BY <1>1, <1>3, <1>4, <2>1, SizeOfInterval
  <1>6. HashSeed(v0, c - k) = HashSeed(v1, j - k)
    BY <1>5 DEF SameSubtreeHash
  <1>7. c - k = p[1] /\ j - k = p[2]
    BY <1>1, <1>2, <1>3
  <1>8. HashSeed(v0, p[1]) = HashSeed(v1, p[2])
    BY <1>6, <1>7
  <1> QED
    BY <1>3, <1>8, SeedsTellLeaves DEF Assignable

(* The ancestors forceParentsAssign takes along are elements. *)
LEMMA ParentsClaimIsAlike ==
  ASSUME TypeOK, NEW c \in Nodes(v0), NEW j \in Nodes(v1), NEW level
  PROVE  AlikeIfAssignable(ForceParentsAssign(c, j, level))
PROOF
  <1> SUFFICES ASSUME NEW p \in ForceParentsAssign(c, j, level), Assignable(p[1], p[2])
               PROVE  AlikeNodes(p[1], p[2])
    BY DEF AlikeIfAssignable
  <1>1. p[1] \in Ancestors(v0, c) /\ p[2] \in Ancestors(v1, j)
    BY DEF ForceParentsAssign, AncestorPairs
  <1>2. p[1] \in Nodes(v0) /\ p[2] \in Nodes(v1)
    BY <1>1, DocumentNodes DEF TypeOK
  <1>3. v0.kind[p[1]] = "element"
    BY <1>1, AncestorsAreElements DEF TypeOK
  <1> QED
    BY <1>2, <1>3, ElementsAreAlike DEF Assignable

(* What FullBottomUp proposes is the parent of something. *)
LEMMA FavouriteIsAlike ==
  ASSUME TypeOK, NEW j \in Nodes(v1)
  PROVE  AlikeIfAssignable(Favourite(j) \X {j})
PROOF
  <1> SUFFICES ASSUME NEW i \in Favourite(j), Assignable(i, j)
               PROVE  AlikeNodes(i, j)
    BY DEF AlikeIfAssignable
  <1>1. i \in Nodes(v0) /\ Voters(j, i) # {}
    BY DEF Favourite, Heaviest
  <1>2. PICK c \in Children(v1, j) : v1Assigned(c) /\ v0.parent[v1match[c]] = i
    BY <1>1 DEF Voters
  <1>3. c \in Nodes(v1)
    BY <1>2, DocumentNodes DEF TypeOK
  <1>4. v1match[c] \in Nodes(v0)
    BY <1>2, <1>3, DocumentNodes DEF TypeOK, v1Assigned, Nodes
  <1>5. v0.kind[i] = "element"
    BY <1>1, <1>2, <1>4, ParentsAreElements DEF TypeOK
  <1> QED
    BY <1>1, <1>5, ElementsAreAlike DEF Assignable

(* MatchById and Optimize look at elements only. *)
LEMMA ElementClaimsAreAlike ==
  ASSUME TypeOK, NEW i \in Nodes(v0), NEW j \in Nodes(v1)
  PROVE  /\ AlikeIfAssignable(ByIdAttrHash(j) \X {j})
         /\ AlikeIfAssignable(UniqueTags(i, j))
PROOF
  <1>1. ASSUME NEW k \in ByIdAttrHash(j), Assignable(k, j) PROVE AlikeNodes(k, j)
    <2>1. k \in Nodes(v0) /\ v0.kind[k] = "element"
      BY DEF ByIdAttrHash, HasIdAttr
    <2> QED
      BY <1>1, <2>1, ElementsAreAlike DEF Assignable
  <1>2. ASSUME NEW p \in UniqueTags(i, j), Assignable(p[1], p[2])
        PROVE  AlikeNodes(p[1], p[2])
    <2>1. p[1] \in FreeV0(i) /\ p[2] \in FreeV1(j)
      BY DEF UniqueTags
    <2>2. /\ p[1] \in Nodes(v0) /\ p[2] \in Nodes(v1)
          /\ v0.kind[p[1]] = "element"
      BY <2>1, DocumentNodes DEF TypeOK, FreeV0, FreeV1
    <2> QED
      BY <1>2, <2>2, ElementsAreAlike DEF Assignable
  <1> QED
    BY <1>1, <1>2 DEF AlikeIfAssignable

-----------------------------------------------------------------------------
(* What the matching does in the step in which topdownMatch has the roots. *)
RootsClaimed ==
  /\ ~v1Assigned(Root(v1))
  /\ v0match' = [v0match EXCEPT ![Root(v0)] = Root(v1)]
  /\ v1match' = [v1match EXCEPT ![Root(v1)] = Root(v0)]

(* Every step claims pairs, claims the roots, or leaves the matching alone. *)
LEMMA OnlyClaims ==
  ASSUME TypeOK, Next
  PROVE  /\ UNCHANGED <<v0, v1>>
         /\ \/ \E pairs :
                  OneToOne(pairs) /\ AlikeIfAssignable(pairs) /\ NodeAssign(pairs)
            \/ RootsClaimed
            \/ UNCHANGED <<v0match, v1match>>
PROOF
  <1>1. OneToOne({}) /\ AlikeIfAssignable({})
    BY DEF OneToOne, AlikeIfAssignable
  <1>2. CASE MatchById
    <2>1. PICK j \in Nodes(v1) :
            NodeAssign(IF HasIdAttr(v1, j) THEN ByIdAttrHash(j) \X {j} ELSE {})
      BY <1>2 DEF MatchById
    <2>2. OneToOne(IF HasIdAttr(v1, j) THEN ByIdAttrHash(j) \X {j} ELSE {})
      BY <1>1, ByIdAttrHashIsOneToOne
    <2>4. AlikeIfAssignable(IF HasIdAttr(v1, j) THEN ByIdAttrHash(j) \X {j} ELSE {})
      BY <1>1, DocumentNodes, ElementClaimsAreAlike DEF TypeOK
    <2>3. UNCHANGED <<v0, v1>>
      BY <1>2 DEF MatchById
    <2> QED
      BY <2>1, <2>2, <2>3, <2>4
  <1>3. CASE FullBottomUp
    <2>1. NodeAssign(Favourite(cursor) \X {cursor}) /\ UNCHANGED <<v0, v1>>
      BY <1>3 DEF FullBottomUp
    <2>2. cursor \in Nodes(v1)
      BY <1>3 DEF TypeOK, FullBottomUp, Nodes
    <2>3. OneToOne(Favourite(cursor) \X {cursor})
      BY <2>2, FavouriteIsOneToOne
    <2>4. AlikeIfAssignable(Favourite(cursor) \X {cursor})
      BY <2>2, FavouriteIsAlike
    <2> QED
      BY <2>1, <2>3, <2>4
  <1>4. CASE TopdownMatch
    <2>1. PICK j \in toMatch :
            SkipAssigned(j) \/ MatchRoots(j) \/ MatchSubtree(j) \/ ProgramChildren(j)
      BY <1>4 DEF TopdownMatch
    <2>2. CASE SkipAssigned(j)
      BY <2>2 DEF SkipAssigned, Requeue
    <2>3. CASE MatchRoots(j)
      BY <2>3 DEF MatchRoots, Requeue, RootsClaimed
    <2>4. CASE MatchSubtree(j)
      <3>1. PICK best \in BestOf(CandidateChoices(j)) :
              NodeAssign(ForceParentsAssign(best[2], j, best[1])
                         \cup RecursiveAssign(best[2], j))
        BY <2>4 DEF MatchSubtree
      <3>2. best[2] \in Nodes(v0) /\ SameSubtreeHash(v0, best[2], v1, j)
        BY DEF BestOf, CandidateChoices, Candidates
      <3>3. j \in Nodes(v1)
        BY DEF TypeOK
      <3>4. OneToOne(ForceParentsAssign(best[2], j, best[1])
                     \cup RecursiveAssign(best[2], j))
        BY <3>2, <3>3, SubtreeClaimIsOneToOne
      <3>5. UNCHANGED <<v0, v1>>
        BY <2>4 DEF MatchSubtree, Requeue
      <3>6. AlikeIfAssignable(ForceParentsAssign(best[2], j, best[1])
                              \cup RecursiveAssign(best[2], j))
        BY <3>2, <3>3, ParentsClaimIsAlike, SubtreeClaimIsAlike DEF AlikeIfAssignable
      <3> QED
        BY <3>1, <3>4, <3>5, <3>6
    <2>5. CASE ProgramChildren(j)
      BY <2>5 DEF ProgramChildren, Requeue
    <2> QED
      BY <2>1, <2>2, <2>3, <2>4, <2>5
  <1>5. CASE Optimize
    <2>1. PICK i \in Nodes(v0) :
            NodeAssign(IF v0Assigned(i) THEN UniqueTags(i, v0match[i]) ELSE {})
      BY <1>5 DEF Optimize
    <2>2. v0Assigned(i) => v0match[i] \in Nodes(v1)
      BY DocumentNodes DEF TypeOK, v0Assigned, Nodes
    <2>3. OneToOne(IF v0Assigned(i) THEN UniqueTags(i, v0match[i]) ELSE {})
      BY <1>1, <2>2, UniqueTagsIsOneToOne
    <2>4. UNCHANGED <<v0, v1>>
      BY <1>5 DEF Optimize
    <2>5. AlikeIfAssignable(IF v0Assigned(i) THEN UniqueTags(i, v0match[i]) ELSE {})
      BY <1>1, <2>2, ElementClaimsAreAlike
    <2> QED
      BY <2>1, <2>3, <2>4, <2>5
  <1> QED
    BY <1>2, <1>3, <1>4, <1>5 DEF Next

-----------------------------------------------------------------------------
(***************************************************************************)
(* What nodeAssign does to one field: a node that has a match keeps it,    *)
(* and a new match comes from a claimed, assignable pair.                  *)
(***************************************************************************)
LEMMA NodeAssignFields ==
  ASSUME TypeOK, NEW pairs, OneToOne(pairs), NodeAssign(pairs)
  PROVE  /\ v0match' \in [Nodes(v0) -> 0 .. v1.n]
         /\ v1match' \in [Nodes(v1) -> 0 .. v0.n]
         /\ \A i \in Nodes(v0), j \in Nodes(v1) :
              <<i, j>> \in pairs /\ Assignable(i, j) =>
                v0match'[i] = j /\ v1match'[j] = i
         /\ \A i \in Nodes(v0) :
              \/ v0match'[i] = v0match[i]
              \/ /\ v0match'[i] \in Nodes(v1) /\ <<i, v0match'[i]>> \in pairs
                 /\ Assignable(i, v0match'[i])
         /\ \A j \in Nodes(v1) :
              \/ v1match'[j] = v1match[j]
              \/ /\ v1match'[j] \in Nodes(v0) /\ <<v1match'[j], j>> \in pairs
                 /\ Assignable(v1match'[j], j)
PROOF
  <1> DEFINE done == {p \in pairs : Assignable(p[1], p[2])}
  <1>1. /\ v0.n \in Nat /\ v1.n \in Nat
        /\ Nodes(v0) = 1 .. v0.n /\ Nodes(v1) = 1 .. v1.n
    BY DocumentNodes DEF TypeOK, Nodes
  <1>2. \A i, j : <<i, j>> \in done <=> <<i, j>> \in pairs /\ Assignable(i, j)
    OBVIOUS
  <1>3. /\ v0match' = [i \in Nodes(v0) |->
             IF \E j \in Nodes(v1) : <<i, j>> \in done
             THEN CHOOSE j \in Nodes(v1) : <<i, j>> \in done ELSE v0match[i]]
        /\ v1match' = [j \in Nodes(v1) |->
             IF \E i \in Nodes(v0) : <<i, j>> \in done
             THEN CHOOSE i \in Nodes(v0) : <<i, j>> \in done ELSE v1match[j]]
    BY DEF NodeAssign
  <1>4. \A p, q \in done : p[1] = q[1] <=> p[2] = q[2]
    BY DEF OneToOne
  <1> HIDE DEF done
  <1>5. \A i \in Nodes(v0) :
          IF \E j \in Nodes(v1) : <<i, j>> \in done
          THEN v0match'[i] \in Nodes(v1) /\ <<i, v0match'[i]>> \in done
          ELSE v0match'[i] = v0match[i]
    BY <1>3
  <1>6. \A j \in Nodes(v1) :
          IF \E i \in Nodes(v0) : <<i, j>> \in done
          THEN v1match'[j] \in Nodes(v0) /\ <<v1match'[j], j>> \in done
          ELSE v1match'[j] = v1match[j]
    BY <1>3
  <1>7. v0match' \in [Nodes(v0) -> 0 .. v1.n]
    <2>1. ASSUME NEW i \in Nodes(v0)
          PROVE  v0match'[i] \in 0 .. v1.n
      <3>1. v0match[i] \in 0 .. v1.n
        BY DEF TypeOK
      <3>2. v0match'[i] = v0match[i] \/ v0match'[i] \in Nodes(v1)
        BY <1>5
      <3> QED
        BY <1>1, <3>1, <3>2
    <2> QED
      BY <1>3, <2>1
  <1>8. v1match' \in [Nodes(v1) -> 0 .. v0.n]
    <2>1. ASSUME NEW j \in Nodes(v1)
          PROVE  v1match'[j] \in 0 .. v0.n
      <3>1. v1match[j] \in 0 .. v0.n
        BY DEF TypeOK
      <3>2. v1match'[j] = v1match[j] \/ v1match'[j] \in Nodes(v0)
        BY <1>6
      <3> QED
        BY <1>1, <3>1, <3>2
    <2> QED
      BY <1>3, <2>1
  <1>9. ASSUME NEW i \in Nodes(v0), NEW j \in Nodes(v1), <<i, j>> \in done
        PROVE  v0match'[i] = j /\ v1match'[j] = i
    <2>1. <<i, v0match'[i]>> \in done /\ <<v1match'[j], j>> \in done
      BY <1>5, <1>6, <1>9
    <2> QED
      BY <1>4, <1>9, <2>1
  <1> QED
    BY <1>2, <1>5, <1>6, <1>7, <1>8, <1>9

-----------------------------------------------------------------------------
(* The first state is typed, and nothing is matched in it. *)
LEMMA InitTypeOK == Init => TypeOK
PROOF
  <1> SUFFICES ASSUME Init PROVE TypeOK
    OBVIOUS
  <1>1. IsDocument(v0) /\ IsDocument(v1)
    BY MatchingAssumption DEF Init
  <1>2. v0.n \in Nat /\ v1.n \in Nat /\ 1 <= v1.n
    BY <1>1, DocumentNodes
  <1>3. /\ v0match \in [Nodes(v0) -> 0 .. v1.n]
        /\ v1match \in [Nodes(v1) -> 0 .. v0.n]
    BY <1>2 DEF Init
  <1>4. /\ phase \in Phases /\ phase = "matchById"
        /\ cursor \in 1 .. v1.n
        /\ toMatch = {}
    BY <1>2 DEF Init, Phases
  <1> QED
    BY <1>1, <1>3, <1>4 DEF TypeOK

(* The end of a pass and the beginning of the next keep the ranges. *)
LEMMA AdvanceTypes ==
  ASSUME TypeOK, UNCHANGED <<v0, v1>>,
         NEW count, NEW next, NEW queue,
         \/ /\ phase = "matchById" /\ next = "fullBottomUp"
            /\ count = v1.n /\ queue = {}
         \/ /\ phase = "fullBottomUp" /\ next = "topdownMatch"
            /\ count = v1.n /\ queue = {Root(v1)}
         \/ /\ phase = "optimize" /\ next = "matched"
            /\ count = v0.n /\ queue = {},
         Advance(count, next, queue)
  PROVE  /\ phase' \in Phases
         /\ phase' = "topdownMatch" => cursor' = 1
         /\ cursor' \in 1 .. (IF phase' = "optimize" THEN v0'.n ELSE v1'.n)
         /\ toMatch' \subseteq Nodes(v1')
         /\ toMatch' # {} <=> phase' = "topdownMatch"
PROOF
  <1>1. /\ v0.n \in Nat /\ v1.n \in Nat /\ 1 <= v0.n /\ 1 <= v1.n
        /\ Root(v1) \in Nodes(v1)
    BY DocumentNodes DEF TypeOK
  <1>2. count \in Nat /\ cursor \in 1 .. count /\ phase # "topdownMatch" /\ toMatch = {}
    BY <1>1 DEF TypeOK
  <1>3. CASE cursor < count
    <2>1. cursor' = cursor + 1 /\ phase' = phase /\ toMatch' = toMatch
      BY <1>3 DEF Advance
    <2>2. cursor' \in 1 .. count
      BY <1>2, <1>3, <2>1
    <2> QED
      BY <1>2, <2>1, <2>2 DEF TypeOK
  <1>4. CASE ~(cursor < count)
    <2>1. cursor' = 1 /\ phase' = next /\ toMatch' = queue
      BY <1>4 DEF Advance
    <2> QED
      BY <1>1, <2>1 DEF Phases
  <1> QED
    BY <1>3, <1>4

(* So does a step of topdownMatch that queues nodes of v1. *)
LEMMA RequeueTypes ==
  ASSUME TypeOK, phase = "topdownMatch",
         NEW j \in Nodes(v1), NEW nodes, nodes \subseteq Nodes(v1),
         Requeue(j, nodes)
  PROVE  /\ phase' \in Phases
         /\ phase' = "topdownMatch" => cursor' = 1
         /\ cursor' \in 1 .. (IF phase' = "optimize" THEN v0'.n ELSE v1'.n)
         /\ toMatch' \subseteq Nodes(v1')
         /\ toMatch' # {} <=> phase' = "topdownMatch"
PROOF
  <1>1. v0.n \in Nat /\ v1.n \in Nat /\ 1 <= v0.n /\ 1 <= v1.n
    BY DocumentNodes DEF TypeOK
  <1>2. /\ toMatch' = (toMatch \ {j}) \cup nodes
        /\ phase' = IF toMatch' = {} THEN "optimize" ELSE "topdownMatch"
        /\ v0' = v0 /\ v1' = v1 /\ cursor' = 1
    BY DEF Requeue, TypeOK
  <1> QED
    BY <1>1, <1>2 DEF TypeOK, Phases

(* Every step keeps the ranges of the phase, the cursor and the queue. *)
LEMMA StepTypes ==
  ASSUME TypeOK, Next
  PROVE  /\ phase' \in Phases
         /\ phase' = "topdownMatch" => cursor' = 1
         /\ cursor' \in 1 .. (IF phase' = "optimize" THEN v0'.n ELSE v1'.n)
         /\ toMatch' \subseteq Nodes(v1')
         /\ toMatch' # {} <=> phase' = "topdownMatch"
PROOF
  <1>1. CASE MatchById
    BY <1>1, AdvanceTypes DEF MatchById
  <1>2. CASE FullBottomUp
    BY <1>2, AdvanceTypes DEF FullBottomUp
  <1>3. CASE TopdownMatch
    <2>1. PICK j \in toMatch :
            SkipAssigned(j) \/ MatchRoots(j) \/ MatchSubtree(j) \/ ProgramChildren(j)
      BY <1>3 DEF TopdownMatch
    <2>2. phase = "topdownMatch" /\ j \in Nodes(v1)
      BY <1>3 DEF TopdownMatch, TypeOK
    <2>3. Children(v1, j) \subseteq Nodes(v1)
      BY <2>2, DocumentNodes DEF TypeOK
    <2>4. Requeue(j, Children(v1, j)) \/ Requeue(j, {})
      BY <2>1 DEF SkipAssigned, MatchRoots, MatchSubtree, ProgramChildren
    <2>5. CASE Requeue(j, Children(v1, j))
      BY <2>2, <2>3, <2>5, RequeueTypes
    <2>6. CASE Requeue(j, {})
      BY <2>2, <2>6, RequeueTypes
    <2> QED
      BY <2>4, <2>5, <2>6
  <1>4. CASE Optimize
    BY <1>4, AdvanceTypes DEF Optimize
  <1> QED
    BY <1>1, <1>2, <1>3, <1>4 DEF Next

(* Matching the roots keeps the types of the two fields. *)
LEMMA RootsTypes ==
  ASSUME TypeOK, RootsClaimed
  PROVE  /\ v0match' \in [Nodes(v0) -> 0 .. v1.n]
         /\ v1match' \in [Nodes(v1) -> 0 .. v0.n]
PROOF
  <1>1. v0.n \in Nat /\ v1.n \in Nat /\ 1 <= v0.n /\ 1 <= v1.n
    BY DocumentNodes DEF TypeOK
  <1>2. Root(v1) \in 0 .. v1.n /\ Root(v0) \in 0 .. v0.n
    BY <1>1 DEF Root
  <1> QED
    BY <1>2 DEF RootsClaimed, TypeOK

(* A step of any pass leaves the tables, the cursor and the queue in range. *)
LEMMA NextTypeOK == TypeOK /\ [Next]_matchVars => TypeOK'
PROOF
  <1> SUFFICES ASSUME TypeOK, [Next]_matchVars PROVE TypeOK'
    OBVIOUS
  <1>1. CASE Next
    <2>1. UNCHANGED <<v0, v1>>
      BY <1>1, OnlyClaims
    <2>2. /\ v0match' \in [Nodes(v0) -> 0 .. v1.n]
          /\ v1match' \in [Nodes(v1) -> 0 .. v0.n]
      <3>1. CASE \E pairs : OneToOne(pairs) /\ NodeAssign(pairs)
        BY <3>1, NodeAssignFields
      <3>2. CASE RootsClaimed
        BY <3>2, RootsTypes
      <3>3. CASE UNCHANGED <<v0match, v1match>>
        BY <3>3 DEF TypeOK
      <3> QED
        BY <1>1, <3>1, <3>2, <3>3, OnlyClaims
    <2>3. IsDocument(v0') /\ IsDocument(v1')
      BY <2>1 DEF TypeOK
    <2>4. /\ v0match' \in [Nodes(v0') -> 0 .. v1'.n]
          /\ v1match' \in [Nodes(v1') -> 0 .. v0'.n]
      BY <2>1, <2>2
    <2> QED
      BY <1>1, <2>3, <2>4, StepTypes DEF TypeOK
  <1>2. CASE UNCHANGED matchVars
    BY <1>2 DEF matchVars, TypeOK
  <1> QED
    BY <1>1, <1>2

(***************************************************************************)
(* TypeOK holds for all documents: the indices the passes follow stay in   *)
(* the arrays, and topdownMatch's queue is empty exactly outside that      *)
(* pass.                                                                   *)
(***************************************************************************)
THEOREM MatchingTypes == Spec => []TypeOK
PROOF
  BY InitTypeOK, NextTypeOK, PTL DEF Spec

-----------------------------------------------------------------------------
(* A claim keeps the matching mutual: only free nodes get a match, and both
   ends of a pair get it. *)
LEMMA ClaimIsMutual ==
  ASSUME TypeOK, MatchIsMutual, UNCHANGED <<v0, v1>>,
         NEW pairs, OneToOne(pairs), NodeAssign(pairs)
  PROVE  MatchIsMutual'
PROOF
  <1>1. /\ v0.n \in Nat /\ v1.n \in Nat
        /\ Nodes(v0) = 1 .. v0.n /\ Nodes(v1) = 1 .. v1.n
        /\ Root(v0) \in Nodes(v0) /\ Root(v1) \in Nodes(v1)
    BY DocumentNodes DEF TypeOK, Nodes
  <1>2. /\ \A i \in Nodes(v0) : v0Assigned(i) => v0match[i] \in Nodes(v1)
        /\ \A j \in Nodes(v1) : v1Assigned(j) => v1match[j] \in Nodes(v0)
    BY <1>1 DEF TypeOK, v0Assigned, v1Assigned
  <1>3. /\ \A i \in Nodes(v0) : v0Assigned(i) => v0match'[i] = v0match[i]
        /\ \A j \in Nodes(v1) : v1Assigned(j) => v1match'[j] = v1match[j]
    BY NodeAssignFields DEF Assignable
  <1>4. ASSUME NEW i \in Nodes(v0), v0match'[i] # 0
        PROVE  v1match'[v0match'[i]] = i
    <2>1. CASE v0match'[i] = v0match[i]
      <3>1. v0Assigned(i)
        BY <1>4, <2>1 DEF v0Assigned
      <3>2. v1match[v0match[i]] = i /\ v0match[i] \in Nodes(v1)
        BY <3>1, <1>2 DEF MatchIsMutual
      <3>3. v1Assigned(v0match[i])
        BY <3>2, <1>1 DEF v1Assigned
      <3> QED
        BY <1>3, <2>1, <3>2, <3>3
    <2>2. CASE v0match'[i] # v0match[i]
      BY <2>2, NodeAssignFields
    <2> QED
      BY <2>1, <2>2
  <1>5. ASSUME NEW j \in Nodes(v1), v1match'[j] # 0
        PROVE  \/ v0match'[v1match'[j]] = j
               \/ /\ v1match'[j] = Root(v0) /\ v0match'[Root(v0)] = Root(v1)
                  /\ v1match'[Root(v1)] = Root(v0)
    <2>1. CASE v1match'[j] = v1match[j]
      <3>1. v1Assigned(j) /\ v1match[j] \in Nodes(v0)
        BY <1>2, <1>5, <2>1 DEF v1Assigned
      <3>2. CASE v0match[v1match[j]] = j
        <4>1. v0Assigned(v1match[j])
          BY <1>1, <3>2 DEF v0Assigned
        <4> QED
          BY <1>3, <2>1, <3>1, <3>2, <4>1
      <3>3. CASE RootTakenTwice(j)
        <4>1. v0Assigned(Root(v0)) /\ v1Assigned(Root(v1))
          BY <1>1, <3>3 DEF RootTakenTwice, v0Assigned, v1Assigned
        <4> QED
          BY <1>1, <1>3, <2>1, <3>3, <4>1 DEF RootTakenTwice
      <3> QED
        BY <3>1, <3>2, <3>3 DEF MatchIsMutual
    <2>2. CASE v1match'[j] # v1match[j]
      BY <2>2, NodeAssignFields
    <2> QED
      BY <2>1, <2>2
  <1> QED
    BY <1>4, <1>5 DEF MatchIsMutual, RootTakenTwice, v0Assigned, v1Assigned

(* So does the step that matches the roots, whoever had v0's root before. *)
LEMMA RootsClaimIsMutual ==
  ASSUME TypeOK, MatchIsMutual, UNCHANGED <<v0, v1>>, RootsClaimed
  PROVE  MatchIsMutual'
PROOF
  <1>1. /\ v0.n \in Nat /\ v1.n \in Nat
        /\ Nodes(v0) = 1 .. v0.n /\ Nodes(v1) = 1 .. v1.n
        /\ Root(v0) \in Nodes(v0) /\ Root(v1) \in Nodes(v1)
    BY DocumentNodes DEF TypeOK, Nodes
  <1>2. /\ \A i \in Nodes(v0) :
             v0match'[i] = IF i = Root(v0) THEN Root(v1) ELSE v0match[i]
        /\ \A j \in Nodes(v1) :
             v1match'[j] = IF j = Root(v1) THEN Root(v0) ELSE v1match[j]
    BY DEF RootsClaimed, TypeOK
  <1>3. v1match[Root(v1)] = 0
    BY DEF RootsClaimed, v1Assigned
  <1>4. ASSUME NEW i \in Nodes(v0), v0match'[i] # 0
        PROVE  v1match'[v0match'[i]] = i
    <2>1. CASE i = Root(v0)
      BY <1>1, <1>2, <2>1
    <2>2. CASE i # Root(v0)
      <3>1. v0match'[i] = v0match[i] /\ v0Assigned(i)
        BY <1>2, <1>4, <2>2 DEF v0Assigned
      <3>2. v1match[v0match[i]] = i /\ v0match[i] \in Nodes(v1)
        BY <1>1, <3>1 DEF MatchIsMutual, TypeOK, v0Assigned
      <3>3. v0match[i] # Root(v1)
        BY <1>1, <1>3, <3>2
      <3> QED
        BY <1>2, <3>1, <3>2, <3>3
    <2> QED
      BY <2>1, <2>2
  <1>5. ASSUME NEW j \in Nodes(v1), v1match'[j] # 0
        PROVE  \/ v0match'[v1match'[j]] = j
               \/ /\ v1match'[j] = Root(v0) /\ v0match'[Root(v0)] = Root(v1)
                  /\ v1match'[Root(v1)] = Root(v0)
    <2>1. CASE v1match'[j] = Root(v0)
      BY <1>1, <1>2, <2>1
    <2>2. CASE v1match'[j] # Root(v0)
      <3>1. v1match'[j] = v1match[j] /\ v1Assigned(j)
        BY <1>2, <1>5, <2>2 DEF v1Assigned
      <3>2. v1match[j] \in Nodes(v0)
        BY <1>1, <3>1 DEF TypeOK, v1Assigned
      <3>3. ~RootTakenTwice(j)
        BY <1>1, <1>3 DEF RootTakenTwice
      <3>4. v0match[v1match[j]] = j
        BY <3>1, <3>3 DEF MatchIsMutual
      <3> QED
        BY <1>2, <2>2, <3>1, <3>2, <3>4
    <2> QED
      BY <2>1, <2>2
  <1> QED
    BY <1>4, <1>5 DEF MatchIsMutual, RootTakenTwice, v0Assigned, v1Assigned

(* nodeAssign's tests keep the two tables in step, the claim of the roots too. *)
LEMMA NextMutual ==
  TypeOK /\ MatchIsMutual /\ [Next]_matchVars => MatchIsMutual'
PROOF
  <1> SUFFICES ASSUME TypeOK, MatchIsMutual, [Next]_matchVars PROVE MatchIsMutual'
    OBVIOUS
  <1>1. CASE Next
    <2>1. UNCHANGED <<v0, v1>>
      BY <1>1, OnlyClaims
    <2>2. CASE \E pairs : OneToOne(pairs) /\ NodeAssign(pairs)
      BY <2>1, <2>2, ClaimIsMutual
    <2>3. CASE RootsClaimed
      BY <2>1, <2>3, RootsClaimIsMutual
    <2>4. CASE UNCHANGED <<v0match, v1match>>
      BY <2>1, <2>4 DEF MatchIsMutual, RootTakenTwice, v0Assigned, v1Assigned
    <2> QED
      BY <1>1, <2>2, <2>3, <2>4, OnlyClaims
  <1>2. CASE UNCHANGED matchVars
    BY <1>2 DEF matchVars, MatchIsMutual, RootTakenTwice, v0Assigned, v1Assigned
  <1> QED
    BY <1>1, <1>2

(***************************************************************************)
(* The matching is mutual for all documents, in every state of the four    *)
(* passes: nothing but the root of v0 can be claimed twice.                *)
(***************************************************************************)
THEOREM MatchingIsMutual == Spec => []MatchIsMutual
PROOF
  <1>1. Init => MatchIsMutual
    BY DEF Init, MatchIsMutual, v0Assigned, v1Assigned
  <1>2. TypeOK /\ MatchIsMutual /\ [Next]_matchVars => MatchIsMutual'
    BY NextMutual
  <1> QED
    BY <1>1, <1>2, MatchingTypes, PTL DEF Spec

-----------------------------------------------------------------------------
(* nodeAssign never pairs two own hashes; only the roots go unasked. *)
LEMMA NextKeepsOwnHash ==
  TypeOK /\ MatchKeepsOwnHash /\ [Next]_matchVars => MatchKeepsOwnHash'
PROOF
  <1> SUFFICES ASSUME TypeOK, MatchKeepsOwnHash, [Next]_matchVars
               PROVE  MatchKeepsOwnHash'
    OBVIOUS
  <1>1. CASE Next
    <2>1. v0' = v0 /\ v1' = v1
      BY <1>1, OnlyClaims
    <2>2. ASSUME NEW j \in Nodes(v1)
          PROVE  \/ v1match'[j] = v1match[j]
                 \/ OwnHash(v0, v1match'[j]) = OwnHash(v1, j)
                 \/ j = Root(v1) /\ v1match'[j] = Root(v0)
      <3>1. CASE \E pairs : OneToOne(pairs) /\ NodeAssign(pairs)
        BY <3>1, NodeAssignFields DEF Assignable
      <3>2. CASE RootsClaimed
        BY <3>2 DEF RootsClaimed, TypeOK
      <3>3. CASE UNCHANGED <<v0match, v1match>>
        BY <3>3
      <3> QED
        BY <1>1, <3>1, <3>2, <3>3, OnlyClaims
    <2> QED
      BY <2>1, <2>2 DEF MatchKeepsOwnHash, v1Assigned, OwnHash, Key
  <1>2. CASE UNCHANGED matchVars
    BY <1>2 DEF matchVars, MatchKeepsOwnHash, v1Assigned, OwnHash, Key
  <1> QED
    BY <1>1, <1>2

(***************************************************************************)
(* For all documents, matched nodes have one tag and one identifier, the   *)
(* roots excepted: a renameRoot is the only renaming a delta ever needs.   *)
(***************************************************************************)
THEOREM MatchingKeepsOwnHash == Spec => []MatchKeepsOwnHash
PROOF
  <1>1. Init => MatchKeepsOwnHash
    BY DEF Init, MatchKeepsOwnHash, v1Assigned
  <1>2. TypeOK /\ MatchKeepsOwnHash /\ [Next]_matchVars => MatchKeepsOwnHash'
    BY NextKeepsOwnHash
  <1> QED
    BY <1>1, <1>2, MatchingTypes, PTL DEF Spec

-----------------------------------------------------------------------------
(* Texts meet texts of their value and comments comments in every claim. *)
LEMMA NextLeavesAgree ==
  TypeOK /\ MatchedLeavesAgree /\ [Next]_matchVars => MatchedLeavesAgree'
PROOF
  <1> SUFFICES ASSUME TypeOK, MatchedLeavesAgree, [Next]_matchVars
               PROVE  MatchedLeavesAgree'
    OBVIOUS
  <1>1. CASE Next
    <2>1. v0' = v0 /\ v1' = v1
      BY <1>1, OnlyClaims
    <2>2. ASSUME NEW j \in Nodes(v1)
          PROVE  v1match'[j] = v1match[j] \/ AlikeNodes(v1match'[j], j)
      <3>1. CASE \E pairs :
                   OneToOne(pairs) /\ AlikeIfAssignable(pairs) /\ NodeAssign(pairs)
        <4>1. PICK pairs : OneToOne(pairs) /\ AlikeIfAssignable(pairs) /\ NodeAssign(pairs)
          BY <3>1
        <4>2. \/ v1match'[j] = v1match[j]
              \/ <<v1match'[j], j>> \in pairs /\ Assignable(v1match'[j], j)
          BY <4>1, NodeAssignFields
        <4> QED
          BY <4>1, <4>2 DEF AlikeIfAssignable
      <3>2. CASE RootsClaimed
        <4>1. v0.kind[Root(v0)] = "element" /\ v1.kind[Root(v1)] = "element"
          BY DocumentNodes DEF TypeOK, IsDocument, IsXml, Root
        <4>2. v1match'[j] = v1match[j] \/ (j = Root(v1) /\ v1match'[j] = Root(v0))
          BY <3>2 DEF RootsClaimed, TypeOK
        <4> QED
          BY <4>1, <4>2 DEF AlikeNodes
      <3>3. CASE UNCHANGED <<v0match, v1match>>
        BY <3>3
      <3> QED
        BY <1>1, <3>1, <3>2, <3>3, OnlyClaims
    <2> QED
      BY <2>1, <2>2 DEF MatchedLeavesAgree, AlikeNodes, v1Assigned
  <1>2. CASE UNCHANGED matchVars
    BY <1>2 DEF matchVars, MatchedLeavesAgree, v1Assigned
  <1> QED
    BY <1>1, <1>2

(***************************************************************************)
(* For all documents, no pass ever pairs a text with another value, or     *)
(* nodes of different kinds, although all leaves have one own hash: what   *)
(* DeltaConstructor takes for granted about a matched leaf.                *)
(***************************************************************************)
THEOREM MatchingLeavesAgree == Spec => []MatchedLeavesAgree
PROOF
  <1>1. Init => MatchedLeavesAgree
    BY DEF Init, MatchedLeavesAgree, v1Assigned
  <1>2. TypeOK /\ MatchedLeavesAgree /\ [Next]_matchVars => MatchedLeavesAgree'
    BY NextLeavesAgree
  <1> QED
    BY <1>1, <1>2, MatchingTypes, PTL DEF Spec

(***************************************************************************)
(* For all documents, no pass takes back a match, v0's root excepted.      *)
(***************************************************************************)
THEOREM MatchingIsFinal == Spec => MatchIsFinal
PROOF
  <1> DEFINE Kept ==
        /\ \A j \in Nodes(v1) : v1Assigned(j) => v1match'[j] = v1match[j]
        /\ \A i \in Nodes(v0) : v0Assigned(i) =>
             \/ v0match'[i] = v0match[i]
             \/ i = Root(v0) /\ v0match'[i] = Root(v1)
  <1>1. TypeOK /\ [Next]_matchVars => [Kept]_matchVars
    <2> SUFFICES ASSUME TypeOK, Next PROVE Kept
      OBVIOUS
    <2>1. CASE \E pairs : OneToOne(pairs) /\ NodeAssign(pairs)
      BY <2>1, NodeAssignFields DEF Assignable
    <2>2. CASE RootsClaimed
      BY <2>2 DEF RootsClaimed, TypeOK, v1Assigned
    <2>3. CASE UNCHANGED <<v0match, v1match>>
      BY <2>3
    <2> QED
      BY <2>1, <2>2, <2>3, OnlyClaims
  <1> QED
    BY <1>1, MatchingTypes, PTL DEF Spec, MatchIsFinal

-----------------------------------------------------------------------------
(* Below a matched node no pair is left that Optimize would make. *)
NothingLeftBelow(i) ==
  v0Assigned(i) => \A p \in UniqueTags(i, v0match[i]) : ~Assignable(p[1], p[2])

(* So it is below the nodes Optimize has visited. *)
OptimizedSoFar ==
  /\ phase = "optimize" =>
       \A i \in Nodes(v0) : PrefixRank(v0, i) < cursor => NothingLeftBelow(i)
  /\ phase = "matched" => \A i \in Nodes(v0) : NothingLeftBelow(i)

(* What Optimize claims below c touches no child of another node. *)
LEMMA OtherFamiliesStay ==
  ASSUME TypeOK, UNCHANGED <<v0, v1>>, NEW c \in Nodes(v0), NEW e \in Nodes(v1),
         NodeAssign(UniqueTags(c, e))
  PROVE  /\ \A i \in Nodes(v0) : i \notin Children(v0, c) => v0match'[i] = v0match[i]
         /\ \A j \in Nodes(v1) : j \notin Children(v1, e) => v1match'[j] = v1match[j]
         /\ \A i \in Nodes(v0) : i # c => FreeV0(i)' = FreeV0(i)
         /\ \A j \in Nodes(v1) : j # e => FreeV1(j)' = FreeV1(j)
PROOF
  <1>1. OneToOne(UniqueTags(c, e))
    BY UniqueTagsIsOneToOne
  <1>2. UniqueTags(c, e) \subseteq Children(v0, c) \X Children(v1, e)
    BY DEF UniqueTags, FreeV0, FreeV1
  <1>3. \A i \in Nodes(v0) : i \notin Children(v0, c) => v0match'[i] = v0match[i]
    <2>1. \A i \in Nodes(v0) :
            v0match'[i] = v0match[i] \/ <<i, v0match'[i]>> \in UniqueTags(c, e)
      BY <1>1, NodeAssignFields
    <2>2. \A i, j : <<i, j>> \in UniqueTags(c, e) => i \in Children(v0, c)
      BY <1>2
    <2> QED
      BY <2>1, <2>2
  <1>4. \A j \in Nodes(v1) : j \notin Children(v1, e) => v1match'[j] = v1match[j]
    <2>1. \A j \in Nodes(v1) :
            v1match'[j] = v1match[j] \/ <<v1match'[j], j>> \in UniqueTags(c, e)
      BY <1>1, NodeAssignFields
    <2>2. \A i, j : <<i, j>> \in UniqueTags(c, e) => j \in Children(v1, e)
      BY <1>2
    <2> QED
      BY <2>1, <2>2
  <1>5. ASSUME NEW i \in Nodes(v0), i # c
        PROVE  FreeV0(i)' = FreeV0(i)
    <2>1. \A k \in Children(v0, i) : k \in Nodes(v0) /\ k \notin Children(v0, c)
      BY <1>5, DocumentNodes DEF Children, TypeOK
    <2>2. \A k \in Children(v0, i) : v0match'[k] = v0match[k]
      BY <1>3, <2>1
    <2> QED
      BY <2>2 DEF FreeV0, v0Assigned
  <1>6. ASSUME NEW j \in Nodes(v1), j # e
        PROVE  FreeV1(j)' = FreeV1(j)
    <2>1. \A k \in Children(v1, j) : k \in Nodes(v1) /\ k \notin Children(v1, e)
      BY <1>6, DocumentNodes DEF Children, TypeOK
    <2>2. \A k \in Children(v1, j) : v1match'[k] = v1match[k]
      BY <1>4, <2>1
    <2> QED
      BY <2>2 DEF FreeV1, v1Assigned
  <1> QED
    BY <1>3, <1>4, <1>5, <1>6

(* A node visited earlier is left as it was. *)
LEMMA VisitedStaysDone ==
  ASSUME TypeOK, MatchIsMutual, UNCHANGED <<v0, v1>>,
         NEW c \in Nodes(v0), v0Assigned(c), NodeAssign(UniqueTags(c, v0match[c])),
         NEW i \in Nodes(v0), PrefixRank(v0, i) < PrefixRank(v0, c), NothingLeftBelow(i)
  PROVE  NothingLeftBelow(i)'
PROOF
  <1>1. \A k \in Nodes(v0) : v0Assigned(k) => v0match[k] \in Nodes(v1)
    BY DocumentNodes DEF TypeOK, v0Assigned, Nodes
  <1>2. IsDocument(v0) /\ IsDocument(v1)
    BY DEF TypeOK
  <1>3. i # c /\ i \notin Children(v0, c)
    <2>1. PrefixRank(v0, i) \in Int /\ PrefixRank(v0, c) \in Int
      BY <1>2, PrefixOrder, DocumentNodes
    <2> QED
      BY <1>2, <2>1, PrefixOrder
  <1> DEFINE e == v0match[c]
             m == v0match[i]
  <1>4. e \in Nodes(v1)
    BY <1>1
  <1>5. v0match'[i] = v0match[i]
    BY <1>3, <1>4, OtherFamiliesStay
  <1>6. SUFFICES ASSUME v0Assigned(i)
                 PROVE  \A p \in UniqueTags(i, m)' : ~Assignable(p[1], p[2])'
    BY <1>5 DEF NothingLeftBelow, v0Assigned
  <1>7. m \in Nodes(v1) /\ m # e
    BY <1>1, <1>3, <1>6 DEF MatchIsMutual
  <1>8. FreeV0(i)' = FreeV0(i) /\ FreeV1(m)' = FreeV1(m)
    BY <1>3, <1>4, <1>7, OtherFamiliesStay, <1>5
  <1>9. UniqueTags(i, m)' = UniqueTags(i, m)
    BY <1>8 DEF UniqueTags
  <1>10. \A p \in UniqueTags(i, m) : Assignable(p[1], p[2])' => Assignable(p[1], p[2])
    <2> SUFFICES ASSUME NEW p \in UniqueTags(i, m), Assignable(p[1], p[2])'
                 PROVE  Assignable(p[1], p[2])
      OBVIOUS
    <2>1. p[1] \in FreeV0(i) /\ p[2] \in FreeV1(m)
      BY DEF UniqueTags
    <2>2. ~v0Assigned(p[1]) /\ ~v1Assigned(p[2])
      BY <2>1 DEF FreeV0, FreeV1
    <2>3. OwnHash(v0, p[1]) = OwnHash(v1, p[2])
      BY DEF Assignable
    <2> QED
      BY <2>2, <2>3 DEF Assignable
  <1> QED
    BY <1>6, <1>9, <1>10 DEF NothingLeftBelow

(***************************************************************************)
(* The node visited now: a child that became the only free one with its    *)
(* tag was so before, for what Optimize took away had tags of their own.   *)
(***************************************************************************)
LEMMA VisitDoesIt ==
  ASSUME TypeOK, UNCHANGED <<v0, v1>>,
         NEW c \in Nodes(v0), v0Assigned(c), NodeAssign(UniqueTags(c, v0match[c]))
  PROVE  NothingLeftBelow(c)'
PROOF
  <1> DEFINE e == v0match[c]
  <1>1. e \in Nodes(v1)
    BY DocumentNodes DEF TypeOK, v0Assigned, Nodes
  <1>2. OneToOne(UniqueTags(c, e))
    BY <1>1, UniqueTagsIsOneToOne
  <1>3. c \notin Children(v0, c)
    BY DocumentNodes DEF Children, TypeOK, Nodes
  <1>4. v0match'[c] = e
    BY <1>1, <1>3, OtherFamiliesStay
  <1>5. SUFFICES ASSUME NEW p \in UniqueTags(c, e)', Assignable(p[1], p[2])'
                 PROVE  FALSE
    BY <1>4 DEF NothingLeftBelow
  <1>6. /\ p[1] \in FreeV0(c)' /\ p[2] \in FreeV1(e)'
        /\ v0.label[p[1]] = v1.label[p[2]]
        /\ \A k \in FreeV0(c)' : v0.label[k] = v0.label[p[1]] => k = p[1]
        /\ \A k \in FreeV1(e)' : v1.label[k] = v1.label[p[2]] => k = p[2]
        /\ p = <<p[1], p[2]>>
    BY DEF UniqueTags
  <1>7. /\ \A k \in Nodes(v0) : v0Assigned(k) => v0match'[k] = v0match[k]
        /\ \A k \in Nodes(v1) : v1Assigned(k) => v1match'[k] = v1match[k]
    BY <1>2, NodeAssignFields DEF Assignable
  <1>8. /\ \A k \in FreeV0(c) : k \in FreeV0(c)' \/ \E q \in UniqueTags(c, e) : k = q[1]
        /\ FreeV0(c)' \subseteq FreeV0(c)
    <2>1. Children(v0, c) \subseteq Nodes(v0)
      BY DocumentNodes DEF TypeOK
    <2>2. \A k \in FreeV0(c) : v0match'[k] = v0match[k] \/ \E q \in UniqueTags(c, e) : k = q[1]
      <3>1. \A k \in Nodes(v0) : v0match'[k] = v0match[k] \/ <<k, v0match'[k]>> \in UniqueTags(c, e)
        BY <1>2, NodeAssignFields
      <3>2. \A k \in FreeV0(c) : k \in Nodes(v0)
        BY <2>1 DEF FreeV0
      <3> QED
        BY <3>1, <3>2
    <2> QED
      BY <1>7, <2>1, <2>2 DEF FreeV0, v0Assigned
  <1>9. /\ \A k \in FreeV1(e) : k \in FreeV1(e)' \/ \E q \in UniqueTags(c, e) : k = q[2]
        /\ FreeV1(e)' \subseteq FreeV1(e)
    <2>1. Children(v1, e) \subseteq Nodes(v1)
      BY <1>1, DocumentNodes DEF TypeOK
    <2>2. \A k \in FreeV1(e) : v1match'[k] = v1match[k] \/ \E q \in UniqueTags(c, e) : k = q[2]
      <3>1. \A k \in Nodes(v1) : v1match'[k] = v1match[k] \/ <<v1match'[k], k>> \in UniqueTags(c, e)
        BY <1>2, NodeAssignFields
      <3>2. \A k \in FreeV1(e) : k \in Nodes(v1)
        BY <2>1 DEF FreeV1
      <3> QED
        BY <3>1, <3>2
    <2> QED
      BY <1>7, <2>1, <2>2 DEF FreeV1, v1Assigned
  <1>10. p[1] \in FreeV0(c) /\ p[2] \in FreeV1(e)
    BY <1>6, <1>8, <1>9
  <1>11. \A k \in FreeV0(c) : v0.label[k] = v0.label[p[1]] => k = p[1]
    BY <1>6, <1>8, <1>10 DEF UniqueTags
  <1>12. \A k \in FreeV1(e) : v1.label[k] = v1.label[p[2]] => k = p[2]
    BY <1>6, <1>9, <1>10 DEF UniqueTags
  <1>13. p \in UniqueTags(c, e)
    BY <1>6, <1>10, <1>11, <1>12 DEF UniqueTags
  <1>14. Assignable(p[1], p[2])
    <2>1. ~v0Assigned(p[1]) /\ ~v1Assigned(p[2])
      BY <1>10 DEF FreeV0, FreeV1
    <2>2. OwnHash(v0, p[1]) = OwnHash(v1, p[2])
      BY <1>5 DEF Assignable
    <2> QED
      BY <2>1, <2>2 DEF Assignable
  <1>15. v0match'[p[1]] = p[2]
    <2>1. p[1] \in Nodes(v0) /\ p[2] \in Nodes(v1) /\ <<p[1], p[2]>> \in UniqueTags(c, e)
      BY <1>2, <1>6, <1>13 DEF OneToOne
    <2> QED
      BY <1>2, <1>14, <2>1, NodeAssignFields
  <1>16. p[2] # 0
    BY <1>2, <1>13 DEF OneToOne, Nodes
  <1> QED
    BY <1>5, <1>15, <1>16 DEF Assignable, v0Assigned

(* Optimize leaves nothing below the nodes it has visited. *)
LEMMA NextOptimized ==
  TypeOK /\ MatchIsMutual /\ OptimizedSoFar /\ [Next]_matchVars => OptimizedSoFar'
PROOF
  <1> SUFFICES ASSUME TypeOK, MatchIsMutual, OptimizedSoFar, [Next]_matchVars
               PROVE  OptimizedSoFar'
    OBVIOUS
  <1>1. IsDocument(v0) /\ v0.n \in Nat
    BY DocumentNodes DEF TypeOK
  <1>2. CASE MatchById \/ FullBottomUp
    <2>1. phase' \in {"matchById", "fullBottomUp", "topdownMatch"}
      BY <1>2 DEF MatchById, FullBottomUp, Advance
    <2> QED
      BY <2>1 DEF OptimizedSoFar
  <1>3. CASE TopdownMatch
    <2>1. phase' \in {"topdownMatch", "optimize"} /\ cursor' = 1 /\ v0' = v0
      BY <1>3 DEF TopdownMatch, SkipAssigned, MatchRoots, MatchSubtree, ProgramChildren,
                  Requeue, TypeOK
    <2>2. \A i \in Nodes(v0) : ~(PrefixRank(v0, i) < 1)
      BY <1>1, PrefixOrder
    <2> QED
      BY <2>1, <2>2 DEF OptimizedSoFar
  <1>4. CASE Optimize
    <2>1. PICK c \in Nodes(v0) :
            /\ PrefixRank(v0, c) = cursor
            /\ NodeAssign(IF v0Assigned(c) THEN UniqueTags(c, v0match[c]) ELSE {})
      BY <1>4 DEF Optimize
    <2>2. v0' = v0 /\ v1' = v1 /\ phase = "optimize"
      BY <1>4 DEF Optimize
    <2>3. \A i \in Nodes(v0) : PrefixRank(v0, i) <= cursor => NothingLeftBelow(i)'
      <3> SUFFICES ASSUME NEW i \in Nodes(v0), PrefixRank(v0, i) <= cursor
                   PROVE  NothingLeftBelow(i)'
        OBVIOUS
      <3>1. CASE v0Assigned(c) /\ i = c
        BY <2>1, <2>2, <3>1, VisitDoesIt
      <3>2. CASE v0Assigned(c) /\ i # c
        <4>1. PrefixRank(v0, i) < PrefixRank(v0, c)
          BY <1>1, <2>1, <3>2, PrefixOrder
        <4>2. NothingLeftBelow(i)
          BY <2>1, <2>2, <4>1 DEF OptimizedSoFar
        <4> QED
          BY <2>1, <2>2, <3>2, <4>1, <4>2, VisitedStaysDone
      <3>3. CASE ~v0Assigned(c)
        <4>1. NodeAssign({})
          BY <2>1, <3>3
        <4>2. v0match' = v0match /\ v1match' = v1match
          BY <4>1 DEF NodeAssign, TypeOK
        <4>3. i = c \/ NothingLeftBelow(i)
          <5>1. i = c \/ PrefixRank(v0, i) < cursor
            BY <1>1, <2>1, PrefixOrder
          <5> QED
            BY <2>2, <5>1 DEF OptimizedSoFar
        <4>4. NothingLeftBelow(i)
          BY <3>3, <4>3 DEF NothingLeftBelow
        <4> QED
          BY <2>2, <4>2, <4>4 DEF NothingLeftBelow, v0Assigned, v1Assigned, UniqueTags, FreeV0,
                                  FreeV1, Assignable
      <3> QED
        BY <3>1, <3>2, <3>3
    <2>4. CASE cursor < v0.n
      <3>1. cursor' = cursor + 1 /\ phase' = phase
        BY <1>4, <2>4 DEF Optimize, Advance
      <3>2. cursor \in Nat
        BY <2>2 DEF TypeOK
      <3>3. \A i \in Nodes(v0) : PrefixRank(v0, i) < cursor' => PrefixRank(v0, i) <= cursor
        BY <1>1, <3>1, <3>2, PrefixOrder
      <3> QED
        BY <2>2, <2>3, <3>1, <3>3 DEF OptimizedSoFar
    <2>5. CASE ~(cursor < v0.n)
      <3>1. phase' = "matched"
        BY <1>4, <2>5 DEF Optimize, Advance
      <3>2. cursor \in 1 .. v0.n
        BY <2>2 DEF TypeOK
      <3>3. \A i \in Nodes(v0) : PrefixRank(v0, i) <= cursor
        BY <1>1, <2>5, <3>2, PrefixOrder
      <3> QED
        BY <2>2, <2>3, <3>1, <3>3 DEF OptimizedSoFar
    <2> QED
      BY <2>4, <2>5
  <1>5. CASE UNCHANGED matchVars
    BY <1>5 DEF matchVars, OptimizedSoFar, NothingLeftBelow, v0Assigned, v1Assigned, UniqueTags,
                FreeV0, FreeV1, Assignable
  <1> QED
    BY <1>2, <1>3, <1>4, <1>5 DEF Next

(***************************************************************************)
(* For all documents, Optimize leaves nothing obvious behind: it visits    *)
(* parents first, so the pairs below those it has just made are made too.  *)
(***************************************************************************)
THEOREM OptimizeLeavesNothing == Spec => []NoObviousPairLeft
PROOF
  <1>1. Init => OptimizedSoFar
    BY DEF Init, OptimizedSoFar
  <1>2. TypeOK /\ MatchIsMutual /\ OptimizedSoFar /\ [Next]_matchVars => OptimizedSoFar'
    BY NextOptimized
  <1>3. OptimizedSoFar => NoObviousPairLeft
    BY DEF OptimizedSoFar, NoObviousPairLeft, NothingLeftBelow
  <1> QED
    BY <1>1, <1>2, <1>3, MatchingTypes, MatchingIsMutual, PTL DEF Spec

-----------------------------------------------------------------------------
(* Two nodes with identifiers, and with the same ones. *)
Twins(i, j) == HasIdAttr(v0, i) /\ HasIdAttr(v1, j) /\ OwnHash(v0, i) = OwnHash(v1, j)

(* MatchById matches by identifiers only, and misses none it has come to. *)
IdentifiersSoFar ==
  /\ phase = "matchById" =>
       \A j \in Nodes(v1) : v1Assigned(j) =>
         HasIdAttr(v1, j) /\ OwnHash(v0, v1match[j]) = OwnHash(v1, j)
  /\ UniqueKeys(v0) /\ UniqueKeys(v1) =>
       \A i \in Nodes(v0), j \in Nodes(v1) :
         Twins(i, j) /\ (phase = "matchById" => PrefixRank(v1, j) < cursor) => v1match[j] = i

(* An own hash tells whether there is an identifier. *)
LEMMA OwnHashTellsIdentifier ==
  ASSUME TypeOK, NEW i \in Nodes(v0), NEW j \in Nodes(v1), OwnHash(v0, i) = OwnHash(v1, j)
  PROVE  HasIdAttr(v0, i) <=> HasIdAttr(v1, j)
PROOF
  <1>1. OwnHash(v0, i)[2] = OwnHash(v1, j)[2]
    OBVIOUS
  <1>2. HasIdAttr(v0, i) <=> OwnHash(v0, i)[2] # None
    BY DEF HasIdAttr, OwnHash
  <1>3. HasIdAttr(v1, j) <=> OwnHash(v1, j)[2] # None
    BY DEF HasIdAttr, OwnHash
  <1> QED
    BY <1>1, <1>2, <1>3

(***************************************************************************)
(* MatchById comes to a node: the table has its twin and no other, and if  *)
(* either of the two is taken, then by the other.                          *)
(***************************************************************************)
LEMMA TwinIsFound ==
  ASSUME TypeOK, MatchIsMutual, IdentifiersSoFar, phase = "matchById",
         UniqueKeys(v0), UniqueKeys(v1),
         NEW i \in Nodes(v0), NEW j \in Nodes(v1), Twins(i, j),
         NodeAssign(IF HasIdAttr(v1, j) THEN ByIdAttrHash(j) \X {j} ELSE {})
  PROVE  v1match'[j] = i
PROOF
  <1> DEFINE pairs == ByIdAttrHash(j) \X {j}
  <1>1. NodeAssign(pairs) /\ OneToOne(pairs)
    BY ByIdAttrHashIsOneToOne DEF Twins
  <1>2. \A k \in Nodes(v0) : OwnHash(v0, k) = OwnHash(v1, j) => k = i
    BY OwnHashTellsIdentifier DEF UniqueKeys, Twins
  <1>3. v0.n \in Nat /\ v1.n \in Nat
    BY DocumentNodes DEF TypeOK
  <1>4. i \in ByIdAttrHash(j)
    <2>1. \A k \in (i + 1) .. v0.n : k \in Nodes(v0) /\ k # i
      BY <1>3 DEF Nodes
    <2>2. \A k \in (i + 1) .. v0.n : OwnHash(v0, k) # OwnHash(v1, j)
      BY <1>2, <2>1
    <2> QED
      BY <2>2 DEF ByIdAttrHash, Twins
  <1>5. CASE v1Assigned(j)
    <2>1. v1match[j] \in Nodes(v0) /\ OwnHash(v0, v1match[j]) = OwnHash(v1, j)
      BY <1>3, <1>5 DEF IdentifiersSoFar, TypeOK, v1Assigned, Nodes
    <2>2. v1match[j] = i
      BY <1>2, <2>1
    <2>3. v1match'[j] = v1match[j]
      BY <1>1, <1>5, NodeAssignFields DEF Assignable
    <2> QED
      BY <2>2, <2>3
  <1>6. CASE ~v1Assigned(j) /\ ~v0Assigned(i)
    <2>1. Assignable(i, j) /\ <<i, j>> \in pairs
      BY <1>4, <1>6 DEF Assignable, Twins
    <2> QED
      BY <1>1, <2>1, NodeAssignFields
  <1>7. CASE ~v1Assigned(j) /\ v0Assigned(i)
    <2> DEFINE k == v0match[i]
    <2>1. k \in Nodes(v1) /\ v1match[k] = i
      BY <1>3, <1>7 DEF TypeOK, v0Assigned, Nodes, MatchIsMutual
    <2>2. v1Assigned(k)
      BY <2>1 DEF v1Assigned, Nodes
    <2>3. HasIdAttr(v1, k) /\ OwnHash(v0, i) = OwnHash(v1, k)
      BY <2>1, <2>2 DEF IdentifiersSoFar
    <2>4. k = j
      BY <2>1, <2>3 DEF UniqueKeys, Twins
    <2> QED
      BY <1>7, <2>2, <2>4
  <1> QED
    BY <1>5, <1>6, <1>7

(* A node of v1 keeps its match. *)
LEMMA MatchStays ==
  ASSUME TypeOK, Next, NEW j \in Nodes(v1), v1Assigned(j)
  PROVE  v1match'[j] = v1match[j]
PROOF
  <1>1. CASE \E pairs : OneToOne(pairs) /\ NodeAssign(pairs)
    BY <1>1, NodeAssignFields DEF Assignable
  <1>2. CASE RootsClaimed
    BY <1>2 DEF RootsClaimed, TypeOK, v1Assigned
  <1>3. CASE UNCHANGED <<v0match, v1match>>
    BY <1>3
  <1> QED
    BY <1>1, <1>2, <1>3, OnlyClaims

(* What identifiers decide stays decided. *)
LEMMA NextIdentifiers ==
  TypeOK /\ MatchIsMutual /\ IdentifiersSoFar /\ [Next]_matchVars => IdentifiersSoFar'
PROOF
  <1> SUFFICES ASSUME TypeOK, MatchIsMutual, IdentifiersSoFar, [Next]_matchVars
               PROVE  IdentifiersSoFar'
    OBVIOUS
  <1>1. /\ IsDocument(v0) /\ IsDocument(v1)
        /\ v1.n \in Nat /\ \A i \in Nodes(v0) : i # 0
    BY DocumentNodes DEF TypeOK, Nodes
  <1>2. CASE MatchById
    <2>1. PICK c \in Nodes(v1) :
            /\ PrefixRank(v1, c) = cursor
            /\ NodeAssign(IF HasIdAttr(v1, c) THEN ByIdAttrHash(c) \X {c} ELSE {})
      BY <1>2 DEF MatchById
    <2>2. v0' = v0 /\ v1' = v1 /\ phase = "matchById"
      BY <1>2 DEF MatchById
    <2> DEFINE pairs == IF HasIdAttr(v1, c) THEN ByIdAttrHash(c) \X {c} ELSE {}
    <2>3. OneToOne(pairs)
      <3>1. OneToOne({})
        BY DEF OneToOne
      <3> QED
        BY <3>1, ByIdAttrHashIsOneToOne
    <2>4. \A j \in Nodes(v1) : v1match'[j] # 0 =>
            HasIdAttr(v1, j) /\ OwnHash(v0, v1match'[j]) = OwnHash(v1, j)
      <3> SUFFICES ASSUME NEW j \in Nodes(v1), v1match'[j] # 0
                   PROVE  HasIdAttr(v1, j) /\ OwnHash(v0, v1match'[j]) = OwnHash(v1, j)
        OBVIOUS
      <3>1. CASE v1match'[j] = v1match[j]
        BY <2>2, <3>1 DEF IdentifiersSoFar, v1Assigned
      <3>2. CASE <<v1match'[j], j>> \in pairs /\ Assignable(v1match'[j], j)
        <4>1. j = c /\ HasIdAttr(v1, c)
          BY <3>2
        <4> QED
          BY <3>2, <4>1 DEF Assignable
      <3> QED
        BY <2>1, <2>3, <3>1, <3>2, NodeAssignFields
    <2>5. ASSUME UniqueKeys(v0), UniqueKeys(v1), NEW i \in Nodes(v0), NEW j \in Nodes(v1),
                 Twins(i, j), PrefixRank(v1, j) <= cursor
          PROVE  v1match'[j] = i
      <3>1. CASE j = c
        BY <2>1, <2>2, <2>5, <3>1, TwinIsFound
      <3>2. CASE j # c
        <4>1. PrefixRank(v1, j) < cursor
          BY <1>1, <2>1, <2>5, <3>2, PrefixOrder
        <4>2. v1match[j] = i
          BY <2>2, <2>5, <4>1 DEF IdentifiersSoFar
        <4>3. v1Assigned(j)
          BY <1>1, <4>2 DEF v1Assigned
        <4>4. Next
          BY <1>2 DEF Next
        <4> QED
          BY <4>2, <4>3, <4>4, MatchStays
      <3> QED
        BY <3>1, <3>2
    <2>6. \A j \in Nodes(v1) :
            (phase' = "matchById" => PrefixRank(v1, j) < cursor') => PrefixRank(v1, j) <= cursor
      <3>1. cursor \in 1 .. v1.n /\ \A j \in Nodes(v1) : PrefixRank(v1, j) \in 1 .. v1.n
        BY <1>1, <2>2, PrefixOrder DEF TypeOK
      <3>2. \/ cursor' = cursor + 1 /\ phase' = "matchById"
            \/ cursor = v1.n
        BY <1>1, <1>2, <3>1 DEF MatchById, Advance
      <3> QED
        BY <1>1, <3>1, <3>2
    <2> QED
      BY <2>2, <2>4, <2>5, <2>6 DEF IdentifiersSoFar, v1Assigned, Twins
  <1>3. CASE FullBottomUp \/ TopdownMatch \/ Optimize
    <2>1. Next /\ v0' = v0 /\ v1' = v1
      BY <1>3, OnlyClaims DEF Next
    <2>2. phase # "matchById" /\ phase' # "matchById"
      BY <1>3 DEF FullBottomUp, TopdownMatch, Optimize, Advance, SkipAssigned, MatchRoots,
                  MatchSubtree, ProgramChildren, Requeue
    <2>3. \A i \in Nodes(v0), j \in Nodes(v1) : v1match[j] = i => v1match'[j] = i
      BY <1>1, <2>1, MatchStays DEF v1Assigned
    <2> QED
      BY <2>1, <2>2, <2>3 DEF IdentifiersSoFar, Twins
  <1>4. CASE UNCHANGED matchVars
    BY <1>4 DEF matchVars, IdentifiersSoFar, v1Assigned, Twins
  <1> QED
    BY <1>2, <1>3, <1>4 DEF Next

(***************************************************************************)
(* For all documents whose identifiers are unique, "matching is either     *)
(* mandatory or forbidden" for a node that has one: MatchById comes to     *)
(* every node and finds its twin, no later pass takes it away or gives the *)
(* node another.                                                           *)
(***************************************************************************)
THEOREM IdentifiersDecide == Spec => []IdentifierDecides
PROOF
  <1>1. Init => IdentifiersSoFar
    <2> SUFFICES ASSUME Init PROVE IdentifiersSoFar
      OBVIOUS
    <2>1. phase = "matchById" /\ cursor = 1 /\ \A j \in Nodes(v1) : v1match[j] = 0
      BY DEF Init
    <2>2. \A j \in Nodes(v1) : ~(PrefixRank(v1, j) < 1)
      BY InitTypeOK, PrefixOrder, DocumentNodes DEF TypeOK
    <2> QED
      BY <2>1, <2>2 DEF IdentifiersSoFar, v1Assigned
  <1>2. TypeOK /\ MatchIsMutual /\ IdentifiersSoFar /\ [Next]_matchVars => IdentifiersSoFar'
    BY NextIdentifiers
  <1>3. TypeOK /\ MatchKeepsOwnHash /\ IdentifiersSoFar => IdentifierDecides
    <2> SUFFICES ASSUME TypeOK, MatchKeepsOwnHash, IdentifiersSoFar,
                        UniqueKeys(v0), UniqueKeys(v1), phase # "matchById",
                        NEW i \in Nodes(v0), NEW j \in Nodes(v1)
                 PROVE  IF Twins(i, j) THEN v1match[j] = i
                        ELSE v1match[j] = i /\ (HasIdAttr(v0, i) \/ HasIdAttr(v1, j)) =>
                               i = Root(v0) /\ j = Root(v1)
      BY DEF IdentifierDecides, Twins
    <2>1. Twins(i, j) => v1match[j] = i
      BY DEF IdentifiersSoFar
    <2>2. ASSUME v1match[j] = i, ~Twins(i, j), HasIdAttr(v0, i) \/ HasIdAttr(v1, j)
          PROVE  i = Root(v0) /\ j = Root(v1)
      <3>1. v1Assigned(j)
        BY <2>2 DEF v1Assigned, Nodes
      <3>2. OwnHash(v0, i) # OwnHash(v1, j)
        BY <2>2, OwnHashTellsIdentifier DEF Twins
      <3> QED
        BY <2>2, <3>1, <3>2 DEF MatchKeepsOwnHash
    <2> QED
      BY <2>1, <2>2
  <1> QED
    BY <1>1, <1>2, <1>3, MatchingTypes, MatchingIsMutual, MatchingKeepsOwnHash, PTL DEF Spec

-----------------------------------------------------------------------------
(***************************************************************************)
(* Matching implements Correspondence, for all documents.                  *)
(*                                                                         *)
(* By OnlyClaims a step claims pairs, claims the roots, or leaves the      *)
(* matching alone.  The pairs of the abstract matching are those of the v1 *)
(* nodes; that a v0 node nodeAssign takes for free is in none of them is   *)
(* MatchIsMutual.  That v1's root has a match at the end needs the queue:  *)
(* the root is in it until it has one (RootWillMatch).                     *)
(***************************************************************************)

RootWillMatch ==
  /\ phase = "topdownMatch" => Root(v1) \in toMatch \/ v1Assigned(Root(v1))
  /\ phase \in {"optimize", "matched"} => v1Assigned(Root(v1))

(* A pair is in the matching when its v1 node points at its v0 node. *)
LEMMA PairsOfV1 ==
  ASSUME TypeOK
  PROVE  /\ \A i, j : <<i, j>> \in MatchedPairs <=>
              j \in Nodes(v1) /\ v1match[j] # 0 /\ i = v1match[j]
         /\ MatchedPairs \subseteq Nodes(v0) \X Nodes(v1)
PROOF
  <1>1. \A i, j : <<i, j>> \in MatchedPairs <=>
          j \in Nodes(v1) /\ v1match[j] # 0 /\ i = v1match[j]
    BY DEF MatchedPairs, v1Assigned
  <1>2. v0.n \in Nat /\ v1.n \in Nat
    BY DocumentNodes DEF TypeOK
  <1>3. \A j \in Nodes(v1) : v1match[j] # 0 => v1match[j] \in Nodes(v0)
    BY <1>2 DEF TypeOK, Nodes
  <1> QED
    BY <1>1, <1>3 DEF MatchedPairs, v1Assigned

(* The same after a step that leaves the documents and the types alone. *)
LEMMA PairsOfV1Next ==
  ASSUME TypeOK', UNCHANGED <<v0, v1>>
  PROVE  /\ \A i, j : <<i, j>> \in MatchedPairs' <=>
              j \in Nodes(v1) /\ v1match'[j] # 0 /\ i = v1match'[j]
         /\ MatchedPairs' \subseteq Nodes(v0) \X Nodes(v1)
PROOF
  <1>1. \A i, j : <<i, j>> \in MatchedPairs' <=>
          j \in Nodes(v1) /\ v1match'[j] # 0 /\ i = v1match'[j]
    BY DEF MatchedPairs, v1Assigned
  <1>2. v0'.n \in Nat /\ v1'.n \in Nat
    BY DocumentNodes DEF TypeOK
  <1>3. \A j \in Nodes(v1) : v1match'[j] # 0 => v1match'[j] \in Nodes(v0)
    BY <1>2 DEF TypeOK, Nodes
  <1> QED
    BY <1>1, <1>3 DEF MatchedPairs, v1Assigned

-----------------------------------------------------------------------------
(* The abstract module speaks of the same documents. *)
LEMMA SameDocuments ==
  /\ Promise!Root(v0) = Root(v0) /\ Promise!Root(v1) = Root(v1)
  /\ Promise!Nodes(v0) = Nodes(v0) /\ Promise!Nodes(v1) = Nodes(v1)
  /\ \A i, j : Promise!MayPair(i, j) <=>
       OwnHash(v0, i) = OwnHash(v1, j) /\ AlikeNodes(i, j)
PROOF
  BY DEF Promise!Root, Root, Promise!Nodes, Nodes, Promise!MayPair, AlikeNodes,
         Promise!OwnHash, OwnHash, Promise!HasIdAttr, HasIdAttr, Promise!Key, Key

(* What nodeAssign takes for free is in no pair of the matching. *)
LEMMA FreeNodes ==
  ASSUME TypeOK, MatchIsMutual, NEW i \in Nodes(v0), v0match[i] = 0
  PROVE  \A p \in MatchedPairs : p[1] # i
PROOF
  <1> SUFFICES ASSUME NEW j \in Nodes(v1), v1match[j] # 0, v1match[j] = i
               PROVE  FALSE
    BY PairsOfV1
  <1>1. v0match[i] = j \/ RootTakenTwice(j)
    BY DEF MatchIsMutual, v1Assigned
  <1>2. v1.n \in Nat /\ 1 <= v1.n /\ j \in 1 .. v1.n
    BY DocumentNodes DEF TypeOK, Nodes
  <1> QED
    BY <1>1, <1>2 DEF RootTakenTwice, Root

(* A claim of pairs through nodeAssign is a claim of the abstract matching. *)
LEMMA ClaimImplements ==
  ASSUME TypeOK, TypeOK', MatchIsMutual, UNCHANGED <<v0, v1>>,
         NEW claimed, OneToOne(claimed), AlikeIfAssignable(claimed), NodeAssign(claimed)
  PROVE  Promise!Claim
PROOF
  <1>1. \A j \in Nodes(v1) :
          \/ v1match'[j] = v1match[j]
          \/ /\ v1match'[j] \in Nodes(v0) /\ <<v1match'[j], j>> \in claimed
             /\ Assignable(v1match'[j], j)
    BY NodeAssignFields
  <1>2. MatchedPairs \subseteq MatchedPairs'
    <2>1. ASSUME NEW j \in Nodes(v1), v1match[j] # 0 PROVE v1match'[j] = v1match[j]
      BY <1>1, <2>1 DEF Assignable, v1Assigned
    <2> QED
      BY <2>1, PairsOfV1, PairsOfV1Next
  <1>3. ASSUME NEW p \in MatchedPairs' \ MatchedPairs
        PROVE  /\ p \in claimed /\ Assignable(p[1], p[2])
               /\ p[1] \in Nodes(v0) /\ p[2] \in Nodes(v1)
    <2>1. /\ p \in Nodes(v0) \X Nodes(v1) /\ p = <<p[1], p[2]>>
          /\ p[2] \in Nodes(v1) /\ v1match'[p[2]] # 0 /\ p[1] = v1match'[p[2]]
      BY <1>3, PairsOfV1Next
    <2>2. v1match'[p[2]] # v1match[p[2]]
      BY <1>3, <2>1, PairsOfV1
    <2> QED
      BY <1>1, <2>1, <2>2
  <1>4. ASSUME NEW p \in MatchedPairs' \ MatchedPairs
        PROVE  /\ Promise!MayPair(p[1], p[2])
               /\ \A q \in MatchedPairs' \ {p} : q[1] # p[1] /\ q[2] # p[2]
    <2>1. Promise!MayPair(p[1], p[2])
      BY <1>3, SameDocuments DEF AlikeIfAssignable, Assignable
    <2>2. ASSUME NEW q \in MatchedPairs', q # p PROVE q[1] # p[1] /\ q[2] # p[2]
      <3>1. CASE q \in MatchedPairs
        <4>1. q[1] # p[1]
          BY <1>3, <3>1, FreeNodes DEF Assignable, v0Assigned
        <4>2. q[2] # p[2]
          BY <1>3, <3>1, PairsOfV1 DEF Assignable, v1Assigned
        <4> QED
          BY <4>1, <4>2
      <3>2. CASE q \notin MatchedPairs
        <4>1. p \in claimed /\ q \in claimed
          BY <1>3, <2>2, <3>2
        <4>2. p = <<p[1], p[2]>> /\ q = <<q[1], q[2]>>
          BY <2>2, PairsOfV1Next
        <4> QED
          BY <2>2, <4>1, <4>2 DEF OneToOne
      <3> QED
        BY <3>1, <3>2
    <2> QED
      BY <2>1, <2>2
  <1>5. MatchedPairs' \subseteq Promise!Nodes(v0) \X Promise!Nodes(v1)
    BY PairsOfV1Next, SameDocuments
  <1> QED
    BY <1>2, <1>4, <1>5 DEF Promise!Claim

(* So is a step that leaves the matching alone. *)
LEMMA NothingImplements ==
  ASSUME TypeOK, UNCHANGED <<v0, v1, v0match, v1match>>
  PROVE  Promise!Claim
PROOF
  <1>1. MatchedPairs' = MatchedPairs
    BY DEF MatchedPairs, v1Assigned, Nodes
  <1> QED
    BY <1>1, PairsOfV1, SameDocuments DEF Promise!Claim

(* The roots, whatever they are and whatever v0's root had. *)
LEMMA RootsClaimImplements ==
  ASSUME TypeOK, TypeOK', UNCHANGED <<v0, v1>>, RootsClaimed
  PROVE  Promise!ClaimRoots
PROOF
  <1>1. /\ Root(v0) \in Nodes(v0) /\ Root(v0) # 0 /\ Root(v1) \in Nodes(v1)
        /\ v1match[Root(v1)] = 0
    BY DocumentNodes DEF TypeOK, RootsClaimed, v1Assigned, Root
  <1>2. \A j \in Nodes(v1) :
          v1match'[j] = IF j = Root(v1) THEN Root(v0) ELSE v1match[j]
    BY DEF TypeOK, RootsClaimed
  <1>3. \A p \in MatchedPairs : p[2] # Root(v1)
    BY <1>1, PairsOfV1
  <1>4. \A i, j : <<i, j>> \in MatchedPairs' <=>
          <<i, j>> \in MatchedPairs \cup {<<Root(v0), Root(v1)>>}
    BY <1>1, <1>2, PairsOfV1, PairsOfV1Next
  <1>5. MatchedPairs' = MatchedPairs \cup {<<Root(v0), Root(v1)>>}
    BY <1>1, <1>4, PairsOfV1, PairsOfV1Next
  <1> QED
    BY <1>3, <1>5, SameDocuments DEF Promise!ClaimRoots

-----------------------------------------------------------------------------
(* A node of v1 that has a match keeps one. *)
LEMMA StaysAssigned ==
  ASSUME TypeOK, Next, NEW j \in Nodes(v1), v1Assigned(j)
  PROVE  v1match'[j] # 0
PROOF
  <1>1. CASE \E claimed : OneToOne(claimed) /\ NodeAssign(claimed)
    BY <1>1, NodeAssignFields DEF Assignable, v1Assigned
  <1>2. CASE RootsClaimed
    BY <1>2 DEF RootsClaimed, TypeOK, v1Assigned
  <1>3. CASE UNCHANGED <<v0match, v1match>>
    BY <1>3 DEF v1Assigned
  <1> QED
    BY <1>1, <1>2, <1>3, OnlyClaims

(* v1's root leaves the queue with a match. *)
LEMMA NextRootWillMatch ==
  TypeOK /\ RootWillMatch /\ [Next]_matchVars => RootWillMatch'
PROOF
  <1> SUFFICES ASSUME TypeOK, RootWillMatch, [Next]_matchVars PROVE RootWillMatch'
    OBVIOUS
  <1>1. CASE Next
    <2>1. /\ v0' = v0 /\ v1' = v1 /\ Root(v1) \in Nodes(v1) /\ Root(v1)' = Root(v1)
          /\ Root(v0) # 0
      BY <1>1, OnlyClaims, DocumentNodes DEF TypeOK, Root
    <2>2. v1Assigned(Root(v1)) => v1match'[Root(v1)] # 0
      BY <1>1, <2>1, StaysAssigned
    <2>3. CASE MatchById \/ FullBottomUp
      <3>1. /\ phase' \in {"matchById", "fullBottomUp", "topdownMatch"}
            /\ phase' = "topdownMatch" => toMatch' = {Root(v1)}
        BY <2>3 DEF MatchById, FullBottomUp, Advance
      <3> QED
        BY <2>1, <3>1 DEF RootWillMatch
    <2>4. CASE TopdownMatch
      <3>1. PICK j \in toMatch :
              SkipAssigned(j) \/ MatchRoots(j) \/ MatchSubtree(j) \/ ProgramChildren(j)
        BY <2>4 DEF TopdownMatch
      <3>2. PICK nodes : Requeue(j, nodes)
        BY <3>1 DEF SkipAssigned, MatchRoots, MatchSubtree, ProgramChildren
      <3>3. /\ toMatch' = (toMatch \ {j}) \cup nodes
            /\ phase' = IF toMatch' = {} THEN "optimize" ELSE phase
            /\ phase = "topdownMatch"
        BY <2>4, <3>2 DEF Requeue, TopdownMatch
      <3>4. j = Root(v1) => v1match'[Root(v1)] # 0
        <4>1. CASE SkipAssigned(j)
          BY <2>2, <4>1 DEF SkipAssigned
        <4>2. CASE MatchRoots(j)
          BY <2>1, <4>2 DEF MatchRoots, TypeOK
        <4> QED
          BY <3>1, <4>1, <4>2 DEF MatchSubtree, ProgramChildren
      <3>5. Root(v1) \in toMatch' \/ v1match'[Root(v1)] # 0
        BY <2>2, <3>3, <3>4 DEF RootWillMatch
      <3> QED
        BY <2>1, <3>3, <3>5 DEF RootWillMatch, v1Assigned
    <2>5. CASE Optimize
      BY <2>1, <2>2, <2>5 DEF Optimize, Advance, RootWillMatch, v1Assigned
    <2> QED
      BY <1>1, <2>3, <2>4, <2>5 DEF Next
  <1>2. CASE UNCHANGED matchVars
    BY <1>2 DEF matchVars, RootWillMatch, v1Assigned, Root
  <1> QED
    BY <1>1, <1>2

-----------------------------------------------------------------------------
(* A step of a pass is a step of the abstract matching. *)
LEMMA StepImplements ==
  ASSUME TypeOK, TypeOK', MatchIsMutual, RootWillMatch', Next
  PROVE  Promise!Next
PROOF
  <1>1. UNCHANGED <<v0, v1>>
    BY OnlyClaims
  <1>2. Promise!Claim \/ Promise!ClaimRoots
    <2>1. CASE \E claimed :
                 OneToOne(claimed) /\ AlikeIfAssignable(claimed) /\ NodeAssign(claimed)
      BY <1>1, <2>1, ClaimImplements
    <2>2. CASE RootsClaimed
      BY <1>1, <2>2, RootsClaimImplements
    <2>3. CASE UNCHANGED <<v0match, v1match>>
      BY <1>1, <2>3, NothingImplements
    <2> QED
      BY <2>1, <2>2, <2>3, OnlyClaims
  <1>3. phase # "matched"
    BY DEF Next, MatchById, FullBottomUp, TopdownMatch, Optimize
  <1>4. (phase = "matched")' => \E p \in MatchedPairs' : p[2] = Promise!Root(v1)
    <2> SUFFICES ASSUME phase' = "matched"
                 PROVE  \E p \in MatchedPairs' : p[2] = Root(v1)
      BY SameDocuments
    <2>1. Root(v1) \in Nodes(v1) /\ v1match'[Root(v1)] # 0
      BY <1>1, DocumentNodes DEF RootWillMatch, v1Assigned, Root, TypeOK
    <2>2. <<v1match'[Root(v1)], Root(v1)>> \in MatchedPairs'
      BY <1>1, <2>1, PairsOfV1Next
    <2> QED
      BY <2>2
  <1> QED
    BY <1>1, <1>2, <1>3, <1>4 DEF Promise!Next

(* Nothing is matched in the first state. *)
LEMMA InitImplements == Init => Promise!Init
PROOF
  BY DEF Init, Promise!Init, MatchedPairs, v1Assigned

(***************************************************************************)
(* The four passes implement Correspondence: for all documents and both    *)
(* widths of the index keys, what they do to the myMatchID fields is to    *)
(* add free pairs that need no operation, or the pair of the roots, and    *)
(* they leave v1's root with a match.                                      *)
(***************************************************************************)
THEOREM MatchingImplementsCorrespondence == Spec => ImplementsCorrespondence
PROOF
  <1>1. Init => RootWillMatch
    BY DEF Init, RootWillMatch
  <1>2. TypeOK /\ RootWillMatch /\ [Next]_matchVars => RootWillMatch'
    BY NextRootWillMatch
  <1>3. TypeOK /\ TypeOK' /\ MatchIsMutual /\ RootWillMatch' /\ [Next]_matchVars
          => [Promise!Next]_Promise!vars
    <2>1. CASE Next
      BY <2>1, StepImplements
    <2>2. CASE UNCHANGED matchVars
      BY <2>2 DEF matchVars, Promise!vars, MatchedPairs, v1Assigned, Nodes
    <2> QED
      BY <2>1, <2>2
  <1> QED
    BY <1>1, <1>2, <1>3, InitImplements, MatchingTypes, MatchingIsMutual, PTL
       DEF Spec, ImplementsCorrespondence, Promise!Spec

(***************************************************************************)
(* What the delta construction may take for granted (IsMatching) is what   *)
(* the four passes leave, whatever they were given: nothing more is        *)
(* assumed of a matching in RoundTrip.                                     *)
(***************************************************************************)
THEOREM MatchingIsHandedOver ==
  Spec => [](phase = "matched" => IsMatching(v0, v1, v0match, v1match))
PROOF
  <1>1. Init => RootWillMatch
    BY DEF Init, RootWillMatch
  <1>2. TypeOK /\ RootWillMatch /\ [Next]_matchVars => RootWillMatch'
    BY NextRootWillMatch
  <1>3. TypeOK /\ MatchIsMutual /\ MatchKeepsOwnHash /\ MatchedLeavesAgree /\ RootWillMatch
          => (phase = "matched" => IsMatching(v0, v1, v0match, v1match))
    <2> SUFFICES ASSUME MatchIsMutual, MatchKeepsOwnHash, MatchedLeavesAgree, RootWillMatch,
                        phase = "matched"
                 PROVE  IsMatching(v0, v1, v0match, v1match)
      OBVIOUS
    <2>1. \A i \in Nodes(v0) : v0match[i] # 0 => v1match[v0match[i]] = i
      BY DEF MatchIsMutual, v0Assigned
    <2>2. ASSUME NEW j \in Nodes(v1), v1match[j] # 0
          PROVE  /\ v0match[v1match[j]] = j
                    \/ (v1match[j] = Root(v0) /\ v0match[Root(v0)] = Root(v1))
                 /\ Alike(v0, v1match[j], v1, j) \/ (j = Root(v1) /\ v1match[j] = Root(v0))
      <3>1. v1Assigned(j)
        BY <2>2 DEF v1Assigned
      <3>2. v0match[v1match[j]] = j \/ (v1match[j] = Root(v0) /\ v0match[Root(v0)] = Root(v1))
        BY <3>1 DEF MatchIsMutual, RootTakenTwice
      <3>3. Alike(v0, v1match[j], v1, j) \/ (j = Root(v1) /\ v1match[j] = Root(v0))
        BY <3>1 DEF MatchKeepsOwnHash, MatchedLeavesAgree, Alike
      <3> QED
        BY <3>2, <3>3
    <2>3. v1match[Root(v1)] # 0
      BY DEF RootWillMatch, v1Assigned
    <2> QED
      BY <2>1, <2>2, <2>3 DEF IsMatching
  <1> QED
    BY <1>1, <1>2, <1>3, MatchingTypes, MatchingIsMutual, MatchingKeepsOwnHash,
       MatchingLeavesAgree, PTL DEF Spec

-----------------------------------------------------------------------------
(***************************************************************************)
(* topdownMatch queues the children of a node only when the node itself    *)
(* has left the queue, so no node in the queue is above another: a claim   *)
(* for the subtree of one never takes another.                             *)
(***************************************************************************)
QueueIsFlat == \A j, k \in toMatch : k \notin Ancestors(v1, j)

(* The children of a node in the place of the node. *)
LEMMA ChildrenAreFlat ==
  ASSUME NEW d, IsTree(d), NEW queue \in SUBSET Nodes(d), NEW j \in queue,
         \A k, l \in queue : l \notin Ancestors(d, k),
         NEW nodes, nodes = Children(d, j) \/ nodes = {}
  PROVE  \A k, l \in (queue \ {j}) \cup nodes : l \notin Ancestors(d, k)
PROOF
  <1>1. d.n \in Nat /\ Nodes(d) = 1 .. d.n /\ d.parent \in [1 .. d.n -> 0 .. d.n]
    BY DEF IsTree, Nodes
  <1>2. ASSUME NEW c \in nodes
        PROVE  c \in 1 .. (j - 1) /\ d.parent[c] = j /\ c \in 1 .. (d.n - 1)
    BY <1>1, <1>2 DEF Children
  <1>3. \A c \in nodes : \A m \in c .. (j - 1) : d.parent[m] <= j
    BY <1>2 DEF IsTree
  <1>4. ASSUME NEW c \in nodes, NEW e \in nodes
        PROVE  e \notin Ancestors(d, c)
    <2>1. e \in Ancestors(d, c) => c \in c .. (e - 1) /\ d.parent[c] <= e
      BY <1>1, <1>2 DEF Ancestors
    <2> QED
      BY <1>1, <1>2, <2>1
  <1>5. ASSUME NEW c \in nodes, NEW k \in queue \ {j}
        PROVE  k \notin Ancestors(d, c)
    <2> SUFFICES ASSUME k \in Ancestors(d, c)
                 PROVE  FALSE
      OBVIOUS
    <2>1. k \in (c + 1) .. d.n /\ \A m \in c .. (k - 1) : d.parent[m] <= k
      BY DEF Ancestors
    <2>2. j <= k /\ k # j /\ j \in 1 .. d.n /\ c \in 1 .. (j - 1)
      BY <1>1, <1>2, <2>1
    <2>3. k \in (j + 1) .. d.n /\ \A m \in j .. (k - 1) : m \in c .. (k - 1)
      BY <1>1, <2>1, <2>2
    <2>4. k \in Ancestors(d, j)
      BY <2>1, <2>3 DEF Ancestors
    <2> QED
      BY <2>4
  <1>6. ASSUME NEW c \in nodes, NEW k \in queue \ {j}
        PROVE  c \notin Ancestors(d, k)
    <2> SUFFICES ASSUME c \in Ancestors(d, k)
                 PROVE  FALSE
      OBVIOUS
    <2>1. c \in (k + 1) .. d.n /\ \A m \in k .. (c - 1) : d.parent[m] <= c
      BY DEF Ancestors
    <2>2. c \in 1 .. (j - 1) /\ j \in 1 .. d.n /\ k \in 1 .. d.n
      BY <1>1, <1>2
    <2>3. ASSUME NEW m \in k .. (j - 1)
          PROVE  d.parent[m] <= j
      <3>1. CASE m < c
        <4>1. m \in k .. (c - 1) /\ d.parent[m] \in Int
          BY <1>1, <2>1, <2>2, <3>1
        <4> QED
          BY <2>1, <2>2, <4>1
      <3>2. CASE ~(m < c)
        <4>1. m \in c .. (j - 1)
          BY <2>1, <2>2, <3>2
        <4> QED
          BY <1>3, <4>1
      <3> QED
        BY <3>1, <3>2
    <2>4. j \in (k + 1) .. d.n
      BY <1>1, <2>1, <2>2
    <2>5. j \in Ancestors(d, k)
      BY <2>3, <2>4 DEF Ancestors
    <2> QED
      BY <2>5
  <1> QED
    BY <1>4, <1>5, <1>6

(* A queue with one node, or with none. *)
LEMMA SmallQueueIsFlat ==
  ASSUME NEW d, NEW queue, NEW r, r \in Nat, queue \subseteq {r}
  PROVE  \A j, k \in queue : k \notin Ancestors(d, j)
PROOF
  BY DEF Ancestors

(* A step of any pass keeps the queue flat. *)
LEMMA NextFlat ==
  ASSUME TypeOK, QueueIsFlat, [Next]_matchVars
  PROVE  QueueIsFlat'
PROOF
  <1>1. /\ IsTree(v1) /\ toMatch \subseteq Nodes(v1) /\ Root(v1) \in Nat
        /\ (toMatch # {} <=> phase = "topdownMatch")
    BY DocumentNodes DEF TypeOK, IsDocument, Root
  <1>2. CASE MatchById \/ FullBottomUp \/ Optimize
    <2>1. v1' = v1 /\ toMatch = {} /\ (toMatch' = toMatch \/ toMatch' \in {{}, {Root(v1)}})
      BY <1>1, <1>2 DEF MatchById, FullBottomUp, Optimize, Advance
    <2>2. toMatch' \subseteq {Root(v1)}
      BY <2>1
    <2> QED
      BY <1>1, <2>1, <2>2, SmallQueueIsFlat DEF QueueIsFlat
  <1>3. CASE TopdownMatch
    <2>1. PICK j \in toMatch :
            SkipAssigned(j) \/ MatchRoots(j) \/ MatchSubtree(j) \/ ProgramChildren(j)
      BY <1>3 DEF TopdownMatch
    <2>2. \E nodes \in {Children(v1, j), {}} : Requeue(j, nodes)
      BY <2>1 DEF SkipAssigned, MatchRoots, MatchSubtree, ProgramChildren
    <2>3. PICK nodes \in {Children(v1, j), {}} : Requeue(j, nodes)
      BY <2>2
    <2>4. v1' = v1 /\ toMatch' = (toMatch \ {j}) \cup nodes
      BY <2>3 DEF Requeue
    <2>5. \A k, l \in (toMatch \ {j}) \cup nodes : l \notin Ancestors(v1, k)
      BY <1>1, <2>1, <2>3, ChildrenAreFlat DEF QueueIsFlat
    <2> QED
      BY <2>4, <2>5 DEF QueueIsFlat
  <1>4. CASE UNCHANGED matchVars
    BY <1>4 DEF matchVars, QueueIsFlat
  <1> QED
    BY <1>2, <1>3, <1>4 DEF Next

(* No node in the queue of topdownMatch is ever above another. *)
LEMMA QueueStaysFlat == Spec => []QueueIsFlat
PROOF
  <1>1. Init => QueueIsFlat
    BY DEF Init, QueueIsFlat
  <1>2. TypeOK /\ QueueIsFlat /\ [Next]_matchVars => QueueIsFlat'
    BY NextFlat
  <1> QED
    BY <1>1, <1>2, MatchingTypes, PTL DEF Spec

(***************************************************************************)
(* What getBestCandidate chooses hangs below the match of an ancestor of   *)
(* the node, so many levels up as that.                                    *)
(***************************************************************************)
LEMMA CandidateHasAncestor ==
  ASSUME LongBytes = 4, TypeOK, MatchIsMutual, NEW j \in Nodes(v1),
         NEW best \in CandidateChoices(j)
  PROVE  \E p \in AncestorPairs(best[2], j) : v1match[p[2]] = p[1]
PROOF
  <1>1. PICK level, rel :
          /\ rel \in AncestorAt(v1, j, level) /\ v1Assigned(rel)
          /\ best[2] \in Candidates(j, level, rel)
    BY DEF CandidateChoices
  <1>2. PICK a \in AncestorAt(v0, best[2], level) :
          IF level <= MIN_CANDIDATEPARENT_LEVEL
          THEN LongBytes = 4 => a = v1match[rel]
          ELSE v0match[a] = rel
    BY <1>1 DEF Candidates
  <1>3. /\ a \in Ancestors(v0, best[2]) /\ Level(v0, best[2], a) = level
        /\ rel \in Ancestors(v1, j) /\ Level(v1, j, rel) = level
    BY <1>1, <1>2 DEF AncestorAt
  <1>4. v1match[rel] = a
    <2>1. CASE level <= MIN_CANDIDATEPARENT_LEVEL
      BY <1>2, <2>1
    <2>2. CASE ~(level <= MIN_CANDIDATEPARENT_LEVEL)
      <3>1. v0match[a] = rel
        BY <1>2, <2>2
      <3>2. a \in Nodes(v0) /\ rel # 0
        <4>1. best[2] \in Nodes(v0) /\ v0.n \in Nat /\ v1.n \in Nat
          BY <1>1, DocumentNodes DEF Candidates, TypeOK
        <4> QED
          BY <1>3, <4>1 DEF Ancestors, Nodes
      <3> QED
        BY <3>1, <3>2 DEF MatchIsMutual, v0Assigned
    <2> QED
      BY <2>1, <2>2
  <1>5. <<a, rel>> \in AncestorPairs(best[2], j)
    BY <1>3 DEF AncestorPairs
  <1> QED
    BY <1>4, <1>5

(***************************************************************************)
(* For all documents, in a build with longs of four bytes: a subtree that  *)
(* topdownMatch takes by its hash hangs below the match of an ancestor, so *)
(* many levels up on both sides.  With longs of eight bytes it is not so.  *)
(***************************************************************************)
THEOREM CandidatesHangTogether == LongBytes = 4 /\ Spec => CandidateUnderMatchedAncestor
PROOF
  <1> DEFINE Below ==
        \A j \in toMatch \ {Root(v1)} :
          ~v1Assigned(j) /\ v1match'[j] # 0 =>
            \E p \in AncestorPairs(v1match'[j], j) : v1match[p[2]] = p[1]
  <1>1. ASSUME LongBytes = 4, TypeOK, MatchIsMutual, QueueIsFlat, Next
        PROVE  Below
    <2> SUFFICES ASSUME NEW k \in toMatch \ {Root(v1)}, ~v1Assigned(k), v1match'[k] # 0
                 PROVE  \E p \in AncestorPairs(v1match'[k], k) : v1match[p[2]] = p[1]
      OBVIOUS
    <2>1. toMatch \subseteq Nodes(v1) /\ phase = "topdownMatch" /\ v1match'[k] # v1match[k]
      BY <1>1 DEF TypeOK, v1Assigned
    <2>2. TopdownMatch
      BY <1>1, <2>1 DEF Next, MatchById, FullBottomUp, Optimize
    <2>3. PICK j \in toMatch :
            SkipAssigned(j) \/ MatchRoots(j) \/ MatchSubtree(j) \/ ProgramChildren(j)
      BY <2>2 DEF TopdownMatch
    <2>4. MatchSubtree(j)
      <3>1. CASE SkipAssigned(j) \/ ProgramChildren(j)
        BY <2>1, <3>1 DEF SkipAssigned, ProgramChildren
      <3>2. CASE MatchRoots(j)
        <4>1. v1match' = [v1match EXCEPT ![j] = Root(v0)] /\ j = Root(v1) /\ k # j
          BY <3>2 DEF MatchRoots
        <4>2. v1match'[k] = v1match[k]
          BY <1>1, <2>1, <4>1 DEF TypeOK
        <4> QED
          BY <2>1, <4>2
      <3> QED
        BY <2>3, <3>1, <3>2
    <2>5. PICK best \in BestOf(CandidateChoices(j)) :
            NodeAssign(ForceParentsAssign(best[2], j, best[1])
                       \cup RecursiveAssign(best[2], j))
      BY <2>4 DEF MatchSubtree
    <2> DEFINE claim == ForceParentsAssign(best[2], j, best[1]) \cup RecursiveAssign(best[2], j)
    <2>6. /\ best \in CandidateChoices(j) /\ best[2] \in Nodes(v0)
          /\ SameSubtreeHash(v0, best[2], v1, j) /\ j \in Nodes(v1) /\ k \in Nodes(v1)
      BY <2>1 DEF BestOf, CandidateChoices, Candidates
    <2>7. OneToOne(claim)
      BY <1>1, <2>6, SubtreeClaimIsOneToOne
    <2>8. v1match'[k] \in Nodes(v0) /\ <<v1match'[k], k>> \in claim
      <3> HIDE DEF claim
      <3>1. NodeAssign(claim)
        BY <2>5 DEF claim
      <3> QED
        BY <1>1, <2>1, <2>6, <2>7, <3>1, NodeAssignFields
    <2>9. <<v1match'[k], k>> \in RecursiveAssign(best[2], j)
      <3>1. k \notin Ancestors(v1, j)
        BY <1>1 DEF QueueIsFlat
      <3> QED
        BY <2>8, <3>1 DEF ForceParentsAssign, AncestorPairs
    <2>10. k \in Subtree(v1, j) /\ best[2] - v1match'[k] = j - k
      BY <2>9 DEF RecursiveAssign
    <2>11. k = j
      <3>1. j \notin Ancestors(v1, k)
        BY <1>1 DEF QueueIsFlat
      <3>2. v1.n \in Nat /\ j \in 1 .. v1.n /\ k \in 1 .. j
        BY <1>1, <2>6, <2>10, DocumentNodes DEF TypeOK, Nodes, Subtree
      <3>3. k # j => j \in (k + 1) .. v1.n
        BY <3>2
      <3> QED
        BY <2>10, <3>1, <3>3 DEF Subtree, Ancestors
    <2>12. v1match'[k] = best[2]
      <3>1. best[2] \in Int /\ v1match'[k] \in Int /\ k \in Int
        BY <1>1, <2>6, <2>8, DocumentNodes DEF TypeOK, Nodes
      <3> QED
        BY <2>10, <2>11, <3>1
    <2> QED
      BY <1>1, <2>6, <2>11, <2>12, CandidateHasAncestor
  <1>2. LongBytes = 4 /\ TypeOK /\ MatchIsMutual /\ QueueIsFlat /\ [Next]_matchVars
          => [Below]_matchVars
    BY <1>1
  <1>3. LongBytes = 4 => [](LongBytes = 4)
    OBVIOUS
  <1> QED
    BY <1>2, <1>3, MatchingTypes, MatchingIsMutual, QueueStaysFlat, PTL
       DEF Spec, CandidateUnderMatchedAncestor

-----------------------------------------------------------------------------
(***************************************************************************)
(* Equal subtrees of a document weigh the same, and a node weighs more     *)
(* than what is below it.                                                  *)
(***************************************************************************)

(* A subtree is an interval of numbers, and has the children in it. *)
LEMMA SubtreeFacts ==
  ASSUME NEW d, IsDocument(d), NEW i \in Nodes(d)
  PROVE  /\ i \in Int /\ i \in Subtree(d, i) /\ Children(d, i) \subseteq Subtree(d, i)
         /\ \A j \in Subtree(d, i) : j \in Nodes(d) /\ j \in 1 .. i /\ j .. i \subseteq Subtree(d, i)
         /\ \A c \in Subtree(d, i) : Subtree(d, c) \subseteq Subtree(d, i)
         /\ Cardinality(Subtree(d, i)) \in Nat
         /\ Subtree(d, i) = (i - Cardinality(Subtree(d, i)) + 1) .. i
PROOF
  <1> DEFINE S == Subtree(d, i)
  <1>1. /\ d.n \in Nat /\ i \in 1 .. d.n /\ Nodes(d) = 1 .. d.n
        /\ d.parent \in [1 .. d.n -> 0 .. d.n]
        /\ \A c \in 1 .. (d.n - 1) : \A k \in c .. (d.parent[c] - 1) : d.parent[k] <= d.parent[c]
    BY DocumentNodes DEF IsDocument, IsTree, Nodes
  <1>2. i \in S /\ S \subseteq 1 .. i
    BY <1>1 DEF Subtree
  <1>3. Children(d, i) \subseteq S
    <2> SUFFICES ASSUME NEW c \in Children(d, i) PROVE c \in S
      OBVIOUS
    <2>1. c \in 1 .. (i - 1) /\ d.parent[c] = i /\ c \in 1 .. (d.n - 1)
      BY <1>1 DEF Children
    <2> QED
      BY <1>1, <2>1 DEF Subtree
  <1>4. \A j \in S : j \in 1 .. d.n /\ j .. i \subseteq S
    BY <1>1 DEF Subtree
  <1>5. ASSUME NEW c \in S, NEW j \in Subtree(d, c)
        PROVE  j \in S
    <2>1. /\ c \in 1 .. i /\ j \in 1 .. c /\ (\A k \in c .. (i - 1) : d.parent[k] <= i)
          /\ \A k \in j .. (c - 1) : d.parent[k] <= c
      BY DEF Subtree
    <2>2. ASSUME NEW k \in j .. (i - 1)
          PROVE  d.parent[k] <= i
      <3>1. d.parent[k] \in Int
        BY <1>1, <2>1
      <3>2. CASE k < c
        BY <1>1, <2>1, <3>1, <3>2
      <3>3. CASE ~(k < c)
        BY <1>1, <2>1, <3>3
      <3> QED
        BY <3>2, <3>3
    <2> QED
      BY <1>1, <2>1, <2>2 DEF Subtree
  <1>6. PICK m \in S : \A j \in S : m <= j
    <2>1. S \in SUBSET Nat /\ S # {}
      BY <1>1, <1>2
    <2> HIDE DEF S
    <2> QED
      BY <2>1, LeastNumber
  <1>7. S = m .. i /\ m \in 1 .. i
    <2>1. m \in 1 .. i /\ m .. i \subseteq S
      BY <1>2, <1>4, <1>6
    <2>2. \A j \in S : j \in m .. i
      <3> HIDE DEF S
      <3> QED
        BY <1>1, <1>2, <1>6
    <2> QED
      BY <2>1, <2>2
  <1>8. Cardinality(S) = i - m + 1
    <2>1. m \in Int /\ i \in Int /\ ~(m > i)
      BY <1>1, <1>7
    <2> QED
      BY <1>7, <2>1, FS_Interval
  <1>9. Cardinality(S) \in Nat /\ S = (i - Cardinality(S) + 1) .. i
    <2>1. i - m + 1 \in Nat /\ i - (i - m + 1) + 1 = m
      BY <1>1, <1>7
    <2> HIDE DEF S
    <2> QED
      BY <1>7, <1>8, <2>1
  <1> QED
    BY <1>1, <1>2, <1>3, <1>4, <1>5, <1>9

(* Two equal subtrees at a distance of k: what is in one is in the other. *)
LEMMA PlacesMove ==
  ASSUME NEW d, IsDocument(d), NEW x \in Nodes(d), NEW y \in Nodes(d), SameSubtreeHash(d, x, d, y),
         NEW k, k = y - x
  PROVE  /\ SameSubtreeHash(d, y, d, x)
         /\ \A j \in Subtree(d, x) :
              /\ j + k \in Subtree(d, y) /\ HashSeed(d, j) = HashSeed(d, j + k)
              /\ j # x => d.parent[j + k] = d.parent[j] + k
PROOF
  <1> DEFINE size == Cardinality(Subtree(d, x))
  <1>1. /\ size \in Nat /\ size = Cardinality(Subtree(d, y)) /\ x \in Int /\ y \in Int
        /\ Subtree(d, x) = (x - size + 1) .. x /\ Subtree(d, y) = (y - size + 1) .. y
    BY SubtreeFacts DEF SameSubtreeHash
  <1>2. SameSubtreeHash(d, y, d, x)
    <2>1. \A l \in 0 .. (size - 1) :
            /\ HashSeed(d, x - l) = HashSeed(d, y - l)
            /\ l > 0 => d.parent[x - l] - x = d.parent[y - l] - y
      BY DEF SameSubtreeHash
    <2> HIDE DEF size
    <2> QED
      BY <1>1, <2>1 DEF SameSubtreeHash, size
  <1>3. ASSUME NEW j \in Subtree(d, x)
        PROVE  /\ j + k \in Subtree(d, y) /\ HashSeed(d, j) = HashSeed(d, j + k)
               /\ j # x => d.parent[j + k] = d.parent[j] + k
    <2>1. /\ x - j \in 0 .. (size - 1) /\ j + k \in (y - size + 1) .. y
          /\ x - (x - j) = j /\ y - (x - j) = j + k /\ (j # x => x - j > 0)
      BY <1>1
    <2>2. /\ HashSeed(d, x - (x - j)) = HashSeed(d, y - (x - j))
          /\ x - j > 0 => d.parent[x - (x - j)] - x = d.parent[y - (x - j)] - y
      BY <2>1 DEF SameSubtreeHash
    <2>3. d.parent[j] \in Int /\ d.parent[j + k] \in Int
      <3>1. j \in Nodes(d) /\ j + k \in Nodes(d)
        BY <1>1, <2>1, SubtreeFacts
      <3>2. d.parent \in [Nodes(d) -> 0 .. d.n] /\ d.n \in Nat
        BY DEF IsDocument, IsTree
      <3> QED
        BY <3>1, <3>2
    <2>4. d.parent[j] - x = d.parent[j + k] - y => d.parent[j + k] = d.parent[j] + k
      BY <1>1, <2>3
    <2> QED
      BY <1>1, <2>1, <2>2, <2>4
  <1> QED
    BY <1>2, <1>3

(* What is below a node in one of them is below its place in the other. *)
LEMMA SubtreesMove ==
  ASSUME NEW d, IsDocument(d), NEW x \in Nodes(d), NEW y \in Nodes(d), SameSubtreeHash(d, x, d, y),
         NEW k, k = y - x, NEW c \in Subtree(d, x), NEW j \in Subtree(d, c)
  PROVE  j + k \in Subtree(d, c + k)
PROOF
  <1>1. /\ x \in Int /\ y \in Int /\ x \in Subtree(d, x)
        /\ \A a \in Subtree(d, x) : a \in 1 .. x /\ a .. x \subseteq Subtree(d, x)
        /\ j \in Subtree(d, x) /\ c \in Nodes(d)
    BY SubtreeFacts
  <1>2. /\ j + k \in 1 .. y /\ j \in 1 .. c /\ c \in 1 .. x
        /\ \A l \in j .. (c - 1) : d.parent[l] <= c
    BY <1>1, PlacesMove, SubtreeFacts DEF Subtree
  <1>3. ASSUME NEW l \in (j + k) .. ((c + k) - 1)
        PROVE  d.parent[l] <= c + k
    <2>1. l - k \in j .. (c - 1) /\ (l - k) + k = l /\ l - k # x /\ l - k \in j .. x
      BY <1>1, <1>2
    <2>2. l - k \in Subtree(d, x)
      BY <1>1, <2>1
    <2>3. d.parent[l] = d.parent[l - k] + k
      BY <2>1, <2>2, PlacesMove
    <2>4. d.parent[l - k] <= c /\ d.parent[l - k] \in Int
      <3>1. l - k \in Nodes(d)
        BY <2>2, SubtreeFacts
      <3>2. d.parent \in [Nodes(d) -> 0 .. d.n] /\ d.n \in Nat
        BY DEF IsDocument, IsTree
      <3> QED
        BY <1>2, <2>1, <3>1, <3>2
    <2> QED
      BY <1>1, <1>2, <2>3, <2>4
  <1>4. j + k \in 1 .. (c + k)
    BY <1>1, <1>2
  <1> QED
    BY <1>3, <1>4 DEF Subtree

(* So they are equal too. *)
LEMMA EqualInside ==
  ASSUME NEW d, IsDocument(d), NEW x \in Nodes(d), NEW y \in Nodes(d), SameSubtreeHash(d, x, d, y),
         NEW k, k = y - x, NEW c \in Subtree(d, x)
  PROVE  c + k \in Nodes(d) /\ SameSubtreeHash(d, c, d, c + k)
PROOF
  <1> DEFINE e == c + k
             n == Cardinality(Subtree(d, c))
             m == Cardinality(Subtree(d, e))
  <1>1. /\ x \in Int /\ y \in Int /\ c \in Int /\ k \in Int /\ e \in Int /\ c = e + (x - y) /\ c <= x
        /\ c \in Nodes(d) /\ e \in Nodes(d) /\ e \in Subtree(d, y) /\ SameSubtreeHash(d, y, d, x)
    <2>1. x \in Int /\ y \in Int /\ c \in Nodes(d) /\ c \in 1 .. x
      BY SubtreeFacts
    <2>2. e \in Subtree(d, y) /\ SameSubtreeHash(d, y, d, x)
      BY PlacesMove
    <2>3. e \in Nodes(d)
      BY <2>2, SubtreeFacts
    <2> QED
      BY <2>1, <2>2, <2>3
  <1>2. /\ n \in Nat /\ Subtree(d, c) = (c - n + 1) .. c /\ c \in Subtree(d, c)
        /\ m \in Nat /\ Subtree(d, e) = (e - m + 1) .. e /\ e \in Subtree(d, e)
        /\ Subtree(d, c) \subseteq Subtree(d, x)
    BY <1>1, SubtreeFacts
  <1>3. n >= 1 /\ m >= 1
    <2> HIDE DEF n, m, e
    <2> QED
      BY <1>1, <1>2
  <1>4. n <= m
    <2>1. c - n + 1 \in Subtree(d, c)
      <3> HIDE DEF n
      <3> QED
        BY <1>1, <1>2, <1>3
    <2>2. (c - n + 1) + k \in (e - m + 1) .. e
      <3>1. (c - n + 1) + k \in Subtree(d, c + k)
        BY <2>1, SubtreesMove
      <3> QED
        BY <1>2, <3>1
    <2> HIDE DEF n, m
    <2> QED
      BY <1>1, <1>2, <2>2
  <1>5. m <= n
    <2>1. e - m + 1 \in Subtree(d, e)
      <3> HIDE DEF m, e
      <3> QED
        BY <1>1, <1>2, <1>3
    <2>2. (e - m + 1) + (x - y) \in (c - n + 1) .. c
      <3> DEFINE l == x - y
      <3>1. (e - m + 1) + l \in Subtree(d, e + l)
        <4>1. e - m + 1 \in Subtree(d, e) /\ e \in Subtree(d, y) /\ l = x - y
          BY <1>1, <2>1
        <4> HIDE DEF e, m, l
        <4> QED
          BY <1>1, <4>1, SubtreesMove
      <3>2. Subtree(d, e + l) = Subtree(d, c)
        <4>1. e + l = c
          BY <1>1
        <4> QED
          BY <4>1
      <3> QED
        BY <1>2, <3>1, <3>2
    <2> HIDE DEF n, m
    <2> QED
      BY <1>1, <1>2, <2>2
  <1>6. ASSUME NEW l \in 0 .. (n - 1)
        PROVE  /\ HashSeed(d, c - l) = HashSeed(d, e - l)
               /\ l > 0 => d.parent[c - l] - c = d.parent[e - l] - e
    <2> HIDE DEF n, m
    <2>1. c - l \in Subtree(d, c) /\ (c - l) + k = e - l /\ (l > 0 => c - l # x)
      BY <1>1, <1>2
    <2>2. /\ HashSeed(d, c - l) = HashSeed(d, (c - l) + k)
          /\ c - l # x => d.parent[(c - l) + k] = d.parent[c - l] + k
      <3> DEFINE p == c - l
      <3>1. p \in Subtree(d, x)
        BY <1>2, <2>1
      <3> HIDE DEF p
      <3>2. /\ HashSeed(d, p) = HashSeed(d, p + k)
            /\ p # x => d.parent[p + k] = d.parent[p] + k
        BY <3>1, PlacesMove
      <3> QED
        BY <3>2 DEF p
    <2>3. d.parent[c - l] \in Int
      <3>1. c - l \in Nodes(d)
        BY <1>1, <2>1, SubtreeFacts
      <3>2. d.parent \in [Nodes(d) -> 0 .. d.n] /\ d.n \in Nat
        BY DEF IsDocument, IsTree
      <3> QED
        BY <3>1, <3>2
    <2>4. d.parent[e - l] = d.parent[c - l] + k => d.parent[c - l] - c = d.parent[e - l] - e
      BY <1>1, <2>3
    <2> QED
      BY <2>1, <2>2, <2>4
  <1>7. n = m
    <2> HIDE DEF n, m
    <2> QED
      BY <1>2, <1>4, <1>5
  <1> QED
    BY <1>1, <1>6, <1>7 DEF SameSubtreeHash

(* The sum in IsWeighed ... *)
WeightOf(d, S) == MapThenSumSet(LAMBDA c : d.weight[c], S)

(* ... and the recursion it stands for. *)
WeightBody(d, S, f) ==
  [s \in SUBSET S |->
     IF s = {} THEN 0
     ELSE LET x == CHOOSE x \in s : TRUE
          IN  d.weight[x] + f[s \ {x}]]

(* MapThenSumSet unfolds to it. *)
LEMMA WeightUnfolds ==
  ASSUME NEW d, NEW S
  PROVE  WeightOf(d, S) = (CHOOSE f : f = WeightBody(d, S, f))[S]
PROOF
  BY Zenon DEF WeightOf, WeightBody, MapThenSumSet, MapThenFoldSet

(* A node weighs what it is itself and the sum of its children. *)
ChildrenSum(d, i, f) ==
  /\ Sums(d.weight, Children(d, i), f)
  /\ d.weight[i] = NodeWeight(d, i) + f[Children(d, i)]

(* One function that sums all sets of children stands for the recursion. *)
LEMMA ChildrenWeigh ==
  ASSUME NEW d, IsDocument(d), NEW i \in Nodes(d)
  PROVE  /\ IsFiniteSet(Children(d, i))
         /\ \A c \in Children(d, i) : d.weight[c] \in Nat
         /\ \E f : ChildrenSum(d, i, f)
PROOF
  <1> DEFINE S == Children(d, i)
             h == CHOOSE h : h = WeightBody(d, S, h)
  <1>1. IsFiniteSet(S) /\ S \subseteq Nodes(d)
    BY DocumentNodes, DocumentFacts, FS_Subset
  <1>2. /\ d.weight \in [Nodes(d) -> Nat]
        /\ d.weight[i] = NodeWeight(d, i) + WeightOf(d, S)
    BY DEF IsDocument, IsWeighed, WeightOf
  <1>3. \A c \in S : d.weight[c] \in Nat /\ d.weight[c] \in Int
    BY <1>1, <1>2
  <1>4. \A f : WeightBody(d, S, f) = SumsUp(d.weight, S, f)
    BY DEF WeightBody, SumsUp, AnElement
  <1> HIDE DEF S
  <1>5. \E f \in [SUBSET S -> Int] : f = SumsUp(d.weight, S, f)
    BY <1>1, <1>3, SumsUpExists
  <1>6. h = SumsUp(d.weight, S, h)
    BY <1>4, <1>5
  <1>7. WeightOf(d, S) = h[S]
    BY WeightUnfolds
  <1> HIDE DEF h
  <1>8. PICK f \in [SUBSET S -> Int] : f = SumsUp(d.weight, S, f)
    BY <1>5
  <1>9. h[S] = f[S]
    <2>1. AddsUp(d.weight, S, h) /\ AddsUp(d.weight, S, f) /\ S \in SUBSET S
      BY <1>6, <1>8 DEF AddsUp
    <2> QED
      BY <1>1, <2>1, SumsUpOnParts
  <1>10. Sums(d.weight, S, f)
    BY <1>1, <1>3, <1>8, SumsUpSums
  <1> QED
    BY <1>1, <1>2, <1>3, <1>7, <1>9, <1>10 DEF S, ChildrenSum

(* A node with children is an element, which weighs something itself. *)
LEMMA ChildIsLighter ==
  ASSUME NEW d, IsDocument(d), NEW i \in Nodes(d), NEW c \in Children(d, i)
  PROVE  d.weight[c] \in Nat /\ d.weight[i] \in Nat /\ d.weight[c] < d.weight[i]
PROOF
  <1> DEFINE S == Children(d, i)
  <1>1. PICK f : ChildrenSum(d, i, f)
    BY ChildrenWeigh
  <1>2. IsFiniteSet(S) /\ \A x \in S : d.weight[x] \in Nat
    BY ChildrenWeigh
  <1>3. NodeWeight(d, i) = 100
    <2>1. d.kind[i] = "element"
      BY DEF IsDocument, IsXml
    <2> QED
      BY <2>1 DEF NodeWeight
  <1>4. Sums(d.weight, S, f) /\ d.weight[i] = 100 + f[S]
    BY <1>1, <1>3 DEF ChildrenSum
  <1>5. f[S] = d.weight[c] + f[S \ {c}]
    BY <1>4 DEF Sums
  <1> HIDE DEF S
  <1>6. f[S \ {c}] \in Nat
    BY <1>2, <1>4, SumsArePositive
  <1>7. d.weight[c] \in Nat
    BY <1>2 DEF S
  <1> QED
    BY <1>4, <1>5, <1>6, <1>7

(* So is everything below it. *)
LEMMA AncestorIsHeavier ==
  ASSUME NEW d, IsDocument(d), NEW a \in Nodes(d)
  PROVE  \A c \in Nodes(d) : a \in Ancestors(d, c) => d.weight[c] < d.weight[a]
PROOF
  <1> DEFINE G == Nodes(d)
             rank == [c \in G |-> d.n - c]
             T == {c \in G : a \in Ancestors(d, c) => d.weight[c] < d.weight[a]}
  <1>1. d.n \in Nat /\ G = 1 .. d.n /\ d.weight \in [Nodes(d) -> Nat] /\ d.parent \in [G -> 0 .. d.n]
    BY DocumentFacts DEF IsDocument, IsWeighed, IsTree
  <1>2. rank \in [G -> Nat]
    BY <1>1
  <1>3. ASSUME NEW c \in G, \A e \in G : rank[e] < rank[c] => e \in T, a \in Ancestors(d, c)
        PROVE  d.weight[c] < d.weight[a]
    <2> DEFINE p == d.parent[c]
    <2>1. a \in (c + 1) .. d.n /\ (\A k \in c .. (a - 1) : d.parent[k] <= a) /\ c \in 1 .. d.n
      BY <1>1, <1>3 DEF Ancestors
    <2>2. c # Root(d) /\ Root(d) = d.n
      BY <1>1, <2>1 DEF Root
    <2>3. p \in Nodes(d) /\ p > c /\ p <= a /\ c \in Children(d, p)
      BY <1>1, <2>1, <2>2, DocumentFacts
    <2>4. d.weight[c] < d.weight[p] /\ d.weight[c] \in Nat /\ d.weight[p] \in Nat /\ d.weight[a] \in Nat
      BY <1>1, <2>3, ChildIsLighter
    <2>5. p # a => d.weight[p] < d.weight[a]
      <3>1. p # a => a \in Ancestors(d, p)
        <4> HIDE DEF p
        <4> QED
          BY <1>1, <2>1, <2>3 DEF Ancestors
      <3>2. p \in T
        <4>1. rank[p] < rank[c]
          BY <1>1, <2>1, <2>3
        <4> QED
          BY <1>3, <2>3, <4>1
      <3> QED
        BY <3>1, <3>2
    <2> HIDE DEF p
    <2> QED
      BY <2>4, <2>5
  <1>4. \A c \in G : c \in T
    <2>1. \A c \in G : (\A e \in G : rank[e] < rank[c] => e \in T) => c \in T
      BY <1>3
    <2> HIDE DEF G, rank, T
    <2> QED
      BY <1>2, <2>1, RankInduction
  <1> QED
    BY <1>4

(* Nodes with equal subtrees have as many children, each at its place. *)
LEMMA ChildrenMove ==
  ASSUME NEW d, IsDocument(d), NEW x \in Nodes(d), NEW y \in Nodes(d), SameSubtreeHash(d, x, d, y),
         NEW k, k = y - x
  PROVE  Children(d, y) = {c + k : c \in Children(d, x)}
PROOF
  <1>1. x \in Int /\ y \in Int /\ SameSubtreeHash(d, y, d, x)
    BY PlacesMove, SubtreeFacts
  <1>2. ASSUME NEW u \in Nodes(d), NEW v \in Nodes(d), SameSubtreeHash(d, u, d, v), u \in Int, v \in Int,
               NEW c \in Children(d, u)
        PROVE  c \in Int /\ c + (v - u) \in Children(d, v)
    <2> DEFINE l == v - u
    <2>1. c \in Subtree(d, u) /\ c \in 1 .. (u - 1) /\ d.parent[c] = u
      BY SubtreeFacts DEF Children
    <2>2. c # u /\ c \in Int
      BY <1>2, <2>1
    <2> HIDE DEF l
    <2>3. c + l \in Subtree(d, v) /\ d.parent[c + l] = d.parent[c] + l
      BY <1>2, <2>1, <2>2, PlacesMove DEF l
    <2>4. d.parent[c + l] = v
      BY <1>2, <2>1, <2>3 DEF l
    <2>5. c + l \in Nodes(d)
      BY <2>3, SubtreeFacts
    <2>6. c + l \in Children(d, v)
      BY <2>4, <2>5, DocumentFacts
    <2> QED
      BY <2>2, <2>6 DEF l
  <1>3. \A c \in Children(d, x) : c + k \in Children(d, y)
    BY <1>1, <1>2
  <1>4. \A c \in Children(d, y) : c \in Int /\ c + (x - y) \in Children(d, x)
    BY <1>1, <1>2
  <1>5. \A c \in Children(d, y) : \E e \in Children(d, x) : c = e + k
    <2> SUFFICES ASSUME NEW c \in Children(d, y) PROVE \E e \in Children(d, x) : c = e + k
      OBVIOUS
    <2>1. c + (x - y) \in Children(d, x) /\ c = (c + (x - y)) + k
      BY <1>1, <1>4
    <2> QED
      BY <2>1
  <1> QED
    BY <1>3, <1>5

(***************************************************************************)
(* Nodes with one subtree hash weigh the same, unless a text that is       *)
(* heavier than an empty element hashes like one.                          *)
(***************************************************************************)
LEMMA EqualsWeighTheSame ==
  ASSUME NEW d, IsDocument(d), TextsUnlikeTags(d)
  PROVE  \A x, y \in Nodes(d) : SameSubtreeHash(d, x, d, y) => d.weight[x] = d.weight[y]
PROOF
  <1> DEFINE G == Nodes(d)
             rank == [x \in G |-> x]
             T == {x \in G : \A y \in Nodes(d) :
                               SameSubtreeHash(d, x, d, y) => d.weight[x] = d.weight[y]}
  <1>1. d.n \in Nat /\ G = 1 .. d.n /\ rank \in [G -> Nat]
    BY DocumentFacts
  <1>2. ASSUME NEW x \in G, \A c \in G : rank[c] < rank[x] => c \in T,
               NEW y \in Nodes(d), SameSubtreeHash(d, x, d, y)
        PROVE  d.weight[x] = d.weight[y]
    <2> DEFINE k == y - x
               S == Children(d, x)
    <2>1. k \in Int /\ x \in Nodes(d) /\ S \in SUBSET Int /\ S \subseteq Nodes(d)
      BY <1>1, DocumentNodes DEF Children
    <2>2. Children(d, y) = {c + k : c \in S}
      BY <1>2, <2>1, ChildrenMove
    <2>3. \A c \in S : d.weight[c + k] = d.weight[c]
      <3> SUFFICES ASSUME NEW c \in S PROVE d.weight[c + k] = d.weight[c]
        OBVIOUS
      <3>1. c \in Subtree(d, x) /\ c \in G /\ c < x
        <4>1. c \in 1 .. (x - 1)
          BY DEF Children
        <4>2. c \in Subtree(d, x) /\ c \in G
          BY <2>1, SubtreeFacts
        <4> QED
          BY <1>1, <4>1, <4>2
      <3>2. c + k \in Nodes(d) /\ SameSubtreeHash(d, c, d, c + k)
        BY <1>2, <2>1, <3>1, EqualInside
      <3>3. c \in T
        BY <1>2, <3>1
      <3> HIDE DEF k
      <3> QED
        BY <3>2, <3>3
    <2>4. NodeWeight(d, x) = NodeWeight(d, y)
      <3>1. HashSeed(d, x) = HashSeed(d, y)
        <4>1. x \in Subtree(d, x) /\ x + k = y
          BY <1>1, <2>1, SubtreeFacts
        <4> QED
          BY <1>2, <2>1, <4>1, PlacesMove
      <3>2. /\ d.kind[x] \in Kinds /\ d.kind[y] \in Kinds
            /\ d.label[x] \in Label /\ d.label[y] \in Label /\ None \notin Label
        BY <2>1, DocumentAssumption DEF IsDocument, IsContent
      <3>3. CASE d.kind[x] = "text" /\ d.kind[y] = "text"
        <4>1. d.label[x] = d.label[y]
          BY <3>1, <3>3 DEF HashSeed
        <4> QED
          BY <3>3, <4>1 DEF NodeWeight
      <3>4. CASE d.kind[x] # "text" /\ d.kind[y] # "text"
        BY <3>4 DEF NodeWeight
      <3>5. ASSUME NEW u \in Nodes(d), NEW v \in Nodes(d), HashSeed(d, u) = HashSeed(d, v),
                   d.kind[u] = "text", d.kind[v] # "text", Children(d, u) = {} => Children(d, v) = {},
                   d.kind[v] \in Kinds, d.label[u] \in Label
            PROVE  NodeWeight(d, u) = NodeWeight(d, v)
        <4>1. Children(d, u) = {}
          BY <3>5 DEF IsDocument, IsXml
        <4>2. d.kind[v] = "element"
          BY <3>2, <3>5 DEF HashSeed, OwnHash, Kinds
        <4> QED
          BY <3>5, <4>1, <4>2 DEF TextsUnlikeTags
      <3>6. Children(d, x) = {} <=> Children(d, y) = {}
        BY <2>2
      <3> QED
        BY <2>1, <3>1, <3>2, <3>3, <3>4, <3>5, <3>6
    <2>5. PICK f : ChildrenSum(d, x, f)
      BY <2>1, ChildrenWeigh
    <2>6. PICK g : ChildrenSum(d, y, g)
      BY ChildrenWeigh
    <2>7. IsFiniteSet(S)
      BY <2>1, ChildrenWeigh
    <2>8. Sums(d.weight, S, f) /\ Sums(d.weight, Children(d, y), g)
      BY <2>5, <2>6 DEF ChildrenSum
    <2>9. f[S] = g[Children(d, y)]
      <3> DEFINE w == d.weight
                 C == Children(d, y)
      <3>1. IsMoved(w, S, k, C)
        BY <2>1, <2>2, <2>3 DEF IsMoved
      <3>2. Sums(w, S, f) /\ Sums(w, C, g)
        BY <2>8
      <3> HIDE DEF S, k, w, C
      <3>3. f[S] = g[C]
        BY <2>7, <3>1, <3>2, MovedSums
      <3> QED
        BY <3>3 DEF C
    <2> QED
      BY <2>4, <2>5, <2>6, <2>9 DEF ChildrenSum
  <1>3. \A x \in G : x \in T
    <2>1. \A x \in G : (\A c \in G : rank[c] < rank[x] => c \in T) => x \in T
      BY <1>2
    <2>2. rank \in [G -> Nat]
      BY <1>1
    <2> HIDE DEF G, rank, T
    <2> QED
      BY <2>1, <2>2, RankInduction
  <1> QED
    BY <1>3

-----------------------------------------------------------------------------
(* The parent of a node is its only ancestor at level 1. *)
LEMMA ParentIsFirst ==
  ASSUME NEW d, IsDocument(d), NEW c \in Nodes(d), c # Root(d)
  PROVE  /\ d.parent[c] \in Ancestors(d, c) /\ Level(d, c, d.parent[c]) = 1
         /\ c \in Children(d, d.parent[c])
PROOF
  <1> DEFINE p == d.parent[c]
  <1>1. /\ d.n \in Nat /\ c \in 1 .. d.n /\ p \in 1 .. d.n /\ p > c
        /\ c \in Children(d, p) /\ c \in 1 .. (d.n - 1) /\ Nodes(d) = 1 .. d.n
    BY DocumentFacts
  <1>2. \A k \in c .. (p - 1) : d.parent[k] <= p
    BY <1>1 DEF IsDocument, IsTree
  <1>3. p \in Ancestors(d, c)
    <2> HIDE DEF p
    <2> QED
      BY <1>1, <1>2 DEF Ancestors
  <1>4. \A b \in Ancestors(d, c) : b \in Int /\ p <= b
    <2> SUFFICES ASSUME NEW b \in Ancestors(d, c) PROVE b \in Int /\ p <= b
      OBVIOUS
    <2>1. b \in (c + 1) .. d.n /\ \A k \in c .. (b - 1) : d.parent[k] <= b
      BY DEF Ancestors
    <2>2. c \in c .. (b - 1)
      BY <1>1, <2>1
    <2> QED
      BY <1>1, <2>1, <2>2
  <1> HIDE DEF p
  <1>5. {b \in Ancestors(d, c) : b <= p} = {p}
    <2>1. \A b \in Ancestors(d, c) : b <= p => b = p
      BY <1>1, <1>4
    <2>2. p <= p
      BY <1>1
    <2> QED
      BY <1>3, <2>1, <2>2
  <1>6. Cardinality({p}) = 1
    BY FS_Singleton
  <1> QED
    BY <1>1, <1>3, <1>5, <1>6 DEF Level, p

(* The ancestors of a node are its parent and the parent's ancestors. *)
LEMMA AncestorsOfChild ==
  ASSUME NEW d, IsDocument(d), NEW q \in Nodes(d), NEW c \in Children(d, q), NEW a \in Ancestors(d, c)
  PROVE  a = q \/ a \in Ancestors(d, q)
PROOF
  <1>1. /\ d.n \in Nat /\ q \in 1 .. d.n /\ c \in 1 .. (q - 1) /\ d.parent[c] = q
        /\ a \in (c + 1) .. d.n /\ \A k \in c .. (a - 1) : d.parent[k] <= a
    BY DocumentNodes DEF Children, Ancestors, Nodes
  <1>2. q <= a
    BY <1>1
  <1> QED
    BY <1>1, <1>2 DEF Ancestors

(* Every node below another is below one of its children, or is one. *)
LEMMA ChildOnTheWay ==
  ASSUME NEW d, IsDocument(d), NEW q \in Nodes(d)
  PROVE  \A k \in Nodes(d) : q \in Ancestors(d, k) =>
           \E c \in Children(d, q) : c = k \/ c \in Ancestors(d, k)
PROOF
  <1> DEFINE G == Nodes(d)
             rank == [k \in G |-> d.n - k]
             Found(k) == \E c \in Children(d, q) : c = k \/ c \in Ancestors(d, k)
             T == {k \in G : q \in Ancestors(d, k) => Found(k)}
  <1>1. d.n \in Nat /\ G = 1 .. d.n
    BY DocumentFacts
  <1>2. rank \in [G -> Nat]
    BY <1>1
  <1>3. ASSUME NEW k \in G, \A e \in G : rank[e] < rank[k] => e \in T, q \in Ancestors(d, k)
        PROVE  Found(k)
    <2> DEFINE p == d.parent[k]
    <2>1. q \in (k + 1) .. d.n /\ k # Root(d)
      BY <1>1, <1>3 DEF Ancestors, Root
    <2>2. p \in Ancestors(d, k) /\ k \in Children(d, p) /\ p \in G /\ p > k
      BY <2>1, ParentIsFirst, DocumentFacts
    <2>3. q = p \/ q \in Ancestors(d, p)
      BY <1>3, <2>2, AncestorsOfChild
    <2>4. CASE q = p
      BY <2>2, <2>4
    <2>5. CASE q \in Ancestors(d, p)
      <3>1. rank[p] < rank[k]
        BY <1>1, <2>2
      <3>2. Found(p)
        BY <1>3, <2>2, <2>5, <3>1
      <3>3. PICK c \in Children(d, q) : c = p \/ c \in Ancestors(d, p)
        BY <3>2
      <3>4. c \in Ancestors(d, k)
        <4>1. CASE c = p
          BY <2>2, <4>1
        <4>2. CASE c \in Ancestors(d, p)
          <5>1. /\ c \in (p + 1) .. d.n /\ \A l \in p .. (c - 1) : d.parent[l] <= c
                /\ \A l \in k .. (p - 1) : d.parent[l] <= p
            BY <2>2, <4>2 DEF Ancestors
          <5>2. d.parent \in [1 .. d.n -> 0 .. d.n]
            BY DEF IsDocument, IsTree, Nodes
          <5> HIDE DEF p
          <5>3. ASSUME NEW l \in k .. (c - 1)
                PROVE  d.parent[l] <= c
            <6>1. d.parent[l] \in Int
              BY <1>1, <5>1, <5>2
            <6>2. CASE l < p
              BY <1>1, <2>2, <5>1, <6>1, <6>2
            <6>3. CASE ~(l < p)
              BY <1>1, <2>2, <5>1, <6>1, <6>3
            <6> QED
              BY <6>2, <6>3
          <5>4. c \in (k + 1) .. d.n
            BY <1>1, <2>2, <5>1
          <5> QED
            BY <5>3, <5>4 DEF Ancestors
        <4> QED
          BY <3>3, <4>1, <4>2
      <3> QED
        BY <3>4
    <2> QED
      BY <2>3, <2>4, <2>5
  <1>4. \A k \in G : k \in T
    <2>1. \A k \in G : (\A e \in G : rank[e] < rank[k] => e \in T) => k \in T
      BY <1>3
    <2> HIDE DEF G, rank, T
    <2> QED
      BY <1>2, <2>1, RankInduction
  <1> QED
    BY <1>4

-----------------------------------------------------------------------------
(***************************************************************************)
(* A document compared with itself.  No pass ever matches a node with      *)
(* another: while topdownMatch runs, every node without a match is in the  *)
(* queue or below a node in it, and what is above the queue has one.       *)
(***************************************************************************)
Identical == v0 = v1 /\ UniqueKeys(v0) /\ TextsUnlikeTags(v0)

MatchesItself == \A j \in Nodes(v1) : v0match[j] \in {0, j} /\ v1match[j] = v0match[j]

QueueCovers ==
  /\ \A j \in Nodes(v1) : v1Assigned(j) \/ \E q \in toMatch : q = j \/ q \in Ancestors(v1, j)
  /\ \A q \in toMatch : \A a \in Ancestors(v1, q) : v1Assigned(a)

NoneLeft == \A j \in Nodes(v1) : v1Assigned(j)

ItselfInv ==
  /\ Log1000[v1.n] \in Nat
  /\ Identical =>
       /\ MatchesItself
       /\ phase = "topdownMatch" => QueueCovers
       /\ phase \in {"optimize", "matched"} => NoneLeft

(* Claims of nodes for themselves leave it so. *)
LEMMA ClaimForItself ==
  ASSUME TypeOK, v0 = v1, MatchesItself, NEW pairs, OneToOne(pairs), NodeAssign(pairs),
         \A p \in pairs : p[1] = p[2], UNCHANGED <<v0, v1>>
  PROVE  /\ MatchesItself'
         /\ \A j \in Nodes(v1) : v1Assigned(j) \/ <<j, j>> \in pairs => v1match'[j] # 0
PROOF
  <1>1. v1.n \in Nat /\ Nodes(v1) = 1 .. v1.n
    BY DocumentNodes DEF TypeOK, Nodes
  <1>2. ASSUME NEW j \in Nodes(v1)
        PROVE  /\ v0match'[j] \in {0, j} /\ v1match'[j] = v0match'[j]
               /\ v1Assigned(j) \/ <<j, j>> \in pairs => v1match'[j] # 0
    <2>1. v0match[j] \in {0, j} /\ v1match[j] = v0match[j] /\ j # 0
      BY <1>1 DEF MatchesItself
    <2>2. CASE <<j, j>> \in pairs /\ Assignable(j, j)
      BY <2>1, <2>2, NodeAssignFields
    <2>3. CASE ~(<<j, j>> \in pairs /\ Assignable(j, j))
      <3>1. \A i : <<i, j>> \in pairs \/ <<j, i>> \in pairs => i = j
        OBVIOUS
      <3>2. v0match'[j] = v0match[j] /\ v1match'[j] = v1match[j]
        <4>1. /\ \/ \E b : <<j, b>> \in pairs /\ Assignable(j, b)
                 \/ v0match'[j] = v0match[j]
              /\ \/ \E b : <<b, j>> \in pairs /\ Assignable(b, j)
                 \/ v1match'[j] = v1match[j]
          BY NodeAssignFields
        <4> QED
          BY <2>3, <3>1, <4>1
      <3>3. <<j, j>> \in pairs => v1Assigned(j)
        BY <2>1, <2>3 DEF Assignable, v0Assigned, v1Assigned
      <3> QED
        BY <2>1, <3>2, <3>3 DEF v1Assigned
    <2> QED
      BY <2>2, <2>3
  <1> QED
    BY <1>2 DEF MatchesItself

(* A table with one node a key has the node itself. *)
LEMMA IdentifierOfItself ==
  ASSUME v0 = v1, UniqueKeys(v0), NEW j \in Nodes(v1), HasIdAttr(v1, j)
  PROVE  ByIdAttrHash(j) \subseteq {j}
PROOF
  BY DEF ByIdAttrHash, UniqueKeys

(* Children matched with themselves speak for their parent. *)
LEMMA FavouriteOfItself ==
  ASSUME TypeOK, v0 = v1, MatchesItself, NEW j \in Nodes(v1)
  PROVE  Favourite(j) \subseteq {j}
PROOF
  <1> SUFFICES ASSUME NEW i \in Favourite(j) PROVE i = j
    OBVIOUS
  <1>1. Voters(j, i) # {}
    BY DEF Favourite, Heaviest
  <1>2. PICK c \in Children(v1, j) : v1Assigned(c) /\ v0.parent[v1match[c]] = i
    BY <1>1 DEF Voters
  <1>3. c \in Nodes(v1) /\ v1.parent[c] = j
    BY DocumentFacts DEF TypeOK
  <1> QED
    BY <1>2, <1>3 DEF MatchesItself, v1Assigned

(* The root weighs something. *)
LEMMA RootWeighs ==
  ASSUME NEW d, IsDocument(d)
  PROVE  d.weight[Root(d)] \in Nat /\ d.weight[Root(d)] > 0
PROOF
  <1> DEFINE r == Root(d)
  <1>1. r \in Nodes(d) /\ d.weight[r] \in Nat /\ d.kind[r] = "element"
    BY DocumentFacts DEF IsDocument, IsWeighed, IsXml
  <1>2. PICK f : ChildrenSum(d, r, f)
    BY <1>1, ChildrenWeigh
  <1> DEFINE S == Children(d, r)
  <1>3. IsFiniteSet(S) /\ \A c \in S : d.weight[c] \in Nat
    BY <1>1, ChildrenWeigh
  <1>4. Sums(d.weight, S, f) /\ d.weight[r] = 100 + f[S]
    BY <1>1, <1>2 DEF ChildrenSum, NodeWeight
  <1> HIDE DEF S, r
  <1>5. f[S] \in Nat
    BY <1>3, <1>4, SumsArePositive
  <1> QED
    BY <1>1, <1>4, <1>5 DEF r

(* getBestCandidate looks at the parent at least. *)
LEMMA ParentIsLookedAt ==
  ASSUME TypeOK, Log1000[v1.n] \in Nat, NEW j \in Nodes(v1)
  PROVE  1 \in 1 .. MaxLevelPath(j)
PROOF
  <1> DEFINE a == 5 * Log1000[v1.n] * v1.weight[j]
             b == 1000 * v1.weight[Root(v1)]
  <1>1. v1.weight[j] \in Nat /\ v1.weight[Root(v1)] \in Nat /\ v1.weight[Root(v1)] > 0
    BY RootWeighs DEF TypeOK, IsDocument, IsWeighed
  <1>2. a \in Nat
    <2> DEFINE x == Log1000[v1.n]
               y == v1.weight[j]
    <2>1. x \in Nat /\ y \in Nat
      BY <1>1
    <2> HIDE DEF x, y
    <2>2. 5 * x * y \in Nat
      BY <2>1
    <2> QED
      BY <2>2 DEF x, y
  <1>3. b \in Nat /\ b > 0
    BY <1>1
  <1> HIDE DEF a, b
  <1>4. a \div b \in Int /\ a \div b >= 0
    BY <1>2, <1>3
  <1>5. MaxLevelPath(j) = 3 + (a \div b)
    BY DEF MaxLevelPath, MIN_CANDIDATEPARENT_LEVEL, a, b
  <1> QED
    BY <1>4, <1>5

(* A node in the queue whose turn it is finds itself below its parent. *)
LEMMA FindsItself ==
  ASSUME TypeOK, Identical, MatchesItself, QueueCovers, Log1000[v1.n] \in Nat,
         NEW j \in toMatch, ~v1Assigned(j), j # Root(v1)
  PROVE  <<1, j>> \in CandidateChoices(j)
PROOF
  <1> DEFINE p == v1.parent[j]
  <1>1. j \in Nodes(v1) /\ v0 = v1 /\ IsDocument(v1)
    BY DEF TypeOK, Identical
  <1>2. /\ p \in Ancestors(v1, j) /\ Level(v1, j, p) = 1
        /\ p \in Nodes(v1) /\ p \in AncestorAt(v1, j, 1)
    BY <1>1, ParentIsFirst, DocumentFacts DEF AncestorAt
  <1>3. v1Assigned(p) /\ v1match[p] = p
    BY <1>2 DEF QueueCovers, MatchesItself, v1Assigned
  <1>4. ~v0Assigned(j)
    BY <1>1 DEF MatchesItself, v0Assigned, v1Assigned
  <1>5. SameSubtreeHash(v0, j, v1, j)
    BY <1>1 DEF SameSubtreeHash
  <1> HIDE DEF p
  <1>6. j \in Candidates(j, 1, p)
    BY <1>1, <1>2, <1>3, <1>4, <1>5 DEF Candidates, MIN_CANDIDATEPARENT_LEVEL
  <1>7. <<1, j>> \in {1} \X UNION {Candidates(j, 1, rel) :
                                     rel \in {a \in AncestorAt(v1, j, 1) : v1Assigned(a)}}
    BY <1>2, <1>3, <1>6
  <1>8. 1 \in 1 .. MaxLevelPath(j)
    BY <1>1, ParentIsLookedAt
  <1> QED
    BY <1>7, <1>8 DEF CandidateChoices

(***************************************************************************)
(* Nothing comes before it: an equal subtree with a lower number would be  *)
(* in the queue, where it had been first, or below a heavier node in it.   *)
(***************************************************************************)
LEMMA TakesItself ==
  ASSUME TypeOK, Identical, MatchesItself, QueueCovers, Log1000[v1.n] \in Nat,
         NEW j \in toMatch, First(j), ~v1Assigned(j), j # Root(v1),
         NEW best \in BestOf(CandidateChoices(j))
  PROVE  best[2] = j
PROOF
  <1> DEFINE c == best[2]
  <1>1. /\ j \in Nodes(v1) /\ v0 = v1 /\ IsDocument(v1) /\ TextsUnlikeTags(v1)
        /\ v1.n \in Nat /\ Nodes(v1) = 1 .. v1.n
    BY DocumentNodes DEF TypeOK, Identical, Nodes
  <1>2. PICK level, rel : /\ level \in 1 .. MaxLevelPath(j) /\ best[1] = level
                          /\ c \in Candidates(j, level, rel)
    BY DEF BestOf, CandidateChoices
  <1>3. c \in Nodes(v1) /\ ~v0Assigned(c) /\ SameSubtreeHash(v0, c, v1, j)
    BY <1>1, <1>2 DEF Candidates
  <1>4. best[1] < 1 \/ (best[1] = 1 /\ c <= j)
    BY FindsItself DEF BestOf
  <1>5. c <= j
    <2>1. level \in Int /\ level >= 1
      BY <1>2
    <2> QED
      BY <1>2, <1>4, <2>1
  <1>6. v1.weight[c] = v1.weight[j] /\ v1.weight \in [Nodes(v1) -> Nat]
    BY <1>1, <1>3, EqualsWeighTheSame DEF IsDocument, IsWeighed
  <1>7. ~v1Assigned(c)
    BY <1>3 DEF MatchesItself, v0Assigned, v1Assigned
  <1>8. PICK q \in toMatch : q = c \/ q \in Ancestors(v1, c)
    BY <1>3, <1>7 DEF QueueCovers
  <1>9. q \in Nodes(v1)
    BY DEF TypeOK
  <1>10. v1.weight[q] < v1.weight[j] \/ (v1.weight[q] = v1.weight[j] /\ j <= q)
    BY <1>8 DEF First
  <1>11. CASE q = c
    <2>1. j <= c
      BY <1>6, <1>9, <1>10, <1>11
    <2> QED
      BY <1>1, <1>3, <1>5, <2>1
  <1>12. CASE q \in Ancestors(v1, c)
    <2>1. v1.weight[c] < v1.weight[q]
      BY <1>1, <1>3, <1>9, <1>12, AncestorIsHeavier
    <2> QED
      BY <1>1, <1>3, <1>6, <1>9, <1>10, <2>1
  <1> QED
    BY <1>8, <1>11, <1>12

-----------------------------------------------------------------------------
(***************************************************************************)
(* A node that leaves the queue is matched, and either its children take   *)
(* its place or everything below it is matched too.                        *)
(***************************************************************************)
LEMMA RequeueCovers ==
  ASSUME TypeOK, QueueCovers, NEW j \in toMatch, NEW nodes, Requeue(j, nodes),
         \A k \in Nodes(v1) : v1Assigned(k) => v1match'[k] # 0,
         v1match'[j] # 0,
         nodes = Children(v1, j) \/ (nodes = {} /\ \A k \in Subtree(v1, j) : v1match'[k] # 0)
  PROVE  /\ phase' = "topdownMatch" => QueueCovers'
         /\ phase' # "topdownMatch" => NoneLeft'
PROOF
  <1>1. /\ v1' = v1 /\ toMatch' = (toMatch \ {j}) \cup nodes
        /\ phase' = IF toMatch' = {} THEN "optimize" ELSE phase
    BY DEF Requeue
  <1>2. IsDocument(v1) /\ j \in Nodes(v1) /\ toMatch \subseteq Nodes(v1) /\ phase = "topdownMatch"
    BY DEF TypeOK
  <1>3. ASSUME NEW k \in Nodes(v1)
        PROVE  v1match'[k] # 0 \/ \E q \in toMatch' : q = k \/ q \in Ancestors(v1, k)
    <2> SUFFICES ASSUME v1match'[k] = 0
                 PROVE  \E q \in toMatch' : q = k \/ q \in Ancestors(v1, k)
      OBVIOUS
    <2>1. PICK q \in toMatch : q = k \/ q \in Ancestors(v1, k)
      BY DEF QueueCovers
    <2>2. CASE q # j
      BY <1>1, <2>1, <2>2
    <2>3. CASE q = j
      <3>1. k # j /\ j \in Ancestors(v1, k)
        BY <2>1, <2>3
      <3>2. CASE nodes = Children(v1, j)
        BY <1>1, <1>2, <3>1, <3>2, ChildOnTheWay
      <3>3. CASE nodes = {} /\ \A l \in Subtree(v1, j) : v1match'[l] # 0
        <4>1. k \in Subtree(v1, j)
          BY <1>2, <3>1, DocumentNodes DEF Ancestors, Subtree, Nodes
        <4> QED
          BY <3>3, <4>1
      <3> QED
        BY <3>2, <3>3
    <2> QED
      BY <2>2, <2>3
  <1>4. ASSUME NEW q \in toMatch', NEW a \in Ancestors(v1, q)
        PROVE  v1match'[a] # 0
    <2>1. \A b \in Nodes(v1) : Ancestors(v1, b) \subseteq Nodes(v1)
      BY <1>2, DocumentNodes DEF Ancestors, Nodes
    <2>2. CASE q \in toMatch
      BY <1>2, <2>1, <2>2 DEF QueueCovers
    <2>3. CASE q \in Children(v1, j)
      <3>1. a = j \/ a \in Ancestors(v1, j)
        BY <1>2, <2>3, AncestorsOfChild
      <3> QED
        BY <1>2, <2>1, <3>1 DEF QueueCovers
    <2> QED
      BY <1>1, <2>2, <2>3
  <1>5. toMatch' = {} => NoneLeft'
    BY <1>1, <1>3 DEF NoneLeft, v1Assigned
  <1>6. QueueCovers'
    BY <1>1, <1>3, <1>4 DEF QueueCovers, v1Assigned
  <1> QED
    BY <1>1, <1>2, <1>5, <1>6

(* The root, which topdownMatch starts from, is above every other node. *)
LEMMA RootCovers ==
  ASSUME NEW d, IsDocument(d)
  PROVE  /\ Ancestors(d, Root(d)) = {}
         /\ \A j \in Nodes(d) : Root(d) = j \/ Root(d) \in Ancestors(d, j)
PROOF
  <1>1. d.n \in Nat /\ Nodes(d) = 1 .. d.n /\ Root(d) = d.n /\ d.parent \in [1 .. d.n -> 0 .. d.n]
    BY DocumentNodes DEF IsDocument, IsTree, Nodes, Root
  <1>2. Ancestors(d, Root(d)) = {}
    BY <1>1 DEF Ancestors
  <1>3. ASSUME NEW j \in Nodes(d), j # Root(d)
        PROVE  Root(d) \in Ancestors(d, j)
    <2>1. \A k \in j .. (d.n - 1) : d.parent[k] <= d.n
      BY <1>1
    <2>2. d.n \in (j + 1) .. d.n
      BY <1>1, <1>3
    <2> QED
      BY <1>1, <2>1, <2>2 DEF Ancestors
  <1> QED
    BY <1>2, <1>3

(* recursiveAssign and forceParentsAssign of a node and itself. *)
LEMMA SubtreeClaimOfItself ==
  ASSUME TypeOK, v0 = v1, NEW j \in Nodes(v1), NEW level
  PROVE  /\ \A p \in ForceParentsAssign(j, j, level) \cup RecursiveAssign(j, j) : p[1] = p[2]
         /\ \A k \in Subtree(v1, j) : <<k, k>> \in RecursiveAssign(j, j)
PROOF
  <1>1. IsDocument(v1) /\ j \in Int /\ \A k \in Subtree(v1, j) : k \in 1 .. j
    BY SubtreeFacts DEF TypeOK
  <1>2. ASSUME NEW p \in ForceParentsAssign(j, j, level)
        PROVE  p[1] = p[2]
    <2>1. /\ p[1] \in Ancestors(v1, j) /\ p[2] \in Ancestors(v1, j)
          /\ Level(v1, j, p[1]) = Level(v1, j, p[2])
      BY DEF ForceParentsAssign, AncestorPairs
    <2> QED
      BY <1>1, <2>1, LevelIsInjective
  <1>3. ASSUME NEW p \in RecursiveAssign(j, j)
        PROVE  p[1] = p[2]
    <2>1. p[1] \in Subtree(v1, j) /\ p[2] \in Subtree(v1, j) /\ j - p[1] = j - p[2]
      BY DEF RecursiveAssign
    <2>2. p[1] \in Int /\ p[2] \in Int
      BY <1>1, <2>1
    <2> QED
      BY <1>1, <2>1, <2>2
  <1>4. \A k \in Subtree(v1, j) : <<k, k>> \in RecursiveAssign(j, j)
    BY DEF RecursiveAssign
  <1> QED
    BY <1>2, <1>3, <1>4

(* The two passes before topdownMatch. *)
LEMMA EarlyStepsOfItself ==
  ASSUME TypeOK, ItselfInv, Identical, MatchById \/ FullBottomUp
  PROVE  /\ MatchesItself'
         /\ phase' = "topdownMatch" => QueueCovers'
         /\ phase' \notin {"optimize", "matched"}
PROOF
  <1>1. v0 = v1 /\ UniqueKeys(v0) /\ MatchesItself /\ UNCHANGED <<v0, v1>>
    BY DEF Identical, ItselfInv, MatchById, FullBottomUp
  <1>2. OneToOne({}) /\ \A p \in {} : p[1] = p[2]
    BY DEF OneToOne
  <1>3. CASE MatchById
    <2>1. PICK j \in Nodes(v1) :
            NodeAssign(IF HasIdAttr(v1, j) THEN ByIdAttrHash(j) \X {j} ELSE {})
      BY <1>3 DEF MatchById
    <2> DEFINE pairs == IF HasIdAttr(v1, j) THEN ByIdAttrHash(j) \X {j} ELSE {}
    <2>2. OneToOne(pairs)
      BY <1>2, ByIdAttrHashIsOneToOne
    <2>3. \A p \in pairs : p[1] = p[2]
      BY <1>1, IdentifierOfItself
    <2>4. MatchesItself'
      <3> HIDE DEF pairs
      <3>1. NodeAssign(pairs)
        BY <2>1 DEF pairs
      <3> QED
        BY <1>1, <2>2, <2>3, <3>1, ClaimForItself
    <2>5. phase' \in {"matchById", "fullBottomUp"}
      BY <1>3 DEF MatchById, Advance
    <2> QED
      BY <2>4, <2>5
  <1>4. CASE FullBottomUp
    <2>1. cursor \in Nodes(v1)
      BY <1>4 DEF TypeOK, FullBottomUp, Nodes
    <2> DEFINE pairs == Favourite(cursor) \X {cursor}
    <2>2. OneToOne(pairs)
      BY <2>1, FavouriteIsOneToOne
    <2>3. \A p \in pairs : p[1] = p[2]
      BY <1>1, <2>1, FavouriteOfItself
    <2>4. MatchesItself'
      <3> HIDE DEF pairs
      <3>1. NodeAssign(pairs)
        BY <1>4 DEF pairs, FullBottomUp
      <3> QED
        BY <1>1, <2>2, <2>3, <3>1, ClaimForItself
    <2>5. \/ phase' = "fullBottomUp"
          \/ phase' = "topdownMatch" /\ toMatch' = {Root(v1)}
      BY <1>4 DEF FullBottomUp, Advance
    <2>6. toMatch' = {Root(v1)} => QueueCovers'
      BY <1>1, RootCovers DEF QueueCovers, TypeOK
    <2> QED
      BY <2>4, <2>5, <2>6
  <1> QED
    BY <1>3, <1>4

(* One turn of topdownMatch. *)
LEMMA TopdownStepOfItself ==
  ASSUME TypeOK, ItselfInv, Identical, TopdownMatch
  PROVE  /\ MatchesItself'
         /\ phase' = "topdownMatch" => QueueCovers'
         /\ phase' # "topdownMatch" => NoneLeft'
PROOF
  <1>1. /\ v0 = v1 /\ MatchesItself /\ QueueCovers /\ Log1000[v1.n] \in Nat
        /\ IsDocument(v1)
    BY DEF Identical, ItselfInv, TopdownMatch, TypeOK
  <1>2. PICK j \in toMatch :
          /\ First(j)
          /\ SkipAssigned(j) \/ MatchRoots(j) \/ MatchSubtree(j) \/ ProgramChildren(j)
    BY DEF TopdownMatch
  <1>3. j \in Nodes(v1) /\ j # 0 /\ 0 \notin Nodes(v1)
    BY DocumentNodes DEF TypeOK, Nodes
  <1>4. CASE SkipAssigned(j)
    <2>1. /\ v1match' = v1match /\ v0match' = v0match /\ v1' = v1 /\ v0' = v0
          /\ v1match[j] # 0 /\ Requeue(j, Children(v1, j))
      BY <1>4 DEF SkipAssigned, Requeue, v1Assigned
    <2>2. MatchesItself'
      BY <1>1, <2>1 DEF MatchesItself
    <2>3. \A k \in Nodes(v1) : v1Assigned(k) => v1match'[k] # 0
      BY <2>1 DEF v1Assigned
    <2>4. v1match'[j] # 0
      BY <2>1
    <2> QED
      BY <1>1, <2>1, <2>2, <2>3, <2>4, RequeueCovers
  <1>5. CASE MatchRoots(j)
    <2>1. /\ j = Root(v1) /\ v1' = v1 /\ v0' = v0 /\ Requeue(j, Children(v1, j))
          /\ v0match' = [v0match EXCEPT ![j] = j] /\ v1match' = [v1match EXCEPT ![j] = j]
      BY <1>1, <1>5 DEF MatchRoots, Requeue
    <2>2. \A k \in Nodes(v1) :
            /\ v0match'[k] = (IF k = j THEN j ELSE v0match[k])
            /\ v1match'[k] = (IF k = j THEN j ELSE v1match[k])
      BY <1>1, <2>1 DEF TypeOK
    <2>3. MatchesItself'
      BY <1>1, <2>1, <2>2 DEF MatchesItself
    <2>4. \A k \in Nodes(v1) : v1Assigned(k) => v1match'[k] # 0
      BY <1>3, <2>2 DEF v1Assigned
    <2>5. v1match'[j] # 0
      BY <1>3, <2>2
    <2> QED
      BY <1>1, <2>1, <2>3, <2>4, <2>5, RequeueCovers
  <1>6. CASE MatchSubtree(j)
    <2>1. PICK best \in BestOf(CandidateChoices(j)) :
            NodeAssign(ForceParentsAssign(best[2], j, best[1]) \cup RecursiveAssign(best[2], j))
      BY <1>6 DEF MatchSubtree
    <2>2. best[2] = j
      BY <1>1, <1>2, <1>6, TakesItself DEF MatchSubtree
    <2> DEFINE pairs == ForceParentsAssign(j, j, best[1]) \cup RecursiveAssign(j, j)
    <2>3. NodeAssign(pairs) /\ UNCHANGED <<v0, v1>> /\ Requeue(j, {})
      BY <1>6, <2>1, <2>2 DEF MatchSubtree, Requeue
    <2>4. OneToOne(pairs)
      BY <1>1, <1>3, SubtreeClaimIsOneToOne
    <2>5. /\ \A p \in pairs : p[1] = p[2]
          /\ \A k \in Subtree(v1, j) : <<k, k>> \in pairs
      BY <1>1, <1>3, SubtreeClaimOfItself
    <2> HIDE DEF pairs
    <2>6. /\ MatchesItself'
          /\ \A k \in Nodes(v1) : v1Assigned(k) \/ <<k, k>> \in pairs => v1match'[k] # 0
      BY <1>1, <2>3, <2>4, <2>5, ClaimForItself
    <2>7. j \in Subtree(v1, j) /\ Subtree(v1, j) \subseteq Nodes(v1)
      BY <1>1, <1>3, SubtreeFacts
    <2>8. v1match'[j] # 0 /\ \A k \in Subtree(v1, j) : v1match'[k] # 0
      BY <2>5, <2>6, <2>7
    <2>9. \A k \in Nodes(v1) : v1Assigned(k) => v1match'[k] # 0
      BY <2>6
    <2> QED
      BY <1>1, <2>3, <2>6, <2>8, <2>9, RequeueCovers
  <1>7. CASE ProgramChildren(j)
    BY <1>1, <1>7, FindsItself DEF ProgramChildren
  <1> QED
    BY <1>2, <1>4, <1>5, <1>6, <1>7

(* Optimize has nothing to do. *)
LEMMA OptimizeOfItself ==
  ASSUME TypeOK, ItselfInv, Identical, Optimize
  PROVE  MatchesItself' /\ NoneLeft' /\ phase' # "topdownMatch"
PROOF
  <1>1. v0 = v1 /\ MatchesItself /\ NoneLeft /\ UNCHANGED <<v0, v1>> /\ IsDocument(v0)
    BY DEF Identical, ItselfInv, Optimize, TypeOK
  <1>2. PICK i \in Nodes(v0) :
          NodeAssign(IF v0Assigned(i) THEN UniqueTags(i, v0match[i]) ELSE {})
    BY DEF Optimize
  <1>3. \A j \in Nodes(v0) : v0Assigned(j)
    BY <1>1 DEF MatchesItself, NoneLeft, v0Assigned, v1Assigned
  <1>4. FreeV0(i) = {}
    BY <1>1, <1>3, DocumentFacts DEF FreeV0
  <1>5. UniqueTags(i, v0match[i]) = {}
    BY <1>4 DEF UniqueTags
  <1>6. NodeAssign({})
    BY <1>2, <1>5
  <1>7. OneToOne({}) /\ \A p \in {} : p[1] = p[2]
    BY DEF OneToOne
  <1>8. MatchesItself' /\ \A j \in Nodes(v1) : v1Assigned(j) => v1match'[j] # 0
    BY <1>1, <1>6, <1>7, ClaimForItself
  <1>9. NoneLeft'
    BY <1>1, <1>8 DEF NoneLeft, v1Assigned
  <1>10. phase' \in {"optimize", "matched"}
    BY DEF Optimize, Advance
  <1> QED
    BY <1>8, <1>9, <1>10

(* Every step keeps it. *)
LEMMA NextItself == TypeOK /\ ItselfInv /\ [Next]_matchVars => ItselfInv'
PROOF
  <1> SUFFICES ASSUME TypeOK, ItselfInv, [Next]_matchVars PROVE ItselfInv'
    OBVIOUS
  <1>1. CASE Next
    <2>1. v0' = v0 /\ v1' = v1
      BY <1>1, OnlyClaims
    <2>2. Log1000[v1'.n] \in Nat
      BY <2>1 DEF ItselfInv
    <2>3. ASSUME Identical
          PROVE  /\ MatchesItself'
                 /\ phase' = "topdownMatch" => QueueCovers'
                 /\ phase' \in {"optimize", "matched"} => NoneLeft'
      BY <1>1, <2>3, EarlyStepsOfItself, TopdownStepOfItself, OptimizeOfItself DEF Next
    <2>4. Identical' <=> Identical
      BY <2>1 DEF Identical
    <2> QED
      BY <2>2, <2>3, <2>4 DEF ItselfInv
  <1>2. CASE UNCHANGED matchVars
    BY <1>2 DEF matchVars, ItselfInv, Identical, MatchesItself, QueueCovers, NoneLeft, v1Assigned
  <1> QED
    BY <1>1, <1>2

(***************************************************************************)
(* For all documents with unique identifiers and no text that hashes like  *)
(* an empty element and is heavier, on both widths of a long: a document   *)
(* compared with itself is matched with itself, node by node, although     *)
(* equal subtrees compete for each other.  What keeps them apart is the    *)
(* order of the queue: an equal subtree with a lower number is matched, or *)
(* in the queue before it, or below a heavier node in the queue.           *)
(***************************************************************************)
THEOREM ComparedWithItself == Spec => []IdenticalDocumentsMatchIdentically
PROOF
  <1>1. Init => ItselfInv
    <2> SUFFICES ASSUME Init PROVE ItselfInv
      OBVIOUS
    <2>1. Log1000[v1.n] \in Nat
      BY MatchingAssumption DEF Init
    <2>2. v0 = v1 => MatchesItself
      BY DEF Init, MatchesItself
    <2>3. phase = "matchById"
      BY DEF Init
    <2> QED
      BY <2>1, <2>2, <2>3 DEF ItselfInv, Identical
  <1>2. TypeOK /\ ItselfInv /\ [Next]_matchVars => ItselfInv'
    BY NextItself
  <1>3. TypeOK /\ ItselfInv => IdenticalDocumentsMatchIdentically
    <2> SUFFICES ASSUME TypeOK, ItselfInv, phase = "matched", Identical, NEW j \in Nodes(v1)
                 PROVE  v1match[j] = j /\ v0match[j] = j
      BY DEF IdenticalDocumentsMatchIdentically, Identical
    <2>1. MatchesItself /\ NoneLeft
      BY DEF ItselfInv
    <2> QED
      BY <2>1 DEF MatchesItself, NoneLeft, v1Assigned
  <1> QED
    BY <1>1, <1>2, <1>3, MatchingTypes, PTL DEF Spec
=============================================================================
