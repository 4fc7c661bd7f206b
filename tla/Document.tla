------------------------------ MODULE Document ------------------------------
(***************************************************************************)
(* A registered document: what NodesManager::registerSubtree leaves in     *)
(* v0node or v1node once an XML tree has been walked.                      *)
(*                                                                         *)
(* Nodes are numbered 1 .. n in postfix order, so the root is n and a      *)
(* subtree is an interval of numbers.  The chain of firstChild and         *)
(* nextSibling links is kept as the parent function: with postfix          *)
(* numbers, the children of a node in document order are its children in   *)
(* increasing order.  weight is myWeight, in hundredths; kind, label and   *)
(* attr stand for the DOM node.                                            *)
(*                                                                         *)
(* Hashes are taken to be free of accidental collisions: two hashes are    *)
(* equal exactly when the hashed data are.  The collision the code makes   *)
(* on purpose (an empty element and a text with the same characters hash   *)
(* alike) is kept.                                                         *)
(***************************************************************************)
EXTENDS Integers, FiniteSets, FiniteSetsExt

CONSTANTS
  Label,       \* tag names, text values and comments
  AttrName,    \* attribute names
  IdAttr,      \* the attribute the code takes as an identifier (xml:lang, type)
  Value,       \* attribute values
  None,        \* no attribute, no label
  TextWeight   \* [Label -> Nat]: 100 * (1 + log(length)) for a text

ASSUME DocumentAssumption ==
  /\ IdAttr \in AttrName
  /\ None \notin Value
  /\ None \notin Label
  /\ TextWeight \in [Label -> Nat]

Nodes(d) == 1 .. d.n

Root(d) == d.n

Kinds == {"element", "text", "comment"}

Attributes == [AttrName -> Value \cup {None}]

(***************************************************************************)
(* The subtree of node i: the nodes numbered up to i none of whose         *)
(* successors before i hangs above i.                                      *)
(***************************************************************************)
Subtree(d, i) == {j \in 1 .. i : \A k \in j .. (i - 1) : d.parent[k] <= i}

Children(d, i) == {c \in 1 .. (i - 1) : d.parent[c] = i}

(* myPosition: 1 for the first child. *)
Position(d, c) == Cardinality({b \in Children(d, d.parent[c]) : b <= c})

Ancestors(d, i) ==
  {a \in (i + 1) .. d.n : \A k \in i .. (a - 1) : d.parent[k] <= a}

(* How many myParent links lead from i up to its ancestor a. *)
Level(d, i, a) == Cardinality({b \in Ancestors(d, i) : b <= a})

(* The rank of a node in prefix order, from 1. *)
PrefixRank(d, i) ==
  1 + Cardinality(Ancestors(d, i))
    + Cardinality({j \in 1 .. i : j \notin Subtree(d, i)})

Key(d, i) == d.attr[i][IdAttr]

HasIdAttr(d, i) == d.kind[i] = "element" /\ Key(d, i) # None

(***************************************************************************)
(* myOwnHash: the tag, together with the identifying attribute when there  *)
(* is one; 0 for a text or a comment.                                      *)
(***************************************************************************)
OwnHash(d, i) ==
  IF d.kind[i] = "element" THEN <<d.label[i], Key(d, i)>> ELSE <<None, None>>

(* A hash that forgets the value of a text. *)
HashSeedOfTagsOnly(d, i) == OwnHash(d, i)

(***************************************************************************)
(* What a node itself puts in mySubtreeHash: a text its value (through the *)
(* same function as a tag name), a comment nothing.                        *)
(***************************************************************************)
HashSeed(d, i) ==
  IF d.kind[i] = "text" THEN <<d.label[i], None>> ELSE OwnHash(d, i)

(***************************************************************************)
(* mySubtreeHash of node i of d is mySubtreeHash of node j of e.  The hash *)
(* chains the node's seed with its children's hashes, so it is equal when  *)
(* the two subtrees have the same shape and the same seeds, node by node   *)
(* in postfix order.                                                       *)
(***************************************************************************)
SameSubtreeHash(d, i, e, j) ==
  LET size == Cardinality(Subtree(d, i)) IN
  /\ size = Cardinality(Subtree(e, j))
  /\ \A k \in 0 .. (size - 1) :
       /\ HashSeed(d, i - k) = HashSeed(e, j - k)
       /\ k > 0 => d.parent[i - k] - i = e.parent[j - k] - j

(* What a node itself adds to myWeight, in hundredths. *)
NodeWeight(d, i) == IF d.kind[i] = "text" THEN TextWeight[d.label[i]] ELSE 100

-----------------------------------------------------------------------------
(***************************************************************************)
(* The documents the parser and removeIgnorableWhitespace can deliver:     *)
(* numbers in postfix order, elements inside, an element at the root, and  *)
(* no two texts side by side.                                              *)
(***************************************************************************)
IsTree(d) ==
  /\ d.n \in Nat \ {0}
  /\ d.parent \in [Nodes(d) -> 0 .. d.n]
  /\ d.parent[d.n] = 0
  /\ \A i \in 1 .. (d.n - 1) :
       /\ d.parent[i] > i
       /\ \A k \in i .. (d.parent[i] - 1) : d.parent[k] <= d.parent[i]

IsContent(d) ==
  /\ d.kind \in [Nodes(d) -> Kinds]
  /\ d.label \in [Nodes(d) -> Label]
  /\ d.attr \in [Nodes(d) -> Attributes]

IsXml(d) ==
  /\ \A i \in Nodes(d) :
       (Children(d, i) # {} \/ i = d.n) => d.kind[i] = "element"
  /\ \A i \in Nodes(d) :
       d.kind[i] # "element" => d.attr[i] = [a \in AttrName |-> None]
  /\ \A i, j \in Nodes(d) :
       /\ d.kind[i] = "text" /\ d.kind[j] = "text"
       /\ d.parent[i] = d.parent[j]
       => Position(d, j) # Position(d, i) + 1

(* myWeight as registerSubtree adds it up. *)
IsWeighed(d) ==
  /\ d.weight \in [Nodes(d) -> Nat]
  /\ \A i \in Nodes(d) :
       d.weight[i] = NodeWeight(d, i)
                     + MapThenSumSet(LAMBDA c : d.weight[c], Children(d, i))

IsDocument(d) == IsTree(d) /\ IsContent(d) /\ IsXml(d) /\ IsWeighed(d)

-----------------------------------------------------------------------------
(* Two nodes of one kind, one own hash and, for texts, one value. *)
Alike(d, i, e, j) ==
  /\ d.kind[i] = e.kind[j]
  /\ OwnHash(d, i) = OwnHash(e, j)
  /\ e.kind[j] = "text" => d.label[i] = e.label[j]

(***************************************************************************)
(* The myMatchID fields m0 of d and m1 of e as NodesManager hands them     *)
(* over when its passes are done: pairs of nodes that are alike, the two   *)
(* fields of a pair pointing at each other.  Only the roots of both        *)
(* documents may be unlike each other, and when they were matched last,    *)
(* the node that held d's root before keeps its stale field.  e's root has *)
(* a match, which need not be d's root.                                    *)
(***************************************************************************)
IsMatching(d, e, m0, m1) ==
  /\ \A i \in Nodes(d) : m0[i] # 0 => m1[m0[i]] = i
  /\ \A j \in Nodes(e) : m1[j] # 0 =>
       /\ m0[m1[j]] = j \/ (m1[j] = Root(d) /\ m0[Root(d)] = Root(e))
       /\ Alike(d, m1[j], e, j) \/ (j = Root(e) /\ m1[j] = Root(d))
  /\ m1[Root(e)] # 0
=============================================================================
