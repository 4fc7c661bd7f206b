----------------------------- MODULE MCMatching -----------------------------
(***************************************************************************)
(* Matching on small documents.  Three families of pairs are compared: all *)
(* small trees without identifiers, small trees with identifiers, and      *)
(* chains deep enough for getBestCandidate to climb above its index        *)
(* tables.                                                                 *)
(***************************************************************************)
EXTENDS Matching, Sequences

MCLabel == {"a", "b"}
MCAttrName == {"type"}
MCValue == {"k", "l"}
MCTextWeight == [l \in MCLabel |-> IF l = "a" THEN 169 ELSE 100]   \* two characters, one
MCLog1000 == <<0, 693, 1098, 1386, 1609, 1791>>

(* What a node may be: a kind, a label and a value of the type attribute. *)
Elements(labels, keys) == {"element"} \X labels \X keys

Texts(labels) == {"text"} \X labels \X {None}

Comments(labels) == {"comment"} \X labels \X {None}

(* The document with this shape and content. *)
Doc(parent, content) ==
  LET n == Len(parent)
      OwnWeight(i) == IF content[i][1] = "text" THEN TextWeight[content[i][2]] ELSE 100
      weight[i \in 1 .. n] ==
        OwnWeight(i) + MapThenSumSet(LAMBDA c : weight[c],
                                     {c \in 1 .. (i - 1) : parent[c] = i})
  IN [n      |-> n,
      parent |-> parent,
      kind   |-> [i \in 1 .. n |-> content[i][1]],
      label  |-> [i \in 1 .. n |-> content[i][2]],
      attr   |-> [i \in 1 .. n |-> [a \in {"type"} |-> content[i][3]]],
      weight |-> weight]

(* The shapes with n nodes. *)
Shapes(n) ==
  {p \in [1 .. n -> 0 .. n] :
     /\ p[n] = 0
     /\ \A i \in 1 .. (n - 1) :
          p[i] > i /\ \A k \in i .. (p[i] - 1) : p[k] <= p[i]}

(* All documents of these shapes with such a root and such other nodes. *)
Documents(shapes, roots, inner) ==
  {d \in UNION {{Doc(p, c) : c \in {f \in [1 .. Len(p) -> roots \cup inner] :
                                      /\ f[Len(p)] \in roots
                                      /\ \A i \in 1 .. (Len(p) - 1) : f[i] \in inner}}
                : p \in shapes} : IsXml(d)}

PlainDocs ==
  Documents(UNION {Shapes(n) : n \in 1 .. 4}, Elements({"a"}, {None}),
            Elements({"a", "b"}, {None}) \cup Texts({"a"}))

KeyedDocs ==
  Documents(UNION {Shapes(n) : n \in 1 .. 3}, Elements({"a"}, {None, "k"}),
            Elements({"a"}, {None, "k", "l"}) \cup Elements({"b"}, {None, "k"}))

(* A chain of three elements below the root, with one or two leaves. *)
DeepDocs ==
  {Doc(<<2, 3, 4, 5, 0>>, <<leaf, c[1], c[2], c[3], <<"element", "a", None>> >>) :
     leaf \in Elements({"a", "b"}, {None}) \cup Texts({"a"}),
     c \in [1 .. 3 -> Elements({"a", "b"}, {None})]}
  \cup
  {Doc(<<3, 3, 4, 5, 6, 0>>,
       <<leaf, <<"element", "b", None>>, c[1], c[2], c[3], <<"element", "a", None>> >>) :
     leaf \in Texts({"a", "b"}) \cup Comments({"a"}), c \in [1 .. 3 -> Elements({"a", "b"}, {None})]}

MCInputs ==
  (PlainDocs \X PlainDocs) \cup (KeyedDocs \X KeyedDocs) \cup (DeepDocs \X DeepDocs)
=============================================================================
