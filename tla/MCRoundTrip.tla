----------------------------- MODULE MCRoundTrip -----------------------------
(***************************************************************************)
(* RoundTrip on small documents with every matching between them.          *)
(***************************************************************************)
EXTENDS RoundTrip

MCLabel == {"a", "b"}
MCAttrName == {"type", "x"}
MCValue == {"k", "l"}
MCTextWeight == [l \in MCLabel |-> 100]

(* What a node may be: a kind, a label, a type and an x attribute. *)
Elements(labels, keys, values) == {"element"} \X labels \X keys \X values

Leaves(kinds, labels) == kinds \X labels \X {None} \X {None}

Doc(parent, content) ==
  LET n == Len(parent)
      weight[i \in 1 .. n] ==
        100 + MapThenSumSet(LAMBDA c : weight[c], {c \in 1 .. (i - 1) : parent[c] = i})
  IN [n      |-> n,
      parent |-> parent,
      kind   |-> [i \in 1 .. n |-> content[i][1]],
      label  |-> [i \in 1 .. n |-> content[i][2]],
      attr   |-> [i \in 1 .. n |-> [type |-> content[i][3], x |-> content[i][4]]],
      weight |-> weight]

Shapes(n) ==
  {p \in [1 .. n -> 0 .. n] :
     /\ p[n] = 0
     /\ \A i \in 1 .. (n - 1) :
          p[i] > i /\ \A k \in i .. (p[i] - 1) : p[k] <= p[i]}

Documents(shapes, roots, inner) ==
  {d \in UNION {{Doc(p, c) : c \in {f \in [1 .. Len(p) -> roots \cup inner] :
                                      /\ f[Len(p)] \in roots
                                      /\ \A i \in 1 .. (Len(p) - 1) : f[i] \in inner}}
                : p \in shapes} : IsXml(d)}

Plain(labels) == Elements(labels, {None}, {None})

(* Every shape with up to four nodes, all elements alike. *)
ShapeDocs == Documents(UNION {Shapes(n) : n \in 1 .. 4}, Plain({"a"}), Plain({"a"}))

(* Room for four children to change places, and for subtrees to cross. *)
WideDocs ==
  Documents({<<5, 5, 5, 5, 0>>, <<3, 3, 5, 5, 0>>, <<2, 5, 4, 5, 0>>},
            Plain({"a"}), Plain({"a"}))

FiveDocs == Documents(Shapes(5), Plain({"a"}), Plain({"a"}))

(* Up to so many nodes with contents of all sorts below such a root. *)
ContentDocs(size, roots) ==
  Documents(UNION {Shapes(n) : n \in 1 .. size}, roots,
            Plain({"a"}) \cup Elements({"a"}, {None}, {"k"})
              \cup Leaves({"text"}, {"a", "b"}) \cup Leaves({"comment"}, {"a"}))

(* The pairs of them: all sorts of changes, at the root as well. *)
ContentPairs(size) ==
  ContentDocs(size, Elements({"a"}, {None}, {"k"}))
    \X ContentDocs(size, Plain({"b"}) \cup Elements({"a"}, {None}, {"l"}))

(* For the run with liveness properties, which has to be smaller. *)
FewDocs ==
  Documents(UNION {Shapes(n) : n \in 1 .. 3}, Plain({"a"}),
            Plain({"a"}) \cup Leaves({"text"}, {"a", "b"}))

(* Three children that change places. *)
BroadDocs == Documents({<<4, 4, 4, 0>>}, Plain({"a"}), Plain({"a"}))

MCFewInputs ==
  {p \in ShapeDocs \X ShapeDocs : p[1].n + p[2].n <= 7}
  \cup (BroadDocs \X BroadDocs) \cup (FewDocs \X FewDocs) \cup ContentPairs(2)

MCInputs ==
  (ShapeDocs \X ShapeDocs)
  \cup (WideDocs \X FiveDocs) \cup (FiveDocs \X WideDocs)
  \cup ContentPairs(3)
=============================================================================
