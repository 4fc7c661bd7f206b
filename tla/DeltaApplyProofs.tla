--------------------------- MODULE DeltaApplyProofs ---------------------------
(***************************************************************************)
(* Theorems about the application of the delta that RoundTrip constructs,  *)
(* for all documents and all matchings.  When the roots are matched with   *)
(* each other, the engine throws nothing, keeps every matched node and its *)
(* own map, and rebuilds the second document.  When they are not, no       *)
(* document comes out.                                                     *)
(***************************************************************************)
EXTENDS RoundTripProofs

-----------------------------------------------------------------------------

(* A sequence of whatever it contains. *)
IsList(s) == s \in Seq({s[k] : k \in DOMAIN s})

(* A node of an operation: its children are those that travel with it. *)
IsPart(e, t, num, m) ==
  /\ m.kind = e.was[m.xid].kind /\ m.label = e.was[m.xid].label /\ m.attr = e.was[m.xid].attr
  /\ Lists(m.kids, Apply!Kids(t, m.xid) \ e.cut, num)

(***************************************************************************)
(* An operation that takes a node out of t or brings it there; what u does *)
(* not have is deleted or inserted, the rest is moved.                     *)
(***************************************************************************)
IsOp(e, t, num, u, op) ==
  /\ op.xid \in e.cut \cap DOMAIN t
  /\ op.par \in DOMAIN t /\ op.pos \in DOMAIN t[op.par].kids
  /\ t[op.par].kids[op.pos] = op.xid
  /\ op.move \in BOOLEAN /\ (op.move <=> op.xid \in DOMAIN u)
  /\ ~op.move =>
       /\ {m.xid : m \in op.content} = Travellers(e, t, op.xid)
       /\ \A m \in op.content : IsPart(e, t, num, m)
       /\ \A m, o \in op.content : m.xid = o.xid => m = o

(* One operation for each node that is cut. *)
IsScript(e, t, num, u, ops) ==
  /\ IsList(ops)
  /\ \A k \in DOMAIN ops : IsOp(e, t, num, u, ops[k])
  /\ \A k, l \in DOMAIN ops : ops[k].xid = ops[l].xid => k = l
  /\ \A z \in e.cut \cap DOMAIN t : \E k \in DOMAIN ops : ops[k].xid = z

(* What brings an operation's parent comes before it. *)
TopDown(e, ops) ==
  \A k \in DOMAIN ops : e.home[ops[k].par] \in e.cut =>
    \E h \in 1 .. (k - 1) : ops[h].xid = e.home[ops[k].par]

LeadsOver(e, d) ==
  /\ IsScript(e, e.old, e.oldNum, e.new, d.deletes)
  /\ IsScript(e, e.new, e.newNum, e.old, d.inserts)
  /\ TopDown(e, d.inserts)

-----------------------------------------------------------------------------
(* A tree of these nodes, with these of their children. *)
IsPartly(e, t, nodes, num, kidsOf) ==
  /\ t = [x \in nodes |-> Node(e.was[x], t[x].kids)]
  /\ \A x \in nodes : Lists(t[x].kids, kidsOf[x], num)

(* The children that stay below the node they are below. *)
KeptKids(e, t) == [x \in DOMAIN t |-> Apply!Kids(t, x) \ e.cut]

(* The nodes whose delete operations have not been done yet. *)
Undone(ops) == {ops[k].xid : k \in DOMAIN ops}

(* What is still in its old place, and what moveDocument has of it. *)
OldPlaces(e, undone) == {x \in DOMAIN e.old : e.home[x] \in undone \cup {e.top}}

OldKids(e, undone, x) == {c \in Apply!Kids(e.old, x) : c \in e.cut => c \in undone}

StillThere(e, undone, t) ==
  IsPartly(e, t, OldPlaces(e, undone), e.oldNum, [x \in DOMAIN e.old |-> OldKids(e, undone, x)])

TakenOut(e, undone, t) ==
  IsPartly(e, t, {x \in Both(e) : e.home[x] \notin undone \cup {e.top}}, e.oldNum,
           KeptKids(e, e.old))

(* The operations to come take a node out only after all that hangs below. *)
BottomUp(e, ops) ==
  /\ IsList(ops)
  /\ \A k \in DOMAIN ops : IsOp(e, e.old, e.oldNum, e.new, ops[k])
  /\ \A k, l \in DOMAIN ops : ops[k].xid = ops[l].xid => k = l
  /\ \A k, l \in DOMAIN ops : k < l => e.home[ops[l].par] # ops[k].xid
  /\ \A k \in DOMAIN ops : e.home[ops[k].par] \in Undone(ops) \cup {e.top}

Deleting(e, ops, t, moved, waiting) ==
  /\ BottomUp(e, ops)
  /\ StillThere(e, Undone(ops), t)
  /\ TakenOut(e, Undone(ops), moved)
  /\ waiting = (e.cut \cap Both(e)) \ Undone(ops)

(* The nodes that are still to come. *)
Missing(lists) == UNION {{lists[l][k].xid : k \in DOMAIN lists[l]} : l \in DOMAIN lists}

(* What is in its new place already, and what can be moved there. *)
NewPlaces(e, missing) == {x \in DOMAIN e.new : e.home[x] \notin missing}

AlreadyThere(e, missing, t) ==
  /\ IsPartly(e, t, NewPlaces(e, missing), e.newNum,
              [x \in DOMAIN e.new |-> Apply!Kids(e.new, x) \ missing])
  /\ \A x \in DOMAIN e.new :
       e.home[x] \in missing => Apply!Kids(e.new, x) \cap e.cut \subseteq missing

Movables(e) == {x \in Both(e) : e.home[x] # e.top}

Movable(e, t) == IsPartly(e, t, Movables(e), e.newNum, KeptKids(e, e.new))

(* One list for a parent, by position, that of its own parent's list before. *)
IsInsertList(e, ops) ==
  /\ IsList(ops) /\ ops # <<>>
  /\ \A k \in DOMAIN ops : IsOp(e, e.new, e.newNum, e.old, ops[k]) /\ ops[k].par = ops[1].par
  /\ \A h, k \in DOMAIN ops : h < k => ops[h].pos < ops[k].pos

ParentsFirst(e, lists) ==
  /\ IsList(lists)
  /\ \A l \in DOMAIN lists : IsInsertList(e, lists[l])
  /\ \A k, l \in DOMAIN lists : lists[k][1].par = lists[l][1].par => k = l
  /\ \A l \in DOMAIN lists : e.home[lists[l][1].par] \in Missing(lists) =>
       \E k \in 1 .. (l - 1) : \E h \in DOMAIN lists[k] :
         lists[k][h].xid = e.home[lists[l][1].par]

Inserting(e, lists, t, moved, waiting) ==
  /\ ParentsFirst(e, lists)
  /\ AlreadyThere(e, Missing(lists), t)
  /\ Movable(e, moved)
  /\ waiting = Missing(lists) \cap DOMAIN e.old

(* The parent of an operation is there, and so are the brothers before its place. *)
PlaceIsReady(e, missing, op) ==
  /\ e.home[op.par] \notin missing
  /\ \A q \in DOMAIN e.new[op.par].kids :
       q < op.pos => e.new[op.par].kids[q] \notin missing

(* The tree with an operation's node below its parent. *)
Grown(joined, t, op) ==
  [joined EXCEPT ![op.par].kids = Apply!InsertAt(t[op.par].kids, op.pos, op.xid)]

(* Its place existed, its nodes P are new, and the tree has grown towards e.new. *)
IsGrafted(e, missing, t, op, P, nodes, joined, grown) ==
  /\ op.par \in DOMAIN t /\ op.pos <= Len(t[op.par].kids) + 1
  /\ DOMAIN nodes = P /\ P \cap DOMAIN t = {}
  /\ joined[op.par] = t[op.par]
  /\ AlreadyThere(e, missing \ {op.xid}, grown)

-----------------------------------------------------------------------------
(* The list of children of a node is what there is to it besides its content. *)
LEMMA NodeFacts ==
  ASSUME NEW a, NEW s, NEW w
  PROVE  /\ Node(a, s).kids = s
         /\ [Node(a, s) EXCEPT !.kids = w] = Node(a, w)
PROOF
  BY DEF Node

(* A part of a tree, node by node. *)
LEMMA PartlyFacts ==
  ASSUME NEW e, NEW t, NEW nodes, NEW num, NEW kidsOf, IsPartly(e, t, nodes, num, kidsOf)
  PROVE  /\ DOMAIN t = nodes /\ t = [x \in DOMAIN t |-> t[x]]
         /\ \A x \in nodes : t[x] = Node(e.was[x], t[x].kids) /\ Lists(t[x].kids, kidsOf[x], num)
PROOF
  <1>1. t = [x \in nodes |-> Node(e.was[x], t[x].kids)]
    BY DEF IsPartly
  <1> HIDE DEF Node
  <1>2. DOMAIN t = nodes /\ \A x \in nodes : t[x] = Node(e.was[x], t[x].kids)
    BY <1>1, Zenon
  <1>3. t = [x \in DOMAIN t |-> t[x]]
    BY <1>1, <1>2, Zenon
  <1> QED
    BY <1>2, <1>3 DEF IsPartly

(* Nodes that are those expected, with lists that are, make such a tree. *)
LEMMA PartlyMade ==
  ASSUME NEW e, NEW t, NEW nodes, NEW num, NEW kidsOf,
         DOMAIN t = nodes, t = [x \in DOMAIN t |-> t[x]],
         \A x \in nodes : t[x] = Node(e.was[x], t[x].kids) /\ Lists(t[x].kids, kidsOf[x], num)
  PROVE  IsPartly(e, t, nodes, num, kidsOf)
PROOF
  <1> HIDE DEF Node
  <1>1. t = [x \in nodes |-> Node(e.was[x], t[x].kids)]
    OBVIOUS
  <1> QED
    BY <1>1 DEF IsPartly

(* Parts of a tree, put together of the children that belong there. *)
LEMMA PartlyForest ==
  ASSUME NEW e, NEW t, NEW nodes, NEW num, NEW kidsOf, IsPartly(e, t, nodes, num, kidsOf),
         NEW base, NEW n, IsForest(base, num, n), nodes \subseteq DOMAIN base,
         \A x \in nodes : kidsOf[x] \subseteq Apply!Kids(base, x) /\ kidsOf[x] \subseteq nodes
  PROVE  /\ IsForest(t, num, n) /\ DOMAIN t = nodes
         /\ \A x \in nodes : Apply!Kids(t, x) = kidsOf[x]
PROOF
  <1>1. DOMAIN t = nodes /\ \A x \in nodes : Lists(t[x].kids, kidsOf[x], num)
    BY PartlyFacts
  <1>2. \A x \in nodes : Apply!Kids(t, x) = kidsOf[x]
    BY <1>1, ListedKids
  <1>3. IsForest(t, num, n)
    <2>1. DOMAIN t \subseteq DOMAIN base
      BY <1>1
    <2>2. \A x \in DOMAIN t : /\ Apply!Kids(t, x) \subseteq Apply!Kids(base, x)
                              /\ Apply!Kids(t, x) \subseteq DOMAIN t
                              /\ Lists(t[x].kids, Apply!Kids(t, x), num)
      BY <1>1, <1>2
    <2> QED
      BY <2>1, <2>2, PartOfForest
  <1> QED
    BY <1>1, <1>2, <1>3

(* Two parts of a tree together. *)
LEMMA JoinedPartly ==
  ASSUME NEW e, NEW num, NEW t, NEW A, NEW f, IsPartly(e, t, A, num, f),
         NEW u, NEW B, NEW g, IsPartly(e, u, B, num, g), A \cap B = {},
         NEW h, \A x \in A : h[x] = f[x], \A x \in B : h[x] = g[x]
  PROVE  IsPartly(e, Apply!Joined(t, u), A \cup B, num, h)
PROOF
  <1> DEFINE w == Apply!Joined(t, u)
  <1>1. /\ DOMAIN t = A /\ DOMAIN u = B
        /\ \A x \in A : t[x] = Node(e.was[x], t[x].kids) /\ Lists(t[x].kids, f[x], num)
        /\ \A x \in B : u[x] = Node(e.was[x], u[x].kids) /\ Lists(u[x].kids, g[x], num)
    BY PartlyFacts
  <1>2. DOMAIN w = A \cup B /\ w = [x \in DOMAIN w |-> w[x]]
    BY <1>1 DEF Apply!Joined
  <1>3. \A x \in A : w[x] = t[x]
    BY <1>1 DEF Apply!Joined
  <1>4. \A x \in B : w[x] = u[x]
    BY <1>1 DEF Apply!Joined
  <1> HIDE DEF w
  <1>5. \A x \in A \cup B : w[x] = Node(e.was[x], w[x].kids) /\ Lists(w[x].kids, h[x], num)
    BY <1>1, <1>3, <1>4
  <1>6. IsPartly(e, w, A \cup B, num, h)
    BY <1>2, <1>5, PartlyMade
  <1> QED
    BY <1>6 DEF w

(* Some of the nodes of a part, copied. *)
LEMMA CopiedPartly ==
  ASSUME NEW e, NEW num, NEW t, NEW A, NEW f, IsPartly(e, t, A, num, f),
         NEW B, B \subseteq A, NEW g, \A x \in B : g[x] = f[x]
  PROVE  IsPartly(e, [y \in B |-> t[y]], B, num, g)
PROOF
  <1> DEFINE w == [y \in B |-> t[y]]
  <1>1. DOMAIN w = B /\ w = [x \in DOMAIN w |-> w[x]] /\ \A x \in B : w[x] = t[x]
    OBVIOUS
  <1> HIDE DEF w
  <1>2. \A x \in B : w[x] = Node(e.was[x], w[x].kids) /\ Lists(w[x].kids, g[x], num)
    BY <1>1, SMTT(30) DEF IsPartly
  <1>3. IsPartly(e, w, B, num, g)
    BY <1>1, <1>2, PartlyMade
  <1> QED
    BY <1>3 DEF w

(* A part without some nodes. *)
LEMMA WithoutPartly ==
  ASSUME NEW e, NEW num, NEW t, NEW A, NEW f, IsPartly(e, t, A, num, f),
         NEW xids, NEW g, \A x \in A \ xids : g[x] = f[x] \ xids
  PROVE  IsPartly(e, Apply!Without(t, xids), A \ xids, num, g)
PROOF
  <1> DEFINE w == Apply!Without(t, xids)
             Places(x) == {p \in DOMAIN t[x].kids : t[x].kids[p] \notin xids}
  <1>1. DOMAIN t = A /\ \A x \in A : t[x] = Node(e.was[x], t[x].kids) /\ Lists(t[x].kids, f[x], num)
    BY PartlyFacts
  <1>2. DOMAIN w = A \ xids /\ w = [x \in DOMAIN w |-> w[x]]
    BY <1>1 DEF Apply!Without
  <1>3. \A x \in A \ xids : w[x] = [t[x] EXCEPT !.kids = Apply!AtPlaces(t[x].kids, Places(x))]
    BY <1>1 DEF Apply!Without
  <1>4. ASSUME NEW x \in A \ xids
        PROVE  w[x] = Node(e.was[x], w[x].kids) /\ Lists(w[x].kids, g[x], num)
    <2> DEFINE s == t[x].kids
               P == Places(x)
               q == Apply!AtPlaces(s, P)
    <2>1. t[x] = Node(e.was[x], s) /\ Lists(s, f[x], num) /\ g[x] = f[x] \ xids
      BY <1>1
    <2>2. w[x] = [t[x] EXCEPT !.kids = q]
      BY <1>3
    <2>3. P = {p \in DOMAIN s : s[p] \notin xids}
      OBVIOUS
    <2> HIDE DEF w, s, P
    <2>4. Lists(q, {s[p] : p \in P}, num)
      BY <2>1, <2>3, PickedLists
    <2>5. {s[p] : p \in P} = f[x] \ xids
      <3>1. /\ DOMAIN s = 1 .. Len(s) /\ \A k \in 1 .. Len(s) : s[k] \in f[x]
            /\ \A a \in f[x] : \E k \in 1 .. Len(s) : s[k] = a
        BY <2>1, ListFacts
      <3> QED
        BY <2>3, <3>1
    <2> HIDE DEF q
    <2>6. w[x] = Node(e.was[x], q)
      BY <2>1, <2>2, NodeFacts
    <2>7. w[x].kids = q
      BY <2>6, NodeFacts
    <2> QED
      BY <2>1, <2>4, <2>5, <2>6, <2>7
  <1> HIDE DEF w
  <1>5. IsPartly(e, w, A \ xids, num, g)
    BY <1>2, <1>4, PartlyMade
  <1> QED
    BY <1>5 DEF w

(* A part in which one node has one child more. *)
LEMMA GraftedPartly ==
  ASSUME NEW e, NEW num, NEW t, NEW A, NEW f, IsPartly(e, t, A, num, f), NEW par \in A,
         NEW w, NEW C, Lists(w, C, num),
         NEW g, \A x \in A \ {par} : g[x] = f[x], g[par] = C
  PROVE  IsPartly(e, [t EXCEPT ![par].kids = w], A, num, g)
PROOF
  <1> DEFINE u == [t EXCEPT ![par].kids = w]
  <1>1. DOMAIN t = A /\ \A x \in A : t[x] = Node(e.was[x], t[x].kids) /\ Lists(t[x].kids, f[x], num)
    BY PartlyFacts
  <1>2. DOMAIN u = A /\ t = [x \in DOMAIN t |-> t[x]]
    BY <1>1, PartlyFacts
  <1>7. /\ u = [x \in DOMAIN u |-> u[x]] /\ u[par] = [t[par] EXCEPT !.kids = w]
        /\ \A x \in A \ {par} : u[x] = t[x]
    BY <1>1, <1>2
  <1> HIDE DEF u
  <1>3. u[par] = Node(e.was[par], w)
    BY <1>1, <1>7, NodeFacts
  <1>4. u[par] = Node(e.was[par], u[par].kids) /\ Lists(u[par].kids, g[par], num)
    BY <1>3, NodeFacts
  <1>5. \A x \in A : u[x] = Node(e.was[x], u[x].kids) /\ Lists(u[x].kids, g[x], num)
    BY <1>1, <1>7, <1>4
  <1>6. IsPartly(e, u, A, num, g)
    BY <1>2, <1>7, <1>5, PartlyMade
  <1> QED
    BY <1>6 DEF u

(* The whole of a tree is there once, in one way. *)
LEMMA PartlyAll ==
  ASSUME NEW e, NEW t, NEW num, NEW kidsOf, NEW base, NEW n, Grows(base, num, n),
         IsPartly(e, t, DOMAIN base, num, kidsOf),
         \A x \in DOMAIN base : kidsOf[x] = Apply!Kids(base, x)
  PROVE  t = [x \in DOMAIN base |-> Node(e.was[x], base[x].kids)]
PROOF
  <1>1. ASSUME NEW x \in DOMAIN base
        PROVE  t[x] = Node(e.was[x], base[x].kids)
    <2>1. Lists(base[x].kids, Apply!Kids(base, x), num)
      BY DEF Grows
    <2>2. t[x] = Node(e.was[x], t[x].kids) /\ Lists(t[x].kids, Apply!Kids(base, x), num)
      BY PartlyFacts
    <2>3. t[x].kids = base[x].kids
      BY <2>1, <2>2, ListedOnce
    <2> QED
      BY <2>2, <2>3
  <1>2. DOMAIN t = DOMAIN base /\ t = [x \in DOMAIN t |-> t[x]]
    BY PartlyFacts
  <1> QED
    BY <1>1, <1>2

-----------------------------------------------------------------------------
(* Places in a list. *)
LEMMA ListDomain ==
  ASSUME NEW s, IsList(s)
  PROVE  /\ Len(s) \in Nat /\ DOMAIN s = 1 .. Len(s)
         /\ s # <<>> => Len(s) # 0 /\ 1 \in DOMAIN s /\ Head(s) = s[1]
PROOF
  <1> DEFINE R == {s[k] : k \in DOMAIN s}
  <1>1. s \in Seq(R)
    BY DEF IsList
  <1> HIDE DEF R
  <1>2. Len(s) \in Nat /\ DOMAIN s = 1 .. Len(s) /\ (s # <<>> => Len(s) # 0 /\ Head(s) = s[1])
    BY <1>1
  <1> QED
    BY <1>2

(* A sequence is a list of its own elements. *)
LEMMA OwnList ==
  ASSUME NEW R, NEW s \in Seq(R)
  PROVE  IsList(s) /\ s = [k \in DOMAIN s |-> s[k]]
PROOF
  <1> DEFINE Q == {s[k] : k \in DOMAIN s}
  <1>1. Len(s) \in Nat /\ DOMAIN s = 1 .. Len(s) /\ s = [k \in 1 .. Len(s) |-> s[k]]
    OBVIOUS
  <1>2. \A k \in 1 .. Len(s) : s[k] \in Q
    BY <1>1
  <1> HIDE DEF Q
  <1>3. s \in Seq(Q)
    BY <1>1, <1>2
  <1> QED
    BY <1>1, <1>3 DEF Q, IsList

(* What travels with z: all that hangs below it. *)
LEMMA TravellersBelow ==
  ASSUME NEW e, NEW base, NEW num, IsSide(e, base, num),
         NEW t, IsForest(t, num, e.n), NEW z \in e.cut, z \in DOMAIN t,
         NEW P, P = Travellers(e, base, z), P \subseteq DOMAIN t, z \in DOMAIN base,
         \A x \in P : Apply!Kids(t, x) = Apply!Kids(base, x) \ e.cut
  PROVE  Apply!Below(t, z) = P
PROOF
  <1>1. Grows(t, num, e.n) /\ Grows(base, num, e.n)
    BY DEF IsSide, IsForest
  <1>2. z \in P /\ z # e.top /\ P = {y \in DOMAIN base : e.home[y] = z}
    BY DEF IsSide, Travellers
  <1>3. ASSUME NEW x \in P
        PROVE  Apply!Kids(t, x) \subseteq P
    <2>1. Apply!Kids(base, x) \subseteq DOMAIN base
      BY <1>1, <1>2 DEF Grows
    <2> QED
      BY <1>2, <2>1 DEF IsSide
  <1>4. ASSUME NEW x \in P \ {z}
        PROVE  \E p \in P : x \in Apply!Kids(t, p)
    <2>1. x \in DOMAIN base /\ e.home[x] = z /\ x \notin e.cut /\ x # e.top
      BY <1>2 DEF IsSide
    <2>2. PICK p \in DOMAIN base : x \in Apply!Kids(base, p)
      BY <2>1 DEF IsSide, IsRooted
    <2>3. e.home[p] = z
      BY <2>1, <2>2 DEF IsSide
    <2> QED
      BY <1>2, <2>1, <2>2, <2>3
  <1> QED
    BY <1>1, <1>2, <1>3, <1>4, BelowIs

(* The parent of an operation's node does not travel with the node. *)
LEMMA ParentIsNotBelow ==
  ASSUME NEW e, NEW t, NEW num, IsSide(e, t, num), NEW u, NEW op, IsOp(e, t, num, u, op)
  PROVE  /\ op.xid \in Apply!Kids(t, op.par)
         /\ e.home[op.par] # op.xid
PROOF
  <1>1. op.par \in DOMAIN t /\ op.xid = t[op.par].kids[op.pos] /\ op.pos \in DOMAIN t[op.par].kids
    BY DEF IsOp
  <1>2. op.xid \in Apply!Kids(t, op.par)
    BY <1>1 DEF Apply!Kids, Apply!Range
  <1>3. Grows(t, num, e.n)
    BY DEF IsSide, IsForest
  <1>4. op.xid \in DOMAIN t /\ num[op.xid] < num[op.par] /\ num[op.xid] \in Nat /\ num[op.par] \in Nat
    BY <1>1, <1>2, <1>3, NumbersRank
  <1>5. e.home[op.par] \in DOMAIN t /\ num[op.par] <= num[e.home[op.par]]
    BY <1>1 DEF IsSide
  <1>6. num[e.home[op.par]] \in Nat
    BY <1>3, <1>5, NumbersRank
  <1> QED
    BY <1>2, <1>4, <1>5, <1>6

(* A node hangs below one other only, so its operation names that one. *)
LEMMA ParentIsNamed ==
  ASSUME NEW e, NEW t, NEW num, IsSide(e, t, num), NEW u, NEW op, IsOp(e, t, num, u, op),
         NEW p \in DOMAIN t, op.xid \in Apply!Kids(t, p)
  PROVE  op.par = p
PROOF
  <1>1. op.par \in DOMAIN t
    BY DEF IsOp
  <1>2. op.xid \in Apply!Kids(t, op.par)
    BY ParentIsNotBelow
  <1> QED
    BY <1>1, <1>2 DEF IsSide, IsForest

(* The first of a bottom-up list: nothing is left to do below its node. *)
LEMMA FirstIsLowest ==
  ASSUME NEW e, IsEdit(e), NEW ops, BottomUp(e, ops), ops # <<>>, NEW z, z = Head(ops).xid
  PROVE  /\ IsOp(e, e.old, e.oldNum, e.new, Head(ops)) /\ z \in e.cut /\ z \in DOMAIN e.old
         /\ z \in Undone(ops) /\ Undone(Tail(ops)) = Undone(ops) \ {z}
         /\ BottomUp(e, Tail(ops))
         /\ \A x \in DOMAIN e.old : e.home[x] = z =>
              \A c \in Apply!Kids(e.old, x) : c \notin Undone(ops)
PROOF
  <1> DEFINE R == {ops[k] : k \in DOMAIN ops}
             rest == Tail(ops)
  <1>1. ops \in Seq(R) /\ Len(ops) \in Nat /\ Len(ops) # 0 /\ DOMAIN ops = 1 .. Len(ops)
    <2>1. ops \in Seq(R)
      BY DEF BottomUp, IsList
    <2> HIDE DEF R
    <2> QED
      BY <2>1
  <1>2. Head(ops) = ops[1] /\ 1 \in DOMAIN ops /\ z = ops[1].xid
    <2> HIDE DEF R
    <2> QED
      BY <1>1
  <1>3. /\ rest \in Seq(R) /\ DOMAIN rest = 1 .. (Len(ops) - 1)
        /\ \A k \in 1 .. (Len(ops) - 1) : rest[k] = ops[k + 1] /\ k + 1 \in DOMAIN ops
    <2> HIDE DEF R
    <2> QED
      BY <1>1
  <1>4. \A k \in DOMAIN ops : k = 1 \/ (k - 1 \in DOMAIN rest /\ rest[k - 1] = ops[k])
    <2>1. \A k \in DOMAIN ops : k = 1 \/ (k - 1 \in 1 .. (Len(ops) - 1) /\ (k - 1) + 1 = k)
      BY <1>1
    <2> QED
      BY <1>3, <2>1
  <1> HIDE DEF rest
  <1>5. /\ \A k \in DOMAIN ops : IsOp(e, e.old, e.oldNum, e.new, ops[k])
        /\ \A k, l \in DOMAIN ops : ops[k].xid = ops[l].xid => k = l
        /\ \A k, l \in DOMAIN ops : k < l => e.home[ops[l].par] # ops[k].xid
        /\ \A k \in DOMAIN ops : e.home[ops[k].par] \in Undone(ops) \cup {e.top}
    BY DEF BottomUp
  <1>6. /\ IsOp(e, e.old, e.oldNum, e.new, ops[1]) /\ z \in e.cut /\ z \in DOMAIN e.old
        /\ z \in Undone(ops)
    BY <1>2, <1>5 DEF IsOp, Undone
  <1>7. \A k \in DOMAIN rest : k + 1 \in DOMAIN ops /\ k + 1 # 1 /\ rest[k] = ops[k + 1]
    BY <1>3
  <1>8. Undone(rest) = Undone(ops) \ {z}
    <2>1. Undone(rest) \subseteq Undone(ops) \ {z}
      BY <1>2, <1>5, <1>7 DEF Undone
    <2>2. Undone(ops) \ {z} \subseteq Undone(rest)
      BY <1>2, <1>4 DEF Undone
    <2> QED
      BY <2>1, <2>2
  <1>9. \A k \in DOMAIN ops : e.home[ops[k].par] # z
    <2>1. e.home[ops[1].par] # z
      BY <1>2, <1>6, ParentIsNotBelow DEF IsEdit
    <2>2. \A k \in DOMAIN ops : k = 1 \/ 1 < k
      BY <1>1
    <2> QED
      BY <1>2, <1>5, <2>1, <2>2
  <1>10. BottomUp(e, rest)
    <2>1. IsList(rest)
      <3>1. rest = [k \in 1 .. (Len(ops) - 1) |-> rest[k]] /\ Len(ops) - 1 \in Nat
        BY <1>1, <1>3
      <3>2. \A k \in 1 .. (Len(ops) - 1) : rest[k] \in {rest[l] : l \in DOMAIN rest}
        BY <1>3
      <3> DEFINE Q == {rest[l] : l \in DOMAIN rest}
      <3> HIDE DEF Q
      <3> QED
        BY <3>1, <3>2 DEF Q, IsList
    <2>2. \A k \in DOMAIN rest : IsOp(e, e.old, e.oldNum, e.new, rest[k])
      BY <1>5, <1>7
    <2>3. \A k, l \in DOMAIN rest : rest[k].xid = rest[l].xid => k = l
      <3>1. \A k, l \in DOMAIN rest : rest[k].xid = rest[l].xid => k + 1 = l + 1
        BY <1>5, <1>7
      <3> QED
        BY <1>3, <3>1
    <2>4. \A k, l \in DOMAIN rest : k < l => e.home[rest[l].par] # rest[k].xid
      <3>1. \A k, l \in DOMAIN rest : k < l => k + 1 < l + 1
        BY <1>3
      <3> QED
        BY <1>5, <1>7, <3>1
    <2>5. \A k \in DOMAIN rest : e.home[rest[k].par] \in Undone(rest) \cup {e.top}
      BY <1>5, <1>7, <1>8, <1>9
    <2> QED
      BY <2>1, <2>2, <2>3, <2>4, <2>5 DEF BottomUp
  <1>11. ASSUME NEW x \in DOMAIN e.old, e.home[x] = z, NEW c \in Apply!Kids(e.old, x), c \in Undone(ops)
         PROVE  FALSE
    <2>1. PICK k \in DOMAIN ops : c = ops[k].xid
      BY <1>11 DEF Undone
    <2>2. ops[k].par = x
      BY <1>5, <1>11, <2>1, ParentIsNamed DEF IsEdit
    <2> QED
      BY <1>9, <1>11, <2>2
  <1> QED
    BY <1>2, <1>6, <1>8, <1>10, <1>11 DEF rest

(* What is still in its old place is a part of the old tree. *)
LEMMA StillThereForest ==
  ASSUME NEW e, IsEdit(e), NEW undone, undone \subseteq e.cut \cap DOMAIN e.old,
         NEW t, StillThere(e, undone, t)
  PROVE  /\ IsForest(t, e.oldNum, e.n)
         /\ DOMAIN t = OldPlaces(e, undone)
         /\ \A x \in DOMAIN t : Apply!Kids(t, x) = OldKids(e, undone, x)
PROOF
  <1> DEFINE nodes == OldPlaces(e, undone)
             kidsOf == [x \in DOMAIN e.old |-> OldKids(e, undone, x)]
  <1>1. IsPartly(e, t, nodes, e.oldNum, kidsOf)
    BY DEF StillThere
  <1>2. IsSide(e, e.old, e.oldNum)
    BY DEF IsEdit
  <1>3. Grows(e.old, e.oldNum, e.n) /\ IsForest(e.old, e.oldNum, e.n)
    BY <1>2 DEF IsSide, IsForest
  <1>4. nodes \subseteq DOMAIN e.old
    BY DEF OldPlaces
  <1>5. ASSUME NEW x \in nodes
        PROVE  kidsOf[x] \subseteq Apply!Kids(e.old, x) /\ kidsOf[x] \subseteq nodes
    <2>1. kidsOf[x] = OldKids(e, undone, x)
      BY <1>4
    <2>2. Apply!Kids(e.old, x) \subseteq DOMAIN e.old
      BY <1>3, <1>4 DEF Grows
    <2>3. \A c \in undone : e.home[c] = c
      BY <1>2 DEF IsSide
    <2>4. \A c \in Apply!Kids(e.old, x) \ e.cut : e.home[c] = e.home[x]
      BY <1>2, <1>4 DEF IsSide
    <2> HIDE DEF kidsOf
    <2> QED
      BY <2>1, <2>2, <2>3, <2>4 DEF OldPlaces, OldKids
  <1>6. \A x \in nodes : kidsOf[x] = OldKids(e, undone, x)
    BY <1>4
  <1> HIDE DEF nodes, kidsOf
  <1>7. /\ IsForest(t, e.oldNum, e.n) /\ DOMAIN t = nodes
        /\ \A x \in nodes : Apply!Kids(t, x) = kidsOf[x]
    BY <1>1, <1>3, <1>4, <1>5, PartlyForest
  <1> QED
    BY <1>6, <1>7 DEF nodes

(* The document without what travels with z, when nothing is left to do below. *)
LEMMA UprootedStillThere ==
  ASSUME NEW e, IsEdit(e), NEW undone, undone \subseteq e.cut \cap DOMAIN e.old,
         NEW t, StillThere(e, undone, t), NEW z \in undone,
         NEW P, P = Travellers(e, e.old, z)
  PROVE  StillThere(e, undone \ {z}, Apply!Without(t, P))
PROOF
  <1> DEFINE A == OldPlaces(e, undone)
             B == OldPlaces(e, undone \ {z})
             f == [x \in DOMAIN e.old |-> OldKids(e, undone, x)]
             g == [x \in DOMAIN e.old |-> OldKids(e, undone \ {z}, x)]
  <1>1. IsPartly(e, t, A, e.oldNum, f)
    BY DEF StillThere
  <1>2. IsSide(e, e.old, e.oldNum)
    BY DEF IsEdit
  <1>3. Grows(e.old, e.oldNum, e.n)
    BY <1>2 DEF IsSide, IsForest
  <1>4. z # e.top /\ e.home[z] = z /\ z \in e.cut
    BY <1>2 DEF IsSide
  <1>5. A \ P = B
    BY <1>4 DEF OldPlaces, Travellers
  <1>6. ASSUME NEW x \in A \ P
        PROVE  g[x] = f[x] \ P
    <2>1. x \in DOMAIN e.old /\ e.home[x] # z
      BY DEF OldPlaces, Travellers
    <2>2. Apply!Kids(e.old, x) \subseteq DOMAIN e.old
      BY <1>3, <2>1 DEF Grows
    <2>3. \A c \in Apply!Kids(e.old, x) : c \in e.cut => e.home[c] = c
      BY <1>2 DEF IsSide
    <2>4. \A c \in Apply!Kids(e.old, x) : c \notin e.cut => e.home[c] # z
      BY <1>2, <2>1 DEF IsSide
    <2>5. \A c \in Apply!Kids(e.old, x) : c \in P <=> c = z
      BY <1>4, <2>2, <2>3, <2>4 DEF Travellers
    <2>6. /\ f[x] = {c \in Apply!Kids(e.old, x) : c \in e.cut => c \in undone}
          /\ g[x] = {c \in Apply!Kids(e.old, x) : c \in e.cut => c \in undone \ {z}}
      BY <2>1 DEF OldKids
    <2> HIDE DEF f, g
    <2> QED
      BY <1>4, <2>5, <2>6
  <1> HIDE DEF A, f, g
  <1>7. IsPartly(e, Apply!Without(t, P), A \ P, e.oldNum, g)
    BY <1>1, <1>6, WithoutPartly
  <1> QED
    BY <1>5, <1>7 DEF StillThere, g

(* What moveDocument has when z has been moved there. *)
LEMMA UprootedTakenOut ==
  ASSUME NEW e, IsEdit(e), NEW undone, undone \subseteq e.cut \cap DOMAIN e.old,
         NEW t, StillThere(e, undone, t), NEW moved, TakenOut(e, undone, moved),
         NEW z \in undone, z \in DOMAIN e.new,
         NEW P, P = Travellers(e, e.old, z),
         \A x \in P : \A c \in Apply!Kids(e.old, x) : c \notin undone
  PROVE  /\ P \cap DOMAIN moved = {}
         /\ TakenOut(e, undone \ {z}, Apply!Joined(moved, [y \in P |-> t[y]]))
PROOF
  <1> DEFINE A == {x \in Both(e) : e.home[x] \notin undone \cup {e.top}}
             B == {x \in Both(e) : e.home[x] \notin (undone \ {z}) \cup {e.top}}
             N == OldPlaces(e, undone)
             f == [x \in DOMAIN e.old |-> OldKids(e, undone, x)]
             h == KeptKids(e, e.old)
             u == [y \in P |-> t[y]]
  <1>1. IsPartly(e, t, N, e.oldNum, f)
    BY DEF StillThere
  <1>2. IsPartly(e, moved, A, e.oldNum, h)
    BY DEF TakenOut
  <1>3. IsSide(e, e.old, e.oldNum)
    BY DEF IsEdit
  <1>4. z # e.top /\ e.home[z] = z /\ z \in e.cut
    BY <1>3 DEF IsSide
  <1>5. P \subseteq Both(e)
    BY DEF IsEdit, Both, Travellers
  <1>6. P \cap A = {} /\ A \cup P = B /\ P \subseteq N
    BY <1>4, <1>5 DEF Both, OldPlaces, Travellers
  <1>7. \A x \in P : h[x] = f[x]
    <2>1. ASSUME NEW x \in P
          PROVE  h[x] = f[x]
      <3>1. x \in DOMAIN e.old /\ \A c \in Apply!Kids(e.old, x) : c \notin undone
        BY DEF Travellers
      <3>2. h[x] = Apply!Kids(e.old, x) \ e.cut
        BY <3>1 DEF KeptKids
      <3>3. f[x] = {c \in Apply!Kids(e.old, x) : c \in e.cut => c \in undone}
        BY <3>1 DEF OldKids
      <3> QED
        BY <3>1, <3>2, <3>3
    <2> QED
      BY <2>1
  <1>8. DOMAIN moved = A
    BY <1>2, PartlyFacts
  <1> HIDE DEF A, B, N, f, h, u
  <1>9. IsPartly(e, u, P, e.oldNum, h)
    BY <1>1, <1>6, <1>7, CopiedPartly DEF u
  <1>10. A \cap P = {}
    BY <1>6
  <1>11. IsPartly(e, Apply!Joined(moved, u), A \cup P, e.oldNum, h)
    BY <1>2, <1>9, <1>10, JoinedPartly
  <1>12. IsPartly(e, Apply!Joined(moved, u), B, e.oldNum, h)
    BY <1>6, <1>11
  <1> QED
    BY <1>6, <1>8, <1>12 DEF TakenOut, B, h, u

(* The same for a node that is deleted: it was never to be moved. *)
LEMMA DeletedTakenOut ==
  ASSUME NEW e, IsEdit(e), NEW undone, NEW moved, TakenOut(e, undone, moved),
         NEW z \in undone, z \in DOMAIN e.old, z \notin DOMAIN e.new
  PROVE  TakenOut(e, undone \ {z}, moved)
PROOF
  <1>1. \A x \in Both(e) : e.home[x] # z
    BY DEF IsEdit, Both
  <1>2. {x \in Both(e) : e.home[x] \notin undone \cup {e.top}}
          = {x \in Both(e) : e.home[x] \notin (undone \ {z}) \cup {e.top}}
    BY <1>1
  <1> QED
    BY <1>2 DEF TakenOut

(***************************************************************************)
(* One delete operation: what it names is there, nothing throws, and the   *)
(* rest of the operations find what they need.                             *)
(***************************************************************************)
LEMMA DeleteStep ==
  ASSUME NEW e, IsEdit(e), NEW ops, NEW t, NEW moved, NEW waiting,
         Deleting(e, ops, t, moved, waiting), ops # <<>>, NEW op, op = Head(ops),
         NEW P, P = Travellers(e, e.old, op.xid)
  PROVE  /\ op.move \in BOOLEAN /\ op.xid \in DOMAIN t /\ op.xid # e.top /\ P \subseteq DOMAIN t
         /\ op.move => /\ Apply!Below(t, op.xid) = P
                       /\ P \cap DOMAIN moved = {}
                       /\ Deleting(e, Tail(ops), Apply!Without(t, P),
                                   Apply!Joined(moved, [y \in P |-> t[y]]), waiting \cup {op.xid})
         /\ ~op.move => /\ {m.xid : m \in op.content} = P
                        /\ Deleting(e, Tail(ops), Apply!Without(t, P), moved, waiting)
PROOF
  <1> DEFINE z == op.xid
             undone == Undone(ops)
  <1>1. BottomUp(e, ops) /\ StillThere(e, undone, t) /\ TakenOut(e, undone, moved)
        /\ waiting = (e.cut \cap Both(e)) \ undone
    BY DEF Deleting
  <1>2. /\ IsOp(e, e.old, e.oldNum, e.new, op) /\ z \in e.cut /\ z \in DOMAIN e.old
        /\ z \in undone /\ Undone(Tail(ops)) = undone \ {z}
        /\ BottomUp(e, Tail(ops))
        /\ \A x \in DOMAIN e.old : e.home[x] = z => \A c \in Apply!Kids(e.old, x) : c \notin undone
    BY <1>1, FirstIsLowest
  <1>3. undone \subseteq e.cut \cap DOMAIN e.old
    BY <1>1 DEF BottomUp, IsOp, Undone
  <1>4. IsSide(e, e.old, e.oldNum) /\ z # e.top /\ e.home[z] = z
    BY <1>2 DEF IsEdit, IsSide
  <1> HIDE DEF undone
  <1>5. /\ IsForest(t, e.oldNum, e.n)
        /\ DOMAIN t = OldPlaces(e, undone)
        /\ \A x \in DOMAIN t : Apply!Kids(t, x) = OldKids(e, undone, x)
    <2>1. StillThere(e, undone, t)
      BY <1>1
    <2> QED
      BY <1>3, <2>1, StillThereForest
  <1>6. P \subseteq DOMAIN t /\ z \in P
    BY <1>2, <1>4, <1>5 DEF OldPlaces, Travellers
  <1>7. \A x \in P : Apply!Kids(t, x) = Apply!Kids(e.old, x) \ e.cut
    BY <1>2, <1>5, <1>6 DEF OldKids, Travellers
  <1>8. Apply!Below(t, z) = P
    <2>1. z \in e.cut /\ z \in DOMAIN t /\ z \in DOMAIN e.old /\ IsForest(t, e.oldNum, e.n)
      BY <1>2, <1>5, <1>6
    <2>2. IsSide(e, e.old, e.oldNum)
      BY <1>4
    <2> HIDE DEF z
    <2>3. P = Travellers(e, e.old, z)
      BY DEF z
    <2> QED
      BY <1>6, <1>7, <2>1, <2>2, <2>3, TravellersBelow
  <1>9. StillThere(e, undone \ {z}, Apply!Without(t, P))
    BY <1>1, <1>2, <1>3, UprootedStillThere
  <1>10. op.move \in BOOLEAN /\ (op.move <=> z \in DOMAIN e.new)
    BY <1>2 DEF IsOp
  <1>11. ASSUME op.move
         PROVE  /\ P \cap DOMAIN moved = {}
                /\ Deleting(e, Tail(ops), Apply!Without(t, P),
                            Apply!Joined(moved, [y \in P |-> t[y]]), waiting \cup {z})
    <2>1. /\ P \cap DOMAIN moved = {}
          /\ TakenOut(e, undone \ {z}, Apply!Joined(moved, [y \in P |-> t[y]]))
      <3>1. \A x \in P : \A c \in Apply!Kids(e.old, x) : c \notin undone
        BY <1>2 DEF Travellers
      <3>2. z \in DOMAIN e.new
        BY <1>10, <1>11
      <3> QED
        <4>1. StillThere(e, undone, t) /\ TakenOut(e, undone, moved) /\ z \in undone
          BY <1>1, <1>2
        <4> HIDE DEF z
        <4>2. P = Travellers(e, e.old, z)
          BY DEF z
        <4> QED
          BY <1>3, <3>1, <3>2, <4>1, <4>2, UprootedTakenOut
    <2>2. waiting \cup {z} = (e.cut \cap Both(e)) \ (undone \ {z})
      BY <1>1, <1>2, <1>10, <1>11 DEF Both
    <2> QED
      BY <1>2, <1>9, <2>1, <2>2 DEF Deleting
  <1>12. ASSUME ~op.move
         PROVE  /\ {m.xid : m \in op.content} = P
                /\ Deleting(e, Tail(ops), Apply!Without(t, P), moved, waiting)
    <2>1. {m.xid : m \in op.content} = P
      BY <1>2, <1>12 DEF IsOp
    <2>2. TakenOut(e, undone \ {z}, moved)
      <3>1. z \notin DOMAIN e.new
        BY <1>10, <1>12
      <3> QED
        BY <1>1, <1>2, <3>1, DeletedTakenOut
    <2>3. waiting = (e.cut \cap Both(e)) \ (undone \ {z})
      BY <1>1, <1>10, <1>12 DEF Both
    <2> QED
      BY <1>2, <1>9, <2>1, <2>2, <2>3 DEF Deleting
  <1> QED
    BY <1>4, <1>6, <1>8, <1>10, <1>11, <1>12

(* Every node is inserted by one operation of one list. *)
LEMMA InsertedByOne ==
  ASSUME NEW e, IsEdit(e), NEW lists, ParentsFirst(e, lists),
         NEW l \in DOMAIN lists, NEW h \in DOMAIN lists[l],
         NEW m \in DOMAIN lists, NEW k \in DOMAIN lists[m],
         lists[l][h].par = lists[m][k].par, lists[l][h].pos = lists[m][k].pos
  PROVE  l = m /\ h = k
PROOF
  <1>1. IsInsertList(e, lists[l]) /\ IsInsertList(e, lists[m])
    BY DEF ParentsFirst
  <1>2. lists[l][1].par = lists[m][1].par
    BY <1>1 DEF IsInsertList
  <1>3. l = m
    BY <1>2 DEF ParentsFirst
  <1>4. h \in Nat /\ k \in Nat
    BY <1>1, ListDomain DEF IsInsertList
  <1>5. lists[l][h].pos \in Nat
    <2>1. IsOp(e, e.new, e.newNum, e.old, lists[l][h])
      BY <1>1 DEF IsInsertList
    <2>2. Grows(e.new, e.newNum, e.n)
      BY DEF IsEdit, IsSide, IsForest
    <2>3. lists[l][h].par \in DOMAIN e.new
          /\ lists[l][h].pos \in DOMAIN e.new[lists[l][h].par].kids
      BY <2>1 DEF IsOp
    <2> QED
      BY <2>2, <2>3, ListFacts DEF Grows
  <1>6. ~(h < k) /\ ~(k < h)
    BY <1>1, <1>3, <1>5 DEF IsInsertList
  <1> QED
    BY <1>3, <1>4, <1>6

(* Operations that bring one node are one operation. *)
LEMMA BroughtByOne ==
  ASSUME NEW e, IsEdit(e), NEW lists, ParentsFirst(e, lists),
         NEW l \in DOMAIN lists, NEW h \in DOMAIN lists[l],
         NEW m \in DOMAIN lists, NEW k \in DOMAIN lists[m],
         lists[l][h].xid = lists[m][k].xid
  PROVE  l = m /\ h = k
PROOF
  <1> DEFINE a == lists[l][h]
             b == lists[m][k]
  <1>1. IsOp(e, e.new, e.newNum, e.old, a) /\ IsOp(e, e.new, e.newNum, e.old, b)
    BY DEF ParentsFirst, IsInsertList
  <1>2. IsSide(e, e.new, e.newNum)
    BY DEF IsEdit
  <1>3. a.xid = b.xid
    OBVIOUS
  <1> HIDE DEF a, b
  <1>4. a.par = b.par
    <2>1. b.xid \in Apply!Kids(e.new, b.par) /\ b.par \in DOMAIN e.new
      BY <1>1, <1>2, ParentIsNotBelow DEF IsOp
    <2> QED
      BY <1>1, <1>2, <1>3, <2>1, ParentIsNamed
  <1>5. a.pos = b.pos
    <2> DEFINE s == e.new[a.par].kids
               A == Apply!Kids(e.new, a.par)
    <2>1. a.par \in DOMAIN e.new /\ a.pos \in DOMAIN s /\ b.pos \in DOMAIN s /\ s[a.pos] = s[b.pos]
      BY <1>1, <1>3, <1>4 DEF IsOp
    <2>2. Lists(s, A, e.newNum)
      BY <1>2, <2>1 DEF IsSide, IsForest, Grows
    <2> HIDE DEF s, A
    <2>3. DOMAIN s = 1 .. Len(s) /\ \A i, j \in 1 .. Len(s) : s[i] = s[j] => i = j
      BY <2>2, ListFacts, ListedPlaces
    <2> QED
      BY <2>1, <2>3
  <1> QED
    BY <1>4, <1>5, InsertedByOne DEF a, b

(* The elements of s but the first, each a place further to the front. *)
MovedUp(rest, s) ==
  /\ \A k \in DOMAIN rest : k + 1 \in DOMAIN s /\ k + 1 # 1 /\ rest[k] = s[k + 1]
  /\ \A k \in DOMAIN s : k = 1 \/ (k - 1 \in DOMAIN rest /\ rest[k - 1] = s[k])

(* A list of operations without the first. *)
LEMMA TailOfList ==
  ASSUME NEW e, NEW ops, IsInsertList(e, ops), Len(ops) # 1, NEW rest, rest = Tail(ops)
  PROVE  IsInsertList(e, rest) /\ rest[1].par = ops[1].par /\ MovedUp(rest, ops)
PROOF
  <1> DEFINE R == {ops[k] : k \in DOMAIN ops}
  <1>1. ops \in Seq(R) /\ ops # <<>>
    BY DEF IsInsertList, IsList
  <1>2. Len(ops) \in Nat /\ DOMAIN ops = 1 .. Len(ops) /\ 1 \in DOMAIN ops
    <2> HIDE DEF R
    <2>1. Len(ops) \in Nat /\ Len(ops) # 0 /\ DOMAIN ops = 1 .. Len(ops)
      BY <1>1
    <2> QED
      BY <2>1
  <1>3. /\ rest \in Seq(R) /\ DOMAIN rest = 1 .. (Len(ops) - 1)
        /\ \A k \in 1 .. (Len(ops) - 1) : rest[k] = ops[k + 1] /\ k + 1 \in DOMAIN ops
        /\ rest = [k \in DOMAIN rest |-> rest[k]]
    <2> HIDE DEF R
    <2>1. rest \in Seq(R) /\ Len(rest) = Len(ops) - 1
      BY <1>1, <1>2
    <2>2. DOMAIN rest = 1 .. (Len(ops) - 1)
      BY <2>1
    <2>3. \A k \in 1 .. (Len(ops) - 1) : rest[k] = ops[k + 1] /\ k + 1 \in DOMAIN ops
      BY <1>1, <1>2
    <2>4. rest = [k \in DOMAIN rest |-> rest[k]]
      BY <2>1, OwnList
    <2> QED
      BY <2>1, <2>2, <2>3, <2>4
  <1>4. \A k \in DOMAIN rest : k + 1 \in DOMAIN ops /\ k + 1 # 1 /\ rest[k] = ops[k + 1] /\ k \in Nat
    BY <1>3
  <1>5. \A k \in DOMAIN ops : k = 1 \/ (k - 1 \in DOMAIN rest /\ rest[k - 1] = ops[k])
    <2>1. \A k \in DOMAIN ops : k = 1 \/ (k - 1 \in 1 .. (Len(ops) - 1) /\ (k - 1) + 1 = k)
      BY <1>2
    <2> QED
      BY <1>3, <2>1
  <1>6. 1 \in DOMAIN rest
    BY <1>2, <1>3
  <1>7. rest[1].par = ops[1].par /\ \A k \in DOMAIN rest : rest[k].par = rest[1].par
    BY <1>4, <1>6 DEF IsInsertList
  <1>8. IsList(rest)
    BY <1>3, OwnList
  <1>9. rest # <<>>
    BY <1>6
  <1>10. \A h, k \in DOMAIN rest : h < k => rest[h].pos < rest[k].pos
    <2>1. \A h, k \in DOMAIN rest : h < k => h + 1 < k + 1
      BY <1>4
    <2> QED
      BY <1>4, <2>1 DEF IsInsertList
  <1>11. \A k \in DOMAIN rest : IsOp(e, e.new, e.newNum, e.old, rest[k])
    BY <1>4 DEF IsInsertList
  <1>12. IsInsertList(e, rest)
    BY <1>7, <1>8, <1>9, <1>10, <1>11 DEF IsInsertList
  <1> QED
    BY <1>4, <1>5, <1>7, <1>12 DEF MovedUp

(* The lists when the first operation of the first list is done. *)
Popped(lists) ==
  IF Len(lists[1]) = 1 THEN Apply!RemoveAt(lists, 1) ELSE [lists EXCEPT ![1] = Tail(@)]

(* The first list is at its end: the others move up. *)
LEMMA FirstListEnds ==
  ASSUME NEW lists, IsList(lists), lists # <<>>, Len(lists[1]) = 1,
         NEW rest, rest = Popped(lists)
  PROVE  /\ IsList(rest)
         /\ \A l \in DOMAIN rest : l \in Nat /\ l + 1 \in DOMAIN lists /\ rest[l] = lists[l + 1]
         /\ \A l \in DOMAIN lists : l = 1 \/ (l \in Nat /\ l - 1 \in DOMAIN rest /\ rest[l - 1] = lists[l])
         /\ DOMAIN rest = 1 .. (Len(lists) - 1)
PROOF
  <1> DEFINE R == {lists[l] : l \in DOMAIN lists}
  <1>1. lists \in Seq(R)
    BY DEF IsList
  <1> HIDE DEF R
  <1>2. Len(lists) \in Nat /\ Len(lists) # 0 /\ DOMAIN lists = 1 .. Len(lists)
    BY <1>1
  <1>3. rest = SubSeq(lists, 1, 0) \o SubSeq(lists, 2, Len(lists))
    <2>1. rest = Apply!RemoveAt(lists, 1)
      BY DEF Popped
    <2>2. 1 - 1 = 0 /\ 1 + 1 = 2
      OBVIOUS
    <2> QED
      BY <2>1, <2>2, Zenon DEF Apply!RemoveAt
  <1>4. SubSeq(lists, 1, 0) = <<>>
    BY <1>1, <1>2
  <1> DEFINE s == SubSeq(lists, 2, Len(lists))
  <1>5. s \in Seq(R) /\ Len(s) = Len(lists) - 1 /\ \A l \in 1 .. (Len(lists) - 1) : s[l] = lists[l + 1]
    BY <1>1, <1>2
  <1> HIDE DEF s
  <1>6. rest = s
    BY <1>3, <1>4, <1>5 DEF s
  <1>7. DOMAIN rest = 1 .. (Len(lists) - 1) /\ \A l \in 1 .. (Len(lists) - 1) : rest[l] = lists[l + 1]
    BY <1>1, <1>5, <1>6
  <1>8. rest = [l \in 1 .. (Len(lists) - 1) |-> rest[l]] /\ Len(lists) - 1 \in Nat
    BY <1>2, <1>5, <1>6, <1>7
  <1>9. IsList(rest)
    <2> DEFINE Q == {rest[l] : l \in DOMAIN rest}
    <2>1. \A l \in 1 .. (Len(lists) - 1) : rest[l] \in Q
      BY <1>7
    <2> HIDE DEF Q
    <2> QED
      BY <1>8, <2>1 DEF Q, IsList
  <1>10. \A l \in DOMAIN rest : l \in Nat /\ l + 1 \in DOMAIN lists /\ rest[l] = lists[l + 1]
    BY <1>2, <1>7
  <1>11. \A l \in DOMAIN lists :
           l = 1 \/ (l \in Nat /\ l - 1 \in DOMAIN rest /\ rest[l - 1] = lists[l])
    <2>1. \A l \in DOMAIN lists :
            l = 1 \/ (l \in Nat /\ l - 1 \in 1 .. (Len(lists) - 1) /\ (l - 1) + 1 = l)
      BY <1>2
    <2> QED
      BY <1>7, <2>1
  <1> QED
    BY <1>7, <1>9, <1>10, <1>11

(* The first list goes on. *)
LEMMA FirstListGoesOn ==
  ASSUME NEW lists, IsList(lists), lists # <<>>, Len(lists[1]) # 1,
         NEW rest, rest = Popped(lists)
  PROVE  /\ IsList(rest)
         /\ DOMAIN rest = DOMAIN lists /\ 1 \in DOMAIN lists
         /\ rest[1] = Tail(lists[1]) /\ \A l \in DOMAIN lists : l # 1 => rest[l] = lists[l]
PROOF
  <1> DEFINE R == {lists[l] : l \in DOMAIN lists}
  <1>1. lists \in Seq(R)
    BY DEF IsList
  <1> HIDE DEF R
  <1>2. Len(lists) \in Nat /\ Len(lists) # 0 /\ DOMAIN lists = 1 .. Len(lists)
    BY <1>1
  <1>3. 1 \in DOMAIN lists /\ lists = [l \in DOMAIN lists |-> lists[l]]
    BY <1>1, <1>2
  <1>4. rest = [lists EXCEPT ![1] = Tail(lists[1])]
    BY <1>3 DEF Popped
  <1>5. /\ DOMAIN rest = DOMAIN lists /\ rest = [l \in DOMAIN lists |-> rest[l]]
        /\ rest[1] = Tail(lists[1]) /\ \A l \in DOMAIN lists : l # 1 => rest[l] = lists[l]
    BY <1>3, <1>4
  <1>6. IsList(rest)
    <2> DEFINE Q == {rest[l] : l \in DOMAIN rest}
    <2>1. rest = [l \in 1 .. Len(lists) |-> rest[l]] /\ \A l \in 1 .. Len(lists) : rest[l] \in Q
      BY <1>2, <1>5
    <2> HIDE DEF Q
    <2> QED
      BY <1>2, <2>1 DEF Q, IsList
  <1> QED
    BY <1>3, <1>5, <1>6

(* When the first list ends, what is left is still well arranged. *)
LEMMA EndedLists ==
  ASSUME NEW e, IsEdit(e), NEW lists, ParentsFirst(e, lists), lists # <<>>, Len(lists[1]) = 1,
         NEW rest, rest = Popped(lists)
  PROVE  /\ Missing(rest) = Missing(lists) \ {lists[1][1].xid}
         /\ ParentsFirst(e, rest)
PROOF
  <1>1. /\ IsList(rest)
        /\ \A l \in DOMAIN rest : l \in Nat /\ l + 1 \in DOMAIN lists /\ rest[l] = lists[l + 1]
        /\ \A l \in DOMAIN lists : l = 1 \/ (l \in Nat /\ l - 1 \in DOMAIN rest /\ rest[l - 1] = lists[l])
        /\ DOMAIN rest = 1 .. (Len(lists) - 1)
    BY FirstListEnds DEF ParentsFirst
  <1>2. \A l \in DOMAIN lists : IsInsertList(e, lists[l])
    BY DEF ParentsFirst
  <1>3. 1 \in DOMAIN lists /\ DOMAIN lists[1] = 1 .. 1
    <2>1. 1 \in DOMAIN lists
      <3>1. IsList(lists)
        BY DEF ParentsFirst
      <3>2. Len(lists) \in Nat /\ Len(lists) # 0 /\ DOMAIN lists = 1 .. Len(lists)
        BY <3>1, ListDomain
      <3> QED
        BY <3>2
    <2>2. IsInsertList(e, lists[1])
      BY <1>2, <2>1
    <2>3. DOMAIN lists[1] = 1 .. Len(lists[1])
      BY <2>2 DEF IsInsertList
    <2> QED
      BY <2>1, <2>3
  <1>4. \A l \in DOMAIN rest : l + 1 # 1
    BY <1>1
  <1>5. \A l \in DOMAIN rest : \A k \in DOMAIN rest[l] : rest[l][k].xid # lists[1][1].xid
    <2>1. ASSUME NEW l \in DOMAIN rest, NEW k \in DOMAIN rest[l], rest[l][k].xid = lists[1][1].xid
          PROVE  FALSE
      <3>1. l + 1 \in DOMAIN lists /\ k \in DOMAIN lists[l + 1] /\ 1 \in DOMAIN lists[1]
            /\ lists[l + 1][k].xid = lists[1][1].xid
        BY <1>1, <1>3, <2>1
      <3>2. l + 1 = 1
        BY <1>3, <3>1, BroughtByOne
      <3> QED
        BY <1>4, <3>2
    <2> QED
      BY <2>1
  <1>6. Missing(rest) = Missing(lists) \ {lists[1][1].xid}
    <2>1. ASSUME NEW x \in Missing(rest)
          PROVE  x \in Missing(lists) \ {lists[1][1].xid}
      <3>1. PICK l \in DOMAIN rest : \E k \in DOMAIN rest[l] : rest[l][k].xid = x
        BY DEF Missing
      <3>2. l + 1 \in DOMAIN lists /\ rest[l] = lists[l + 1]
        BY <1>1
      <3> QED
        BY <1>5, <3>1, <3>2 DEF Missing
    <2>2. ASSUME NEW x \in Missing(lists), x # lists[1][1].xid
          PROVE  x \in Missing(rest)
      <3>1. PICK l \in DOMAIN lists : \E k \in DOMAIN lists[l] : lists[l][k].xid = x
        BY DEF Missing
      <3>2. CASE l = 1
        <4>1. \A k \in DOMAIN lists[1] : k = 1
          BY <1>3
        <4> QED
          BY <2>2, <3>1, <3>2, <4>1
      <3>3. CASE l # 1
        BY <1>1, <3>1, <3>3 DEF Missing
      <3> QED
        BY <3>2, <3>3
    <2> QED
      BY <2>1, <2>2
  <1>7. \A l \in DOMAIN rest : IsInsertList(e, rest[l])
    BY <1>1, <1>2
  <1>8. \A k, l \in DOMAIN rest : rest[k][1].par = rest[l][1].par => k = l
    <2>1. ASSUME NEW k \in DOMAIN rest, NEW l \in DOMAIN rest, rest[k][1].par = rest[l][1].par
          PROVE  k + 1 = l + 1
      <3>1. /\ k + 1 \in DOMAIN lists /\ l + 1 \in DOMAIN lists
            /\ lists[k + 1][1].par = lists[l + 1][1].par
        BY <1>1, <2>1
      <3> QED
        BY <3>1 DEF ParentsFirst
    <2>2. \A k \in DOMAIN rest : k \in Nat
      BY <1>1
    <2> QED
      BY <2>1, <2>2
  <1>9. ASSUME NEW l \in DOMAIN rest, e.home[rest[l][1].par] \in Missing(rest)
        PROVE  \E k \in 1 .. (l - 1) : \E h \in DOMAIN rest[k] :
                 rest[k][h].xid = e.home[rest[l][1].par]
    <2>1. l \in Nat /\ l + 1 \in DOMAIN lists /\ rest[l] = lists[l + 1]
      BY <1>1
    <2>2. e.home[lists[l + 1][1].par] \in Missing(lists)
          /\ e.home[lists[l + 1][1].par] # lists[1][1].xid
      BY <1>6, <1>9, <2>1
    <2>3. PICK k \in 1 .. ((l + 1) - 1) : \E h \in DOMAIN lists[k] :
                 lists[k][h].xid = e.home[lists[l + 1][1].par]
      BY <2>1, <2>2 DEF ParentsFirst
    <2>4. k # 1
      <3>1. \A h \in DOMAIN lists[1] : h = 1
        BY <1>3
      <3> QED
        BY <2>2, <2>3, <3>1
    <2>5. k \in DOMAIN lists
      <3>1. IsList(lists)
        BY DEF ParentsFirst
      <3>2. DOMAIN lists = 1 .. Len(lists) /\ Len(lists) \in Nat
        BY <3>1, ListDomain
      <3> QED
        BY <2>1, <2>3, <3>2
    <2>6. k - 1 \in DOMAIN rest /\ rest[k - 1] = lists[k] /\ k - 1 \in 1 .. (l - 1)
      BY <1>1, <2>1, <2>3, <2>4, <2>5
    <2> QED
      BY <2>1, <2>3, <2>6
  <1> QED
    BY <1>1, <1>6, <1>7, <1>8, <1>9 DEF ParentsFirst

(* When the first list goes on, what is left is still well arranged. *)
LEMMA GoneOnLists ==
  ASSUME NEW e, IsEdit(e), NEW lists, ParentsFirst(e, lists), lists # <<>>, Len(lists[1]) # 1,
         NEW rest, rest = Popped(lists)
  PROVE  /\ Missing(rest) = Missing(lists) \ {lists[1][1].xid}
         /\ ParentsFirst(e, rest)
PROOF
  <1>1. /\ IsList(rest)
        /\ DOMAIN rest = DOMAIN lists /\ 1 \in DOMAIN lists
        /\ rest[1] = Tail(lists[1]) /\ \A l \in DOMAIN lists : l # 1 => rest[l] = lists[l]
    BY FirstListGoesOn DEF ParentsFirst
  <1>2. \A l \in DOMAIN lists : IsInsertList(e, lists[l])
    BY DEF ParentsFirst
  <1>3. /\ IsInsertList(e, rest[1]) /\ rest[1][1].par = lists[1][1].par
        /\ \A k \in DOMAIN rest[1] :
             k + 1 \in DOMAIN lists[1] /\ k + 1 # 1 /\ rest[1][k] = lists[1][k + 1]
        /\ \A k \in DOMAIN lists[1] :
             k = 1 \/ (k - 1 \in DOMAIN rest[1] /\ rest[1][k - 1] = lists[1][k])
    <2>1. IsInsertList(e, lists[1])
      BY <1>1, <1>2
    <2>2. rest[1] = Tail(lists[1])
      BY <1>1
    <2> DEFINE s == lists[1]
               w == rest[1]
    <2>3. w = Tail(s) /\ IsInsertList(e, s) /\ Len(s) # 1
      BY <2>1, <2>2
    <2> HIDE DEF s, w
    <2>4. IsInsertList(e, w) /\ w[1].par = s[1].par /\ MovedUp(w, s)
      BY <2>3, TailOfList
    <2> QED
      BY <2>4 DEF s, w, MovedUp
  <1>4. 1 \in DOMAIN lists[1]
    BY <1>1, <1>2, ListDomain DEF IsInsertList
  <1>5. \A l \in DOMAIN rest : \A k \in DOMAIN rest[l] : rest[l][k].xid # lists[1][1].xid
    <2>1. ASSUME NEW l \in DOMAIN rest, NEW k \in DOMAIN rest[l], rest[l][k].xid = lists[1][1].xid
          PROVE  FALSE
      <3>1. CASE l = 1
        <4>1. k + 1 \in DOMAIN lists[1] /\ lists[1][k + 1].xid = lists[1][1].xid
          BY <1>3, <2>1, <3>1
        <4>2. k + 1 = 1
          BY <1>1, <1>4, <4>1, BroughtByOne
        <4> QED
          BY <1>3, <3>1, <4>2
      <3>2. CASE l # 1
        <4>1. l \in DOMAIN lists /\ k \in DOMAIN lists[l] /\ lists[l][k].xid = lists[1][1].xid
          BY <1>1, <2>1, <3>2
        <4>2. l = 1
          BY <1>1, <1>4, <4>1, BroughtByOne
        <4> QED
          BY <3>2, <4>2
      <3> QED
        BY <3>1, <3>2
    <2> QED
      BY <2>1
  <1>6. \A l \in DOMAIN lists : \A k \in DOMAIN lists[l] :
          \/ l = 1 /\ k = 1
          \/ \E h \in DOMAIN rest[l] : rest[l][h] = lists[l][k]
    <2>1. ASSUME NEW l \in DOMAIN lists, NEW k \in DOMAIN lists[l], ~(l = 1 /\ k = 1)
          PROVE  \E h \in DOMAIN rest[l] : rest[l][h] = lists[l][k]
      <3>1. CASE l = 1
        <4>1. k - 1 \in DOMAIN rest[1] /\ rest[1][k - 1] = lists[1][k]
          BY <1>3, <2>1, <3>1
        <4> QED
          BY <3>1, <4>1
      <3>2. CASE l # 1
        BY <1>1, <3>2
      <3> QED
        BY <3>1, <3>2
    <2> QED
      BY <2>1
  <1>7. \A l \in DOMAIN rest : \A k \in DOMAIN rest[l] :
          \E h \in DOMAIN lists[l] : lists[l][h] = rest[l][k]
    <2>1. ASSUME NEW l \in DOMAIN rest, NEW k \in DOMAIN rest[l]
          PROVE  \E h \in DOMAIN lists[l] : lists[l][h] = rest[l][k]
      <3>1. CASE l = 1
        BY <1>3, <3>1
      <3>2. CASE l # 1
        BY <1>1, <3>2
      <3> QED
        BY <3>1, <3>2
    <2> QED
      BY <2>1
  <1>8. Missing(rest) = Missing(lists) \ {lists[1][1].xid}
    <2>1. ASSUME NEW x \in Missing(rest)
          PROVE  x \in Missing(lists) \ {lists[1][1].xid}
      <3>1. PICK l \in DOMAIN rest : \E k \in DOMAIN rest[l] : rest[l][k].xid = x
        BY DEF Missing
      <3>2. \E h \in DOMAIN lists[l] : lists[l][h].xid = x
        BY <1>7, <3>1
      <3> QED
        BY <1>1, <1>5, <3>1, <3>2 DEF Missing
    <2>2. ASSUME NEW x \in Missing(lists), x # lists[1][1].xid
          PROVE  x \in Missing(rest)
      <3>1. PICK l \in DOMAIN lists : \E k \in DOMAIN lists[l] : lists[l][k].xid = x
        BY DEF Missing
      <3>2. \E h \in DOMAIN rest[l] : rest[l][h].xid = x
        BY <1>6, <2>2, <3>1
      <3> QED
        BY <1>1, <3>2 DEF Missing
    <2> QED
      BY <2>1, <2>2
  <1>9. \A l \in DOMAIN rest : IsInsertList(e, rest[l]) /\ rest[l][1].par = lists[l][1].par
    BY <1>1, <1>2, <1>3
  <1>10. \A k, l \in DOMAIN rest : rest[k][1].par = rest[l][1].par => k = l
    BY <1>1, <1>9 DEF ParentsFirst
  <1>11. ASSUME NEW l \in DOMAIN rest, e.home[rest[l][1].par] \in Missing(rest)
         PROVE  \E k \in 1 .. (l - 1) : \E h \in DOMAIN rest[k] :
                  rest[k][h].xid = e.home[rest[l][1].par]
    <2>1. e.home[lists[l][1].par] \in Missing(lists) /\ e.home[lists[l][1].par] # lists[1][1].xid
      BY <1>8, <1>9, <1>11
    <2>2. PICK k \in 1 .. (l - 1) : \E h \in DOMAIN lists[k] :
                 lists[k][h].xid = e.home[lists[l][1].par]
      BY <1>1, <2>1 DEF ParentsFirst
    <2>3. k \in DOMAIN lists
      <3>1. IsList(lists)
        BY DEF ParentsFirst
      <3>2. DOMAIN lists = 1 .. Len(lists) /\ Len(lists) \in Nat
        BY <3>1, ListDomain
      <3> QED
        BY <1>1, <2>2, <3>2
    <2>4. \E h \in DOMAIN rest[k] : rest[k][h].xid = e.home[lists[l][1].par]
      BY <1>6, <2>1, <2>2, <2>3
    <2> QED
      BY <1>9, <2>4
  <1> QED
    BY <1>1, <1>8, <1>9, <1>10, <1>11 DEF ParentsFirst

(***************************************************************************)
(* The first operation of the first list: its parent is there already, and *)
(* the brothers before its place are.                                      *)
(***************************************************************************)
LEMMA FirstInsert ==
  ASSUME NEW e, IsEdit(e), NEW lists, ParentsFirst(e, lists), lists # <<>>,
         NEW op, op = lists[1][1]
  PROVE  /\ IsOp(e, e.new, e.newNum, e.old, op) /\ op.xid \in Missing(lists)
         /\ Missing(Popped(lists)) = Missing(lists) \ {op.xid}
         /\ ParentsFirst(e, Popped(lists))
         /\ PlaceIsReady(e, Missing(lists), op)
         /\ Len(lists) \in Nat \ {0} /\ Head(lists[1]) = op
PROOF
  <1>1. 1 \in DOMAIN lists /\ Len(lists) \in Nat \ {0}
    BY ListDomain DEF ParentsFirst
  <1>2. IsInsertList(e, lists[1])
    BY <1>1 DEF ParentsFirst
  <1>3. 1 \in DOMAIN lists[1] /\ Head(lists[1]) = op /\ DOMAIN lists[1] = 1 .. Len(lists[1])
    BY <1>2, ListDomain DEF IsInsertList
  <1>4. IsOp(e, e.new, e.newNum, e.old, op)
    BY <1>2, <1>3 DEF IsInsertList
  <1>5. op.xid \in Missing(lists)
    BY <1>1, <1>3 DEF Missing
  <1>6. Missing(Popped(lists)) = Missing(lists) \ {op.xid} /\ ParentsFirst(e, Popped(lists))
    BY EndedLists, GoneOnLists
  <1>7. e.home[op.par] \notin Missing(lists)
    <2>1. ~ \E k \in 1 .. (1 - 1) : TRUE
      OBVIOUS
    <2> QED
      BY <1>1, <2>1 DEF ParentsFirst
  <1>8. ASSUME NEW q \in DOMAIN e.new[op.par].kids, q < op.pos,
               e.new[op.par].kids[q] \in Missing(lists)
        PROVE  FALSE
    <2> DEFINE c == e.new[op.par].kids[q]
    <2>1. PICK l \in DOMAIN lists : \E k \in DOMAIN lists[l] : lists[l][k].xid = c
      BY <1>8 DEF Missing
    <2>2. PICK k \in DOMAIN lists[l] : lists[l][k].xid = c
      BY <2>1
    <2> DEFINE o == lists[l][k]
    <2>3. IsInsertList(e, lists[l])
      BY DEF ParentsFirst
    <2>4. IsOp(e, e.new, e.newNum, e.old, o) /\ o.par = lists[l][1].par
      BY <2>3 DEF IsInsertList
    <2>5. op.par \in DOMAIN e.new
      BY <1>4 DEF IsOp
    <2>6. c \in Apply!Kids(e.new, op.par)
      BY DEF Apply!Kids, Apply!Range
    <2>7. IsSide(e, e.new, e.newNum)
      BY DEF IsEdit
    <2>8. o.xid = c
      BY <2>2
    <2>9. o.par = op.par
      <3> HIDE DEF c, o
      <3> QED
        BY <2>4, <2>5, <2>6, <2>7, <2>8, ParentIsNamed
    <2>10. l = 1
      BY <1>1, <2>4, <2>9 DEF ParentsFirst
    <2>11. o.pos = q
      <3> DEFINE s == e.new[op.par].kids
                 A == Apply!Kids(e.new, op.par)
      <3>1. Lists(s, A, e.newNum)
        BY <2>5, <2>7 DEF IsSide, IsForest, Grows
      <3>2. o.pos \in DOMAIN s /\ q \in DOMAIN s /\ s[o.pos] = s[q]
        BY <2>4, <2>8, <2>9 DEF IsOp
      <3> HIDE DEF s, A, o
      <3>3. DOMAIN s = 1 .. Len(s) /\ \A i, j \in 1 .. Len(s) : s[i] = s[j] => i = j
        BY <3>1, ListFacts, ListedPlaces
      <3> QED
        BY <3>2, <3>3
    <2>12. k = 1 \/ 1 < k
      BY <1>3, <2>10
    <2>13. ~(op.pos < q) /\ op.pos # q
      <3> DEFINE s == e.new[op.par].kids
                 A == Apply!Kids(e.new, op.par)
      <3>1. Lists(s, A, e.newNum)
        BY <2>5, <2>7 DEF IsSide, IsForest, Grows
      <3>2. op.pos \in DOMAIN s /\ q \in DOMAIN s
        BY <1>4 DEF IsOp
      <3> HIDE DEF s, A
      <3>3. DOMAIN s = 1 .. Len(s)
        BY <3>1, ListFacts
      <3> QED
        BY <1>8, <3>2, <3>3
    <2>14. k # 1 => op.pos < o.pos
      BY <1>2, <1>3, <2>10, <2>12 DEF IsInsertList
    <2>15. k = 1 => o = op
      BY <2>10
    <2> QED
      BY <2>11, <2>13, <2>14, <2>15
  <1>9. PlaceIsReady(e, Missing(lists), op)
    BY <1>7, <1>8 DEF PlaceIsReady
  <1> QED
    BY <1>1, <1>3, <1>4, <1>5, <1>6, <1>9

(* What can be moved is a part of the new tree. *)
LEMMA MovableForest ==
  ASSUME NEW e, IsEdit(e), NEW t, Movable(e, t)
  PROVE  /\ IsForest(t, e.newNum, e.n) /\ DOMAIN t = Movables(e)
         /\ \A x \in DOMAIN t : Apply!Kids(t, x) = Apply!Kids(e.new, x) \ e.cut
PROOF
  <1> DEFINE nodes == Movables(e)
             kidsOf == KeptKids(e, e.new)
  <1>1. IsPartly(e, t, nodes, e.newNum, kidsOf)
    BY DEF Movable
  <1>2. IsSide(e, e.new, e.newNum)
    BY DEF IsEdit
  <1>3. Grows(e.new, e.newNum, e.n) /\ IsForest(e.new, e.newNum, e.n)
    BY <1>2 DEF IsSide, IsForest
  <1>4. nodes \subseteq DOMAIN e.new
    BY DEF Movables, Both
  <1>5. \A x \in nodes : kidsOf[x] = Apply!Kids(e.new, x) \ e.cut
    BY <1>4 DEF KeptKids
  <1>6. ASSUME NEW x \in nodes
        PROVE  kidsOf[x] \subseteq Apply!Kids(e.new, x) /\ kidsOf[x] \subseteq nodes
    <2>1. x \in DOMAIN e.new /\ x \in DOMAIN e.old /\ e.home[x] # e.top
      BY DEF Movables, Both
    <2>2. Apply!Kids(e.new, x) \subseteq DOMAIN e.new
      BY <1>3, <2>1 DEF Grows
    <2>3. \A c \in Apply!Kids(e.new, x) \ e.cut : e.home[c] = e.home[x]
      BY <1>2, <2>1 DEF IsSide
    <2>4. \A c \in Apply!Kids(e.new, x) \ e.cut : c \in DOMAIN e.old
      BY <2>1, <2>2, <2>3 DEF IsEdit
    <2> QED
      BY <1>5, <2>1, <2>2, <2>3, <2>4 DEF Movables, Both
  <1> HIDE DEF nodes, kidsOf
  <1>7. /\ IsForest(t, e.newNum, e.n) /\ DOMAIN t = nodes
        /\ \A x \in nodes : Apply!Kids(t, x) = kidsOf[x]
    BY <1>1, <1>3, <1>4, <1>6, PartlyForest
  <1> QED
    BY <1>5, <1>7 DEF nodes

(* The nodes that come with the one that is moved. *)
LEMMA MovedNodes ==
  ASSUME NEW e, IsEdit(e), NEW t, Movable(e, t), NEW z \in e.cut, z \in DOMAIN e.old, z \in DOMAIN e.new,
         NEW P, P = Travellers(e, e.new, z)
  PROVE  /\ z \in DOMAIN t /\ Apply!Below(t, z) = P
         /\ IsPartly(e, [y \in P |-> t[y]], P, e.newNum, KeptKids(e, e.new))
PROOF
  <1>1. IsSide(e, e.new, e.newNum) /\ e.home[z] = z /\ z # e.top
    BY DEF IsEdit, IsSide
  <1>2. /\ IsForest(t, e.newNum, e.n) /\ DOMAIN t = Movables(e)
        /\ \A x \in DOMAIN t : Apply!Kids(t, x) = Apply!Kids(e.new, x) \ e.cut
    BY MovableForest
  <1>3. P \subseteq Movables(e)
    <2>1. ASSUME NEW y \in P
          PROVE  y \in Movables(e)
      <3>1. y \in DOMAIN e.new /\ e.home[y] = z
        BY DEF Travellers
      <3>2. y \in DOMAIN e.old
        BY <3>1 DEF IsEdit
      <3> QED
        BY <1>1, <3>1, <3>2 DEF Movables, Both
    <2> QED
      BY <2>1
  <1>4. z \in Movables(e)
    BY <1>1 DEF Movables, Both
  <1>5. Apply!Below(t, z) = P
    <2>1. P \subseteq DOMAIN t /\ z \in DOMAIN t /\ IsForest(t, e.newNum, e.n)
      BY <1>2, <1>3, <1>4
    <2>2. \A x \in P : Apply!Kids(t, x) = Apply!Kids(e.new, x) \ e.cut
      BY <1>2, <1>3
    <2> QED
      BY <1>1, <2>1, <2>2, TravellersBelow
  <1>6. IsPartly(e, t, Movables(e), e.newNum, KeptKids(e, e.new))
    BY DEF Movable
  <1>7. IsPartly(e, [y \in P |-> t[y]], P, e.newNum, KeptKids(e, e.new))
    BY <1>3, <1>6, CopiedPartly
  <1> QED
    BY <1>2, <1>4, <1>5, <1>7

(* The nodes that come with the one that is inserted. *)
LEMMA InsertedNodes ==
  ASSUME NEW e, IsEdit(e), NEW op, IsOp(e, e.new, e.newNum, e.old, op), ~op.move,
         NEW P, P = Travellers(e, e.new, op.xid)
  PROVE  IsPartly(e, Apply!Content(op), P, e.newNum, KeptKids(e, e.new))
PROOF
  <1> DEFINE w == Apply!Content(op)
             The(y) == CHOOSE m \in op.content : m.xid = y
  <1>1. /\ {m.xid : m \in op.content} = P
        /\ \A m \in op.content : IsPart(e, e.new, e.newNum, m)
    BY DEF IsOp
  <1>2. w = [y \in {m.xid : m \in op.content} |->
               [kind |-> The(y).kind, label |-> The(y).label, attr |-> The(y).attr, kids |-> The(y).kids]]
    BY DEF Apply!Content
  <1>3. \A y \in P : The(y) \in op.content /\ The(y).xid = y
    <2>1. ASSUME NEW y \in P
          PROVE  The(y) \in op.content /\ The(y).xid = y
      <3>1. \E m \in op.content : m.xid = y
        BY <1>1
      <3> QED
        BY <3>1
    <2> QED
      BY <2>1
  <1> HIDE DEF w, The
  <1>4. DOMAIN w = P /\ w = [y \in DOMAIN w |-> w[y]]
    BY <1>1, <1>2
  <1>5. ASSUME NEW y \in P
        PROVE  w[y] = Node(e.was[y], w[y].kids) /\ Lists(w[y].kids, KeptKids(e, e.new)[y], e.newNum)
    <2> DEFINE m == The(y)
    <2>1. m.xid = y /\ IsPart(e, e.new, e.newNum, m)
      BY <1>1, <1>3
    <2>2. w[y] = [kind |-> m.kind, label |-> m.label, attr |-> m.attr, kids |-> m.kids]
      BY <1>1, <1>2
    <2> HIDE DEF m
    <2>3. w[y] = Node(e.was[y], m.kids)
      BY <2>1, <2>2 DEF IsPart, Node
    <2>4. w[y].kids = m.kids
      BY <2>2
    <2>5. KeptKids(e, e.new)[y] = Apply!Kids(e.new, y) \ e.cut
      BY DEF KeptKids, Travellers
    <2> QED
      BY <2>1, <2>3, <2>4, <2>5 DEF IsPart
  <1>6. IsPartly(e, w, P, e.newNum, KeptKids(e, e.new))
    BY <1>4, <1>5, PartlyMade
  <1> QED
    BY <1>6 DEF w

(***************************************************************************)
(* A node is brought to its place with all that travels with it: the place *)
(* exists, none of the nodes is there yet, and the tree has grown towards  *)
(* the new one.                                                            *)
(***************************************************************************)
LEMMA GraftStep ==
  ASSUME NEW e, IsEdit(e), NEW missing, missing \subseteq e.cut \cap DOMAIN e.new,
         NEW t, AlreadyThere(e, missing, t),
         NEW op, IsOp(e, e.new, e.newNum, e.old, op), op.xid \in missing,
         PlaceIsReady(e, missing, op),
         NEW P, P = Travellers(e, e.new, op.xid),
         NEW nodes, IsPartly(e, nodes, P, e.newNum, KeptKids(e, e.new)),
         NEW joined, joined = Apply!Joined(t, nodes),
         NEW grown, grown = Grown(joined, t, op)
  PROVE  IsGrafted(e, missing, t, op, P, nodes, joined, grown)
PROOF
  <1> DEFINE z == op.xid
             par == op.par
             u == t[par].kids
             s == e.new[par].kids
             A == Apply!Kids(e.new, par) \ missing
             B == Apply!Kids(e.new, par)
             g == [x \in DOMAIN e.new |-> Apply!Kids(e.new, x) \ (missing \ {z})]
             f == [x \in DOMAIN e.new |-> Apply!Kids(e.new, x) \ missing]
             h == [x \in DOMAIN e.new |-> IF x = par THEN A ELSE g[x]]
             N == NewPlaces(e, missing)
  <1>0. /\ e.home[par] \notin missing
        /\ \A q \in DOMAIN s : q < op.pos => s[q] \notin missing
    BY DEF PlaceIsReady
  <1>1. IsSide(e, e.new, e.newNum)
    BY DEF IsEdit
  <1>2. Grows(e.new, e.newNum, e.n)
    BY <1>1 DEF IsSide, IsForest
  <1>3. z \in e.cut /\ z \in DOMAIN e.new /\ e.home[z] = z /\ z # e.top
    BY <1>1 DEF IsOp, IsSide
  <1>4. par \in DOMAIN e.new /\ op.pos \in DOMAIN s /\ s[op.pos] = z
    BY DEF IsOp
  <1>5. z \in B /\ e.home[par] # z
    BY <1>1, ParentIsNotBelow
  <1>6. \A x \in DOMAIN e.new : z \in Apply!Kids(e.new, x) => x = par
    BY <1>1, <1>4, <1>5 DEF IsSide, IsForest
  <1>7. IsPartly(e, t, N, e.newNum, f)
    BY DEF AlreadyThere
  <1>8. \A x \in DOMAIN e.new :
          e.home[x] \in missing => Apply!Kids(e.new, x) \cap e.cut \subseteq missing
    BY DEF AlreadyThere
  <1>9. par \in N /\ DOMAIN t = N /\ DOMAIN nodes = P
    BY <1>0, <1>4, <1>7, PartlyFacts DEF NewPlaces
  <1>10. /\ N \cap P = {} /\ N \cup P = NewPlaces(e, missing \ {z})
         /\ N \subseteq DOMAIN e.new /\ P \subseteq DOMAIN e.new
    BY DEF NewPlaces, Travellers
  <1>11. Lists(u, A, e.newNum) /\ Lists(s, B, e.newNum)
    <2>1. Lists(u, f[par], e.newNum)
      BY <1>7, <1>9 DEF IsPartly
    <2>2. f[par] = A
      BY <1>4
    <2> QED
      BY <1>2, <1>4, <2>1, <2>2 DEF Grows
  <1>12. A \subseteq B /\ z \notin A /\ A \cup {z} = Apply!Kids(e.new, par) \ (missing \ {z})
    BY <1>5
  <1>13. \A q \in DOMAIN s : q < op.pos => s[q] \in A
    <2>1. \A q \in DOMAIN s : s[q] \in B
      BY DEF Apply!Kids, Apply!Range
    <2> QED
      BY <1>0, <2>1
  <1>14. op.pos <= Len(u) + 1 /\ Lists(Apply!InsertAt(u, op.pos, z), A \cup {z}, e.newNum)
    <2>1. op.pos \in DOMAIN s /\ s[op.pos] \notin A /\ s[op.pos] = z
      BY <1>4, <1>12
    <2> HIDE DEF u, s, A, B, z
    <2> QED
      BY <1>11, <1>12, <1>13, <2>1, InsertedInOrder
  <1>15. ASSUME NEW x \in N
         PROVE  h[x] = f[x]
    <2>1. x \in DOMAIN e.new
      BY <1>10
    <2>2. x # par => z \notin Apply!Kids(e.new, x)
      BY <1>6, <2>1
    <2>3. f[x] = Apply!Kids(e.new, x) \ missing
      BY <2>1
    <2>4. x # par => h[x] = Apply!Kids(e.new, x) \ (missing \ {z})
      BY <2>1
    <2>5. x = par => h[x] = Apply!Kids(e.new, par) \ missing
      BY <2>1
    <2> HIDE DEF h, f
    <2> QED
      BY <2>2, <2>3, <2>4, <2>5
  <1>16. ASSUME NEW x \in P
         PROVE  h[x] = KeptKids(e, e.new)[x]
    <2>1. x \in DOMAIN e.new /\ e.home[x] = z
      BY DEF Travellers
    <2>2. x # par
      BY <1>5, <2>1
    <2>3. z \notin Apply!Kids(e.new, x)
      BY <1>6, <2>1, <2>2
    <2>4. Apply!Kids(e.new, x) \cap e.cut \subseteq missing
      BY <1>8, <2>1
    <2>5. h[x] = Apply!Kids(e.new, x) \ (missing \ {z})
      BY <2>1, <2>2
    <2>6. KeptKids(e, e.new)[x] = Apply!Kids(e.new, x) \ e.cut
      BY <2>1 DEF KeptKids
    <2> HIDE DEF h
    <2> QED
      BY <2>3, <2>4, <2>5, <2>6
  <1>17. \A x \in N \cup P : x # par => g[x] = h[x]
    BY <1>10
  <1>18. g[par] = A \cup {z}
    BY <1>4, <1>12
  <1>19. joined[par] = t[par]
    BY <1>9 DEF Apply!Joined
  <1> HIDE DEF N, f, h
  <1>20. IsPartly(e, joined, N \cup P, e.newNum, h)
    BY <1>7, <1>10, <1>15, <1>16, JoinedPartly
  <1> DEFINE w == Apply!InsertAt(u, op.pos, z)
             C == A \cup {z}
  <1> HIDE DEF g, w, C, par
  <1>21. IsPartly(e, [joined EXCEPT ![par].kids = w], N \cup P, e.newNum, g)
    <2>1. Lists(w, C, e.newNum)
      BY <1>14 DEF w, C
    <2>2. g[par] = C
      BY <1>18 DEF C
    <2>3. par \in N \cup P /\ \A x \in (N \cup P) \ {par} : g[x] = h[x]
      BY <1>9, <1>17
    <2> QED
      BY <1>20, <2>1, <2>2, <2>3, GraftedPartly
  <1>22. \A x \in DOMAIN e.new : e.home[x] \in missing \ {z} =>
           Apply!Kids(e.new, x) \cap e.cut \subseteq missing \ {z}
    BY <1>0, <1>6, <1>8 DEF par
  <1>23. AlreadyThere(e, missing \ {z}, [joined EXCEPT ![par].kids = w])
    <2>1. IsPartly(e, [joined EXCEPT ![par].kids = w], NewPlaces(e, missing \ {z}), e.newNum, g)
      BY <1>10, <1>21
    <2> QED
      BY <1>22, <2>1 DEF AlreadyThere, g
  <1> QED
    BY <1>9, <1>10, <1>14, <1>19, <1>23 DEF w, par, Grown, IsGrafted

(* The nodes that come with the first operation of the first list. *)
Incoming(op, moved) ==
  IF op.move THEN [y \in Apply!Below(moved, op.xid) |-> moved[y]] ELSE Apply!Content(op)

(* The first operation can be done, and the others find what they need. *)
InsertGoesWell(e, lists, t, moved, waiting, op, joined) ==
  /\ Len(lists) \in Nat \ {0} /\ Head(lists[1]) = op
  /\ op.par \in DOMAIN t /\ op.move \in BOOLEAN
  /\ op.move => op.xid \in DOMAIN moved
  /\ op.pos <= Len(t[op.par].kids) + 1
  /\ DOMAIN Incoming(op, moved) \cap DOMAIN t = {}
  /\ DOMAIN Incoming(op, moved) \subseteq DOMAIN e.new
  /\ Inserting(e, Popped(lists),
       [joined EXCEPT ![op.par].kids =
          Apply!InsertAt(joined[op.par].kids, op.pos, op.xid)],
       moved, IF op.move THEN waiting \ {op.xid} ELSE waiting)

(***************************************************************************)
(* One insert operation: its parent is there, a node that is moved can be  *)
(* found, the place exists, and the others find what they need.            *)
(***************************************************************************)
LEMMA InsertStep ==
  ASSUME NEW e, IsEdit(e), NEW lists, NEW t, NEW moved, NEW waiting,
         Inserting(e, lists, t, moved, waiting), lists # <<>>, NEW op, op = lists[1][1],
         NEW joined, joined = Apply!Joined(t, Incoming(op, moved))
  PROVE  InsertGoesWell(e, lists, t, moved, waiting, op, joined)
PROOF
  <1> SUFFICES /\ Len(lists) \in Nat \ {0} /\ Head(lists[1]) = op
               /\ op.par \in DOMAIN t /\ op.move \in BOOLEAN
               /\ op.move => op.xid \in DOMAIN moved
               /\ op.pos <= Len(t[op.par].kids) + 1
               /\ DOMAIN Incoming(op, moved) \cap DOMAIN t = {}
               /\ DOMAIN Incoming(op, moved) \subseteq DOMAIN e.new
               /\ Inserting(e, Popped(lists),
                    [joined EXCEPT ![op.par].kids =
                       Apply!InsertAt(joined[op.par].kids, op.pos, op.xid)],
                    moved, IF op.move THEN waiting \ {op.xid} ELSE waiting)
    BY DEF InsertGoesWell
  <1> DEFINE missing == Missing(lists)
             z == op.xid
             P == Travellers(e, e.new, z)
             nodes == Incoming(op, moved)
  <1>1. /\ ParentsFirst(e, lists) /\ AlreadyThere(e, missing, t) /\ Movable(e, moved)
        /\ waiting = missing \cap DOMAIN e.old
    BY DEF Inserting
  <1>2. /\ IsOp(e, e.new, e.newNum, e.old, op) /\ z \in missing
        /\ Missing(Popped(lists)) = missing \ {z}
        /\ ParentsFirst(e, Popped(lists))
        /\ PlaceIsReady(e, missing, op)
        /\ Len(lists) \in Nat \ {0} /\ Head(lists[1]) = op
    <2>1. ParentsFirst(e, lists)
      BY <1>1
    <2> HIDE DEF missing, z
    <2>2. /\ IsOp(e, e.new, e.newNum, e.old, op) /\ op.xid \in Missing(lists)
          /\ Missing(Popped(lists)) = Missing(lists) \ {op.xid}
          /\ ParentsFirst(e, Popped(lists))
          /\ PlaceIsReady(e, Missing(lists), op)
          /\ Len(lists) \in Nat \ {0} /\ Head(lists[1]) = op
      BY <2>1, FirstInsert
    <2> QED
      BY <2>2 DEF missing, z
  <1>3. op.move \in BOOLEAN /\ (op.move <=> z \in DOMAIN e.old) /\ z \in e.cut /\ z \in DOMAIN e.new
    BY <1>2 DEF IsOp
  <1>4. missing \subseteq e.cut \cap DOMAIN e.new
    <2>1. \A l \in DOMAIN lists : \A k \in DOMAIN lists[l] :
            lists[l][k].xid \in e.cut \cap DOMAIN e.new
      BY <1>1 DEF ParentsFirst, IsInsertList, IsOp
    <2> QED
      BY <2>1 DEF Missing
  <1> HIDE DEF missing, nodes
  <1>5. (op.move => z \in DOMAIN moved) /\ IsPartly(e, nodes, P, e.newNum, KeptKids(e, e.new))
    <2>1. CASE op.move
      <3>1. /\ z \in DOMAIN moved /\ Apply!Below(moved, z) = P
            /\ IsPartly(e, [y \in P |-> moved[y]], P, e.newNum, KeptKids(e, e.new))
        BY <1>1, <1>3, <2>1, MovedNodes
      <3>2. nodes = [y \in P |-> moved[y]]
        BY <2>1, <3>1 DEF nodes, Incoming
      <3> QED
        BY <3>1, <3>2
    <2>2. CASE ~op.move
      <3>1. IsPartly(e, Apply!Content(op), P, e.newNum, KeptKids(e, e.new))
        BY <1>2, <2>2, InsertedNodes
      <3>2. nodes = Apply!Content(op)
        BY <2>2 DEF nodes, Incoming
      <3> QED
        BY <2>2, <3>1, <3>2
    <2> QED
      BY <1>3, <2>1, <2>2
  <1>6. joined = Apply!Joined(t, nodes)
    BY DEF nodes
  <1> DEFINE grown == [joined EXCEPT ![op.par].kids = Apply!InsertAt(t[op.par].kids, op.pos, z)]
  <1>7. /\ op.par \in DOMAIN t /\ op.pos <= Len(t[op.par].kids) + 1
        /\ DOMAIN nodes = P /\ P \cap DOMAIN t = {}
        /\ joined[op.par] = t[op.par]
        /\ AlreadyThere(e, missing \ {z}, grown)
    <2>1. AlreadyThere(e, missing, t)
      BY <1>1
    <2> QED
      <3>1. IsPartly(e, nodes, P, e.newNum, KeptKids(e, e.new))
        BY <1>5
      <3>2. /\ IsOp(e, e.new, e.newNum, e.old, op) /\ op.xid \in missing
            /\ PlaceIsReady(e, missing, op)
        BY <1>2
      <3>3. P = Travellers(e, e.new, op.xid)
        OBVIOUS
      <3> HIDE DEF P
      <3>4. IsGrafted(e, missing, t, op, P, nodes, joined, grown)
        <4>1. grown = Grown(joined, t, op)
          BY DEF Grown
        <4> HIDE DEF grown
        <4> QED
          BY <1>4, <1>6, <2>1, <3>1, <3>2, <3>3, <4>1, GraftStep
      <3> QED
        BY <3>4 DEF IsGrafted
  <1>8. grown = [joined EXCEPT ![op.par].kids = Apply!InsertAt(joined[op.par].kids, op.pos, z)]
    BY <1>7
  <1>9. (IF op.move THEN waiting \ {z} ELSE waiting) = (missing \ {z}) \cap DOMAIN e.old
    BY <1>1, <1>3
  <1> HIDE DEF grown
  <1>10. Inserting(e, Popped(lists), grown, moved, IF op.move THEN waiting \ {z} ELSE waiting)
    BY <1>1, <1>2, <1>7, <1>9 DEF Inserting
  <1> QED
    BY <1>2, <1>3, <1>5, <1>7, <1>8, <1>10 DEF nodes, Travellers

-----------------------------------------------------------------------------
(* The children that stay in place, in their new order. *)
LEMMA KeptInNewOrder ==
  ASSUME NEW e, IsEdit(e), NEW t, NEW nodes, nodes \subseteq Both(e), NEW f,
         IsPartly(e, t, nodes, e.oldNum, f), NEW g,
         \A x \in nodes : f[x] = Apply!Kids(e.old, x) \ e.cut,
         \A x \in nodes : g[x] = Apply!Kids(e.new, x) \ e.cut
  PROVE  IsPartly(e, t, nodes, e.newNum, g)
PROOF
  <1>1. ASSUME NEW x \in nodes
        PROVE  Lists(t[x].kids, g[x], e.newNum)
    <2>1. x \in Both(e) /\ x \in DOMAIN e.new
      BY DEF Both
    <2>2. /\ f[x] = g[x]
          /\ \A c, d \in f[x] : e.oldNum[c] < e.oldNum[d] => e.newNum[c] < e.newNum[d]
      BY <2>1 DEF IsEdit, KeptAlike
    <2>3. \A c \in g[x] : e.newNum[c] \in Int
      <3>1. Grows(e.new, e.newNum, e.n)
        BY DEF IsEdit, IsSide, IsForest
      <3>2. \A c \in Apply!Kids(e.new, x) : c \in DOMAIN e.new
        BY <2>1, <3>1, NumbersRank
      <3>3. \A c \in DOMAIN e.new : e.newNum[c] \in Nat
        BY <3>1, NumbersRank
      <3> QED
        BY <3>2, <3>3
    <2>4. Lists(t[x].kids, f[x], e.oldNum)
      BY DEF IsPartly
    <2> QED
      BY <2>2, <2>3, <2>4, Renumbered
  <1> QED
    BY <1>1 DEF IsPartly

(***************************************************************************)
(* Between deletes and inserts: everything that stays is in its new place  *)
(* already, and everything that is moved is at hand.                       *)
(***************************************************************************)
LEMMA DeletesDone ==
  ASSUME NEW e, IsEdit(e), NEW t, NEW moved, NEW waiting, Deleting(e, <<>>, t, moved, waiting),
         NEW lists, ParentsFirst(e, lists), Missing(lists) = e.cut \cap DOMAIN e.new
  PROVE  Inserting(e, lists, t, moved, waiting)
PROOF
  <1> DEFINE missing == Missing(lists)
             A == OldPlaces(e, {})
             f == [x \in DOMAIN e.old |-> OldKids(e, {}, x)]
             g == [x \in DOMAIN e.new |-> Apply!Kids(e.new, x) \ missing]
  <1>1. Undone(<<>>) = {}
    BY DEF Undone
  <1>2. /\ StillThere(e, {}, t) /\ TakenOut(e, {}, moved)
        /\ waiting = e.cut \cap Both(e)
    BY <1>1 DEF Deleting
  <1>3. IsSide(e, e.old, e.oldNum) /\ IsSide(e, e.new, e.newNum)
    BY DEF IsEdit
  <1>4. e.top \in DOMAIN e.old /\ e.top \in DOMAIN e.new
    BY <1>3 DEF IsSide, IsRooted
  <1>5. A = {x \in DOMAIN e.old : e.home[x] = e.top}
    BY DEF OldPlaces
  <1>6. A = {x \in DOMAIN e.new : e.home[x] = e.top} /\ A \subseteq Both(e)
    BY <1>4, <1>5 DEF IsEdit, Both
  <1>7. A = NewPlaces(e, missing)
    <2>1. e.top \notin missing
      BY <1>3 DEF IsSide
    <2>2. \A x \in DOMAIN e.new : e.home[x] = e.top \/ e.home[x] \in missing
      BY <1>3 DEF IsSide
    <2> HIDE DEF missing
    <2> QED
      BY <1>6, <2>1, <2>2 DEF NewPlaces
  <1>8. \A x \in DOMAIN e.new : Apply!Kids(e.new, x) \subseteq DOMAIN e.new
    BY <1>3 DEF IsSide, IsForest, Grows
  <1>9. AlreadyThere(e, missing, t)
    <2>1. IsPartly(e, t, A, e.oldNum, f)
      BY <1>2 DEF StillThere
    <2>2. \A x \in A : f[x] = Apply!Kids(e.old, x) \ e.cut
      <3>1. \A x \in A : f[x] = OldKids(e, {}, x)
        BY <1>5
      <3> QED
        BY <3>1 DEF OldKids
    <2>3. \A x \in A : g[x] = Apply!Kids(e.new, x) \ e.cut
      <3>1. \A x \in A : x \in DOMAIN e.new /\ g[x] = Apply!Kids(e.new, x) \ missing
        BY <1>6
      <3> QED
        BY <1>8, <3>1
    <2> HIDE DEF A, f, g, missing
    <2>4. IsPartly(e, t, A, e.newNum, g)
      BY <1>6, <2>1, <2>2, <2>3, KeptInNewOrder
    <2>5. \A x \in DOMAIN e.new : Apply!Kids(e.new, x) \cap e.cut \subseteq missing
      BY <1>8 DEF missing
    <2> QED
      BY <1>7, <2>4, <2>5 DEF AlreadyThere, g
  <1>10. Movable(e, moved)
    <2> DEFINE M == {x \in Both(e) : e.home[x] \notin {} \cup {e.top}}
    <2>1. IsPartly(e, moved, M, e.oldNum, KeptKids(e, e.old))
      BY <1>2 DEF TakenOut
    <2>2. M = Movables(e)
      BY DEF Movables
    <2>3. \A x \in Movables(e) : /\ KeptKids(e, e.old)[x] = Apply!Kids(e.old, x) \ e.cut
                                 /\ KeptKids(e, e.new)[x] = Apply!Kids(e.new, x) \ e.cut
      BY DEF Movables, Both, KeptKids
    <2>4. Movables(e) \subseteq Both(e)
      BY DEF Movables
    <2> HIDE DEF M
    <2>5. IsPartly(e, moved, Movables(e), e.newNum, KeptKids(e, e.new))
      BY <2>1, <2>2, <2>3, <2>4, KeptInNewOrder
    <2> QED
      BY <2>5 DEF Movable
  <1>11. waiting = missing \cap DOMAIN e.old
    BY <1>2 DEF Both
  <1> QED
    BY <1>9, <1>10, <1>11 DEF Inserting

(* When all lists have been gone through, the new tree is there. *)
LEMMA InsertsDone ==
  ASSUME NEW e, IsEdit(e), NEW t, NEW moved, NEW waiting, Inserting(e, <<>>, t, moved, waiting)
  PROVE  /\ t = [x \in DOMAIN e.new |-> Node(e.was[x], e.new[x].kids)]
         /\ waiting = {}
PROOF
  <1> DEFINE g == [x \in DOMAIN e.new |-> Apply!Kids(e.new, x) \ {}]
  <1>1. Missing(<<>>) = {}
    BY DEF Missing
  <1>2. AlreadyThere(e, {}, t) /\ waiting = {}
    BY <1>1 DEF Inserting
  <1>3. NewPlaces(e, {}) = DOMAIN e.new
    BY DEF NewPlaces
  <1>4. IsPartly(e, t, DOMAIN e.new, e.newNum, g)
    BY <1>2, <1>3 DEF AlreadyThere
  <1>5. \A x \in DOMAIN e.new : g[x] = Apply!Kids(e.new, x)
    OBVIOUS
  <1>6. Grows(e.new, e.newNum, e.n)
    BY DEF IsEdit, IsSide, IsForest
  <1> HIDE DEF g
  <1>7. t = [x \in DOMAIN e.new |-> Node(e.was[x], e.new[x].kids)]
    BY <1>4, <1>5, <1>6, PartlyAll
  <1> QED
    BY <1>2, <1>7

-----------------------------------------------------------------------------
(* The operations below one parent, as SortInserts lists them. *)
OpsBelow(ops, par) == {k \in DOMAIN ops : ops[k].par = par}

NotAfter(ops, h, k) == ops[h].pos < ops[k].pos \/ (ops[h].pos = ops[k].pos /\ h <= k)

ListBelow(ops, mine) ==
  [p \in 1 .. Apply!Cardinality(mine) |->
     ops[CHOOSE k \in mine : Apply!Cardinality({h \in mine : NotAfter(ops, h, k)}) = p]]

(* The first operation for each parent. *)
FirstBelow(ops) == {k \in DOMAIN ops : \A h \in 1 .. (k - 1) : ops[h].par # ops[k].par}

(* Two operations below one parent concern two places. *)
LEMMA PlacesDiffer ==
  ASSUME NEW e, NEW t, NEW num, NEW u, NEW ops, IsScript(e, t, num, u, ops), IsSide(e, t, num),
         NEW h \in DOMAIN ops, NEW k \in DOMAIN ops, ops[h].par = ops[k].par
  PROVE  /\ ops[h].pos = ops[k].pos => h = k
         /\ ops[h].pos \in Int
PROOF
  <1>1. IsOp(e, t, num, u, ops[h]) /\ IsOp(e, t, num, u, ops[k])
    BY DEF IsScript
  <1>2. ops[h].pos = ops[k].pos => ops[h].xid = ops[k].xid
    BY <1>1 DEF IsOp
  <1>3. ops[h].pos \in Int
    <2> DEFINE s == t[ops[h].par].kids
               A == Apply!Kids(t, ops[h].par)
    <2>1. Lists(s, A, num) /\ ops[h].pos \in DOMAIN s
      BY <1>1 DEF IsOp, IsSide, IsForest, Grows
    <2> HIDE DEF s, A
    <2>2. DOMAIN s = 1 .. Len(s)
      BY <2>1, ListFacts
    <2> QED
      BY <2>1, <2>2
  <1> QED
    BY <1>2, <1>3 DEF IsScript

(* The order of operations by position is that of numbers. *)
LEMMA PositionsRank ==
  ASSUME NEW ops, IsList(ops), NEW mine, mine \subseteq DOMAIN ops,
         \A k \in mine : ops[k].pos \in Int
  PROVE  \E r : /\ IsRanking(mine, r)
                /\ \A h, k \in mine : NotAfter(ops, h, k) <=> r[h] <= r[k]
PROOF
  <1> DEFINE n == Len(ops) + 1
             r == [k \in mine |-> ops[k].pos * n + k]
  <1>1. DOMAIN ops = 1 .. Len(ops) /\ Len(ops) \in Nat
    BY ListDomain
  <1>2. n \in Nat /\ \A k \in mine : k \in Int /\ 0 < k /\ k < n
    BY <1>1
  <1>3. IsFiniteSet(mine)
    <2>1. IsFiniteSet(1 .. Len(ops))
      BY <1>1, FS_Interval
    <2> QED
      BY <1>1, <2>1, FS_Subset
  <1> HIDE DEF n
  <1>4. ASSUME NEW h \in mine, NEW k \in mine
        PROVE  /\ r[h] \in Int /\ (NotAfter(ops, h, k) <=> r[h] <= r[k])
               /\ r[h] = r[k] => h = k
    <2>1. PICK a \in Int, b \in Int : a = ops[h].pos /\ b = ops[k].pos
      OBVIOUS
    <2>2. r[h] = a * n + h /\ r[k] = b * n + k
      BY <2>1
    <2> HIDE DEF r
    <2>3. a * n \in Int /\ b * n \in Int
      BY <1>2
    <2>4. CASE a < b
      <3>1. PICK c \in Nat : b = (a + 1) + c
        <4>1. b - (a + 1) \in Nat /\ b = (a + 1) + (b - (a + 1))
          BY <2>4
        <4> QED
          BY <4>1
      <3>2. b * n = a * n + n + c * n /\ c * n \in Nat
        BY <1>2, <3>1
      <3>3. r[h] < r[k]
        BY <1>2, <2>2, <2>3, <3>2
      <3> QED
        BY <1>2, <2>1, <2>2, <2>3, <2>4, <3>3 DEF NotAfter
    <2>5. CASE a = b
      BY <1>2, <2>1, <2>2, <2>3, <2>5 DEF NotAfter
    <2>6. CASE b < a
      <3>1. PICK c \in Nat : a = (b + 1) + c
        <4>1. a - (b + 1) \in Nat /\ a = (b + 1) + (a - (b + 1))
          BY <2>6
        <4> QED
          BY <4>1
      <3>2. a * n = b * n + n + c * n /\ c * n \in Nat
        BY <1>2, <3>1
      <3>3. r[k] < r[h]
        BY <1>2, <2>2, <2>3, <3>2
      <3> QED
        BY <1>2, <2>1, <2>2, <2>3, <2>6, <3>3 DEF NotAfter
    <2> QED
      BY <2>4, <2>5, <2>6
  <1>5. IsRanking(mine, r)
    <2>1. \A a \in mine : r[a] \in Int
      BY <1>4
    <2>2. \A a, b \in mine : r[a] = r[b] => a = b
      BY <1>4
    <2>3. r = [a \in mine |-> r[a]]
      OBVIOUS
    <2> HIDE DEF r
    <2>4. r \in [mine -> Int]
      BY <2>1, <2>3
    <2> QED
      BY <1>3, <2>2, <2>4 DEF IsRanking
  <1>6. \A h, k \in mine : NotAfter(ops, h, k) <=> r[h] <= r[k]
    BY <1>4
  <1> HIDE DEF r
  <1> QED
    BY <1>5, <1>6

(* s has the operations of mine, each once, by position; w says which is where. *)
OrderedBy(w, r, s, ops, mine) ==
  /\ Lists(w, mine, r)
  /\ \A h, k \in mine : NotAfter(ops, h, k) <=> r[h] <= r[k]
  /\ s = [p \in 1 .. Len(w) |-> ops[w[p]]]

(* ListBelow picks these operations, each once, by position. *)
LEMMA ListedBelow ==
  ASSUME NEW ops, IsList(ops), NEW mine, mine \subseteq DOMAIN ops,
         \A k \in mine : ops[k].pos \in Int
  PROVE  \E w, r : OrderedBy(w, r, ListBelow(ops, mine), ops, mine)
PROOF
  <1>1. PICK r : /\ IsRanking(mine, r)
                 /\ \A h, k \in mine : NotAfter(ops, h, k) <=> r[h] <= r[k]
    BY PositionsRank
  <1> DEFINE C(p) == CHOOSE k \in mine : Apply!Cardinality({h \in mine : NotAfter(ops, h, k)}) = p
             w == [p \in 1 .. Cardinality(mine) |-> CHOOSE a \in mine : Place(mine, r, a) = p]
  <1>2. Lists(w, mine, r)
    <2>1. w = [p \in 1 .. Cardinality(mine) |-> CHOOSE a \in mine : Place(mine, r, a) = p]
      OBVIOUS
    <2> HIDE DEF w
    <2> QED
      BY <1>1, <2>1, PlacesList
  <1>3. \A k \in mine : Apply!Cardinality({h \in mine : NotAfter(ops, h, k)}) = Place(mine, r, k)
    <2> SUFFICES ASSUME NEW k \in mine
                 PROVE  Apply!Cardinality({h \in mine : NotAfter(ops, h, k)}) = Place(mine, r, k)
      OBVIOUS
    <2>1. {h \in mine : NotAfter(ops, h, k)} = {h \in mine : r[h] <= r[k]}
      BY <1>1
    <2> QED
      BY <2>1, OneCardinality DEF Place
  <1>4. \A p \in 1 .. Cardinality(mine) : C(p) = w[p]
    BY <1>3
  <1>5. ListBelow(ops, mine) = [p \in 1 .. Cardinality(mine) |-> ops[C(p)]]
    BY OneCardinality DEF ListBelow
  <1> HIDE DEF C, w
  <1>6. ListBelow(ops, mine) = [p \in 1 .. Cardinality(mine) |-> ops[w[p]]]
    BY <1>4, <1>5
  <1>7. Cardinality(mine) = Len(w)
    BY <1>2, ListedPlaces
  <1>8. ListBelow(ops, mine) = [p \in 1 .. Len(w) |-> ops[w[p]]]
    BY <1>6, <1>7
  <1>9. OrderedBy(w, r, ListBelow(ops, mine), ops, mine)
    BY <1>1, <1>2, <1>8 DEF OrderedBy
  <1> QED
    BY <1>9

(***************************************************************************)
(* The list for one parent: all the operations below it, by position.      *)
(***************************************************************************)
LEMMA OneParentsList ==
  ASSUME NEW e, IsEdit(e), NEW ops, IsScript(e, e.new, e.newNum, e.old, ops), NEW par,
         NEW mine, mine = OpsBelow(ops, par), mine # {}, NEW s, s = ListBelow(ops, mine)
  PROVE  /\ IsInsertList(e, s) /\ s[1].par = par
         /\ \A k \in mine : \E p \in DOMAIN s : s[p] = ops[k]
         /\ \A p \in DOMAIN s : s[p].par = par /\ \E k \in mine : s[p] = ops[k]
PROOF
  <1>1. IsSide(e, e.new, e.newNum)
    BY DEF IsEdit
  <1>2. mine \subseteq DOMAIN ops /\ \A k \in mine : ops[k].par = par
    BY DEF OpsBelow
  <1>3. \A h, k \in mine : (ops[h].pos = ops[k].pos => h = k) /\ ops[h].pos \in Int
    BY <1>1, <1>2, PlacesDiffer
  <1>4. IsList(ops)
    BY DEF IsScript
  <1>0. PICK w, r : OrderedBy(w, r, s, ops, mine)
    BY <1>2, <1>3, <1>4, ListedBelow
  <1>5. /\ Lists(w, mine, r)
        /\ \A h, k \in mine : NotAfter(ops, h, k) <=> r[h] <= r[k]
        /\ s = [p \in 1 .. Len(w) |-> ops[w[p]]]
    BY <1>0 DEF OrderedBy
  <1>6. /\ Len(w) \in Nat /\ Cardinality(mine) = Len(w)
        /\ \A p \in 1 .. Len(w) : w[p] \in mine
        /\ \A k \in mine : \E p \in 1 .. Len(w) : w[p] = k
        /\ \A p, q \in 1 .. Len(w) : p < q => r[w[p]] < r[w[q]]
    BY <1>5, ListFacts, ListedPlaces
  <1>7. DOMAIN s = 1 .. Len(w) /\ \A p \in 1 .. Len(w) : s[p] = ops[w[p]]
    BY <1>5, <1>6
  <1>8. IsList(s)
    <2> DEFINE R == {s[k] : k \in DOMAIN s}
    <2>1. s \in [1 .. Len(w) -> R]
      BY <1>5, <1>6
    <2> HIDE DEF R
    <2>2. s \in Seq(R)
      BY <1>6, <2>1
    <2> QED
      BY <2>2 DEF IsList, R
  <1>9. 1 \in DOMAIN s /\ s # <<>>
    <2>1. Len(w) # 0
      <3>1. \E p \in 1 .. Len(w) : TRUE
        BY <1>6
      <3> QED
        BY <1>6, <3>1
    <2>2. 1 \in 1 .. Len(w)
      BY <1>6, <2>1
    <2> QED
      BY <1>7, <2>2
  <1>10. \A p \in DOMAIN s : s[p].par = par /\ \E k \in mine : s[p] = ops[k]
    BY <1>2, <1>6, <1>7
  <1>11. \A k \in mine : \E p \in DOMAIN s : s[p] = ops[k]
    BY <1>6, <1>7
  <1>12. \A p \in DOMAIN s : IsOp(e, e.new, e.newNum, e.old, s[p])
    BY <1>2, <1>10 DEF IsScript
  <1>13. \A p, q \in DOMAIN s : p < q => s[p].pos < s[q].pos
    <2>1. \A a, b \in mine : r[a] < r[b] => ops[a].pos < ops[b].pos
      <3> SUFFICES ASSUME NEW a \in mine, NEW b \in mine, r[a] < r[b]
                   PROVE  ops[a].pos < ops[b].pos
        OBVIOUS
      <3>1. ~(r[b] <= r[a]) /\ a # b
        BY <1>5, ListFacts
      <3>2. ~NotAfter(ops, b, a)
        BY <1>5, <3>1
      <3> QED
        BY <1>3, <3>1, <3>2 DEF NotAfter
    <2> QED
      BY <1>6, <1>7, <2>1
  <1> QED
    BY <1>8, <1>9, <1>10, <1>11, <1>12, <1>13 DEF IsInsertList

(* Every parent an operation names is named for the first time somewhere. *)
LEMMA NamedFirst ==
  ASSUME NEW ops, IsList(ops), NEW k \in DOMAIN ops
  PROVE  \E f \in FirstBelow(ops) : f <= k /\ ops[f].par = ops[k].par
PROOF
  <1> DEFINE T == OpsBelow(ops, ops[k].par)
  <1>1. DOMAIN ops = 1 .. Len(ops) /\ Len(ops) \in Nat
    BY ListDomain
  <1>2. T \in SUBSET Nat /\ k \in T
    BY <1>1 DEF OpsBelow
  <1>3. PICK f \in T : \A m \in T : f <= m
    BY <1>2, LeastNumber
  <1>4. f \in DOMAIN ops /\ ops[f].par = ops[k].par /\ f <= k
    BY <1>2, <1>3 DEF OpsBelow
  <1>5. \A h \in 1 .. (f - 1) : ops[h].par # ops[f].par
    <2> SUFFICES ASSUME NEW h \in 1 .. (f - 1), ops[h].par = ops[f].par
                 PROVE  FALSE
      OBVIOUS
    <2>1. h \in DOMAIN ops /\ ~(f <= h)
      BY <1>1, <1>4
    <2>2. h \in T
      BY <1>4, <2>1 DEF OpsBelow
    <2> QED
      BY <1>3, <2>1, <2>2
  <1> QED
    BY <1>4, <1>5 DEF FirstBelow

(* SortInserts makes a list for each parent that is named, in that order. *)
LEMMA ListsOfParents ==
  ASSUME NEW ops, IsList(ops), NEW first, first = FirstBelow(ops)
  PROVE  \E q : /\ Lists(q, first, [p \in first |-> p])
                /\ Apply!SortInserts(ops)
                     = [l \in 1 .. Len(q) |-> ListBelow(ops, OpsBelow(ops, ops[q[l]].par))]
PROOF
  <1> DEFINE heads == Apply!AtPlaces(ops, first)
             Mine(l) == OpsBelow(ops, heads[l].par)
  <1>1. DOMAIN ops = 1 .. Len(ops) /\ Len(ops) \in Nat
    BY ListDomain
  <1>2. IsFiniteSet(first) /\ first \subseteq Int
    <2>1. first \subseteq 1 .. Len(ops)
      BY <1>1 DEF FirstBelow
    <2>2. IsFiniteSet(1 .. Len(ops)) /\ 1 .. Len(ops) \subseteq Int
      BY <1>1, FS_Interval
    <2>3. IsFiniteSet(first)
      BY <2>1, <2>2, FS_Subset
    <2> QED
      BY <2>1, <2>2, <2>3
  <1>3. Apply!SortInserts(ops) = [l \in 1 .. Cardinality(first) |-> ListBelow(ops, Mine(l))]
    <2>1. Apply!SortInserts(ops)
            = [l \in 1 .. Apply!Cardinality(first) |-> ListBelow(ops, Mine(l))]
      BY DEF Apply!SortInserts, FirstBelow, OpsBelow, ListBelow, NotAfter
    <2> HIDE DEF Mine
    <2> QED
      BY <2>1, OneCardinality
  <1>4. PICK q : /\ Lists(q, first, [p \in first |-> p])
                 /\ heads = [k \in 1 .. Len(q) |-> ops[q[k]]]
    BY <1>2, PickedInOrder
  <1> HIDE DEF heads
  <1>5. Cardinality(first) = Len(q)
    BY <1>4, ListedPlaces
  <1>6. Apply!SortInserts(ops)
          = [l \in 1 .. Len(q) |-> ListBelow(ops, OpsBelow(ops, ops[q[l]].par))]
    BY <1>3, <1>4, <1>5
  <1> QED
    BY <1>4, <1>6

(***************************************************************************)
(* SortInserts turns the insert operations of a delta that names parents   *)
(* first into lists that do, and leaves none out.                          *)
(***************************************************************************)
LEMMA SortedInserts ==
  ASSUME NEW e, IsEdit(e), NEW ops, IsScript(e, e.new, e.newNum, e.old, ops), TopDown(e, ops),
         NEW lists, lists = Apply!SortInserts(ops)
  PROVE  /\ ParentsFirst(e, lists)
         /\ Missing(lists) = e.cut \cap DOMAIN e.new
PROOF
  <1> DEFINE first == FirstBelow(ops)
             id == [p \in first |-> p]
  <1>1. DOMAIN ops = 1 .. Len(ops) /\ Len(ops) \in Nat /\ IsList(ops)
    BY ListDomain DEF IsScript
  <1>2. first \subseteq DOMAIN ops
    BY DEF FirstBelow
  <1>3. first = FirstBelow(ops)
    OBVIOUS
  <1> HIDE DEF first
  <1>4. PICK q : /\ Lists(q, first, [p \in first |-> p])
                 /\ Apply!SortInserts(ops)
                      = [l \in 1 .. Len(q) |-> ListBelow(ops, OpsBelow(ops, ops[q[l]].par))]
    BY <1>1, <1>3, ListsOfParents
  <1> DEFINE Mine(l) == OpsBelow(ops, ops[q[l]].par)
  <1>5. Lists(q, first, id) /\ lists = [l \in 1 .. Len(q) |-> ListBelow(ops, Mine(l))]
    BY <1>4
  <1>6. \A p \in first : id[p] = p
    OBVIOUS
  <1> HIDE DEF id
  <1>7. /\ Len(q) \in Nat
        /\ \A l \in 1 .. Len(q) : q[l] \in first
        /\ \A f \in first : \E l \in 1 .. Len(q) : q[l] = f
        /\ \A k, l \in 1 .. Len(q) : k < l => id[q[k]] < id[q[l]]
    BY <1>5, ListFacts
  <1>8. \A k, l \in 1 .. Len(q) : k < l => q[k] < q[l]
    BY <1>6, <1>7
  <1>9. DOMAIN lists = 1 .. Len(q) /\ IsList(lists)
    <2> DEFINE R == {lists[k] : k \in DOMAIN lists}
    <2>1. DOMAIN lists = 1 .. Len(q)
      BY <1>5, <1>7
    <2>2. lists \in [1 .. Len(q) -> R]
      BY <1>5, <2>1
    <2> HIDE DEF R
    <2>3. lists \in Seq(R)
      BY <1>7, <2>2
    <2> QED
      BY <2>1, <2>3 DEF IsList, R
  <1>10. ASSUME NEW l \in 1 .. Len(q)
         PROVE  /\ q[l] \in first /\ q[l] \in DOMAIN ops
                /\ IsInsertList(e, lists[l]) /\ lists[l][1].par = ops[q[l]].par
                /\ \A k \in Mine(l) : \E p \in DOMAIN lists[l] : lists[l][p] = ops[k]
                /\ \A p \in DOMAIN lists[l] : \E k \in Mine(l) : lists[l][p] = ops[k]
    <2>1. q[l] \in first /\ q[l] \in DOMAIN ops
      BY <1>2, <1>7
    <2> DEFINE par == ops[q[l]].par
               mine == OpsBelow(ops, par)
    <2>2. q[l] \in mine
      BY <2>1 DEF OpsBelow
    <2>3. mine # {} /\ lists[l] = ListBelow(ops, mine) /\ Mine(l) = mine
      BY <1>5, <2>1, <2>2
    <2>4. mine = OpsBelow(ops, par) /\ par = ops[q[l]].par
      OBVIOUS
    <2> HIDE DEF mine, par, Mine
    <2>5. /\ IsInsertList(e, lists[l]) /\ lists[l][1].par = par
          /\ \A k \in mine : \E p \in DOMAIN lists[l] : lists[l][p] = ops[k]
          /\ \A p \in DOMAIN lists[l] : lists[l][p].par = par /\ \E k \in mine : lists[l][p] = ops[k]
      BY <2>3, <2>4, OneParentsList
    <2> QED
      BY <2>1, <2>3, <2>4, <2>5
  <1>11. \A k \in DOMAIN ops : \E l \in 1 .. Len(q) : q[l] <= k /\ k \in Mine(l)
    <2> SUFFICES ASSUME NEW k \in DOMAIN ops
                 PROVE  \E l \in 1 .. Len(q) : q[l] <= k /\ k \in Mine(l)
      OBVIOUS
    <2>1. PICK f \in first : f <= k /\ ops[f].par = ops[k].par
      BY <1>1, NamedFirst DEF first
    <2>2. PICK l \in 1 .. Len(q) : q[l] = f
      BY <1>7
    <2> QED
      BY <2>1, <2>2 DEF OpsBelow
  <1>12. Missing(lists) = e.cut \cap DOMAIN e.new
    <2>1. ASSUME NEW x \in Missing(lists)
          PROVE  x \in e.cut \cap DOMAIN e.new
      <3>1. PICK l \in DOMAIN lists : \E p \in DOMAIN lists[l] : lists[l][p].xid = x
        BY DEF Missing
      <3>2. PICK p \in DOMAIN lists[l] : lists[l][p].xid = x
        BY <3>1
      <3>3. PICK k \in Mine(l) : lists[l][p] = ops[k]
        BY <1>9, <1>10, <3>1
      <3>4. k \in DOMAIN ops
        BY DEF OpsBelow
      <3>5. IsOp(e, e.new, e.newNum, e.old, ops[k])
        BY <3>4 DEF IsScript
      <3> QED
        BY <3>2, <3>3, <3>5 DEF IsOp
    <2>2. ASSUME NEW x \in e.cut \cap DOMAIN e.new
          PROVE  x \in Missing(lists)
      <3>1. PICK k \in DOMAIN ops : ops[k].xid = x
        BY DEF IsScript
      <3>2. PICK l \in 1 .. Len(q) : k \in Mine(l)
        BY <1>11
      <3>3. PICK p \in DOMAIN lists[l] : lists[l][p] = ops[k]
        BY <1>10, <3>2
      <3> QED
        BY <1>9, <3>1, <3>3 DEF Missing
    <2> QED
      BY <2>1, <2>2
  <1>13. ASSUME NEW k \in DOMAIN lists, NEW l \in DOMAIN lists, lists[k][1].par = lists[l][1].par
         PROVE  k = l
    <2>1. ops[q[k]].par = ops[q[l]].par /\ q[k] \in first /\ q[l] \in first
      BY <1>9, <1>10, <1>13
    <2>2. \A f, g \in first : ops[f].par = ops[g].par => ~(f < g)
      BY <1>1, <1>2 DEF first, FirstBelow
    <2>3. k \in Int /\ l \in Int
      BY <1>9
    <2> QED
      BY <1>8, <1>9, <2>1, <2>2, <2>3
  <1>14. ASSUME NEW l \in DOMAIN lists, e.home[lists[l][1].par] \in Missing(lists)
         PROVE  \E m \in 1 .. (l - 1) : \E h \in DOMAIN lists[m] :
                  lists[m][h].xid = e.home[lists[l][1].par]
    <2> DEFINE z == e.home[lists[l][1].par]
    <2>1. q[l] \in DOMAIN ops /\ z = e.home[ops[q[l]].par] /\ z \in e.cut
      BY <1>9, <1>10, <1>12, <1>14
    <2>2. PICK h \in 1 .. (q[l] - 1) : ops[h].xid = z
      BY <2>1 DEF TopDown
    <2>3. h \in DOMAIN ops /\ h \in Int /\ h < q[l] /\ q[l] \in Int
      BY <1>1, <2>1
    <2>4. PICK m \in 1 .. Len(q) : q[m] <= h /\ h \in Mine(m)
      BY <1>11, <2>3
    <2>5. q[m] \in Int
      BY <1>1, <1>10
    <2>6. m \in 1 .. (l - 1)
      <3>1. ~(l <= m)
        <4>1. ~(l < m)
          BY <1>8, <1>9, <2>3, <2>4, <2>5
        <4>2. l # m
          BY <2>3, <2>4, <2>5
        <4> QED
          BY <1>9, <4>1, <4>2
      <3> QED
        BY <1>9, <3>1
    <2>7. PICK p \in DOMAIN lists[m] : lists[m][p] = ops[h]
      BY <1>10, <2>4
    <2>8. lists[m][p].xid = z
      BY <2>2, <2>7
    <2> QED
      BY <2>6, <2>8
  <1>15. \A l \in DOMAIN lists : IsInsertList(e, lists[l])
    BY <1>9, <1>10
  <1> QED
    BY <1>9, <1>12, <1>13, <1>14, <1>15 DEF ParentsFirst

(***************************************************************************)
(* A walk that meets a node after what hangs below it meets the node it    *)
(* travels with no earlier.                                                *)
(***************************************************************************)
LEMMA HomeIsLater ==
  ASSUME NEW e, NEW t, NEW num, IsSide(e, t, num), NEW walk, Walked(walk, DOMAIN t, t)
  PROVE  \A k, l \in 1 .. Len(walk) : walk[l] = e.home[walk[k]] => k <= l
PROOF
  <1> DEFINE D == DOMAIN t
             rank == [x \in D |-> e.n - num[x]]
             T == {x \in D : \A k, l \in 1 .. Len(walk) :
                               walk[k] = x /\ walk[l] = e.home[x] => k <= l}
  <1>1. Grows(t, num, e.n)
    BY DEF IsSide, IsForest
  <1>2. e.n \in Nat /\ \A x \in D : num[x] \in 1 .. e.n
    BY <1>1 DEF Grows
  <1>3. rank \in [D -> Nat]
    BY <1>2
  <1>4. /\ \A x \in D : \E k \in 1 .. Len(walk) : walk[k] = x
        /\ \A k \in 1 .. Len(walk) : walk[k] \in D
        /\ \A k, l \in 1 .. Len(walk) : walk[k] = walk[l] => k = l
        /\ \A k, l \in 1 .. Len(walk) : walk[l] \in Apply!Kids(t, walk[k]) => l < k
        /\ Len(walk) \in Nat
    BY DEF Walked
  <1>5. ASSUME NEW x \in D, \A y \in D : rank[y] < rank[x] => y \in T
        PROVE  x \in T
    <2>1. CASE x \in e.cut \cup {e.top}
      <3>1. e.home[x] = x
        BY <2>1 DEF IsSide
      <3> QED
        BY <1>4, <3>1
    <2>2. CASE x \notin e.cut \cup {e.top}
      <3>1. PICK p \in D : x \in Apply!Kids(t, p)
        BY <2>2 DEF IsSide, IsRooted
      <3>2. e.home[x] = e.home[p]
        BY <2>2, <3>1 DEF IsSide
      <3>3. rank[p] < rank[x]
        BY <1>1, <1>2, <3>1 DEF Grows
      <3>4. p \in T
        BY <1>5, <3>3
      <3>5. PICK m \in 1 .. Len(walk) : walk[m] = p
        BY <1>4
      <3>6. ASSUME NEW k \in 1 .. Len(walk), NEW l \in 1 .. Len(walk), walk[k] = x, walk[l] = e.home[x]
            PROVE  k <= l
        <4>1. m <= l
          BY <3>2, <3>4, <3>5, <3>6
        <4>2. k < m
          BY <1>4, <3>1, <3>5, <3>6
        <4> QED
          BY <1>4, <4>1, <4>2
      <3> QED
        BY <3>6
    <2> QED
      BY <2>1, <2>2
  <1> HIDE DEF rank, T
  <1>6. \A x \in D : x \in T
    BY <1>3, <1>5, RankInduction
  <1> QED
    BY <1>4, <1>6 DEF T

(* The root of a side has everything below it. *)
LEMMA AllBelowRoot ==
  ASSUME NEW e, NEW t, NEW num, IsSide(e, t, num)
  PROVE  Apply!Below(t, e.top) = DOMAIN t
PROOF
  <1> DEFINE P == DOMAIN t
             z == e.top
  <1>1. Grows(t, num, e.n) /\ z \in P /\ P \subseteq DOMAIN t
    BY DEF IsSide, IsForest, IsRooted
  <1>2. \A x \in P : Apply!Kids(t, x) \subseteq P
    BY <1>1 DEF Grows
  <1>3. \A x \in P \ {z} : \E p \in P : x \in Apply!Kids(t, p)
    BY DEF IsSide, IsRooted
  <1> HIDE DEF P, z
  <1>4. Apply!Below(t, z) = P
    BY <1>1, <1>2, <1>3, BelowIs
  <1> QED
    BY <1>4 DEF P, z

(***************************************************************************)
(* SortDeletes arranges the delete operations so that each finds only      *)
(* nodes below its own that travel with it, and leaves none out.           *)
(***************************************************************************)
LEMMA SortedDeletes ==
  ASSUME NEW e, IsEdit(e), NEW ops, IsScript(e, e.old, e.oldNum, e.new, ops),
         NEW sorted, sorted = Apply!SortDeletes(ops, e.old, e.top)
  PROVE  /\ BottomUp(e, sorted)
         /\ Undone(sorted) = e.cut \cap DOMAIN e.old
PROOF
  <1> DEFINE D == DOMAIN e.old
             walk == Apply!Unroll(e.old, e.top)
             About(y) == CHOOSE k \in DOMAIN ops : ops[k].xid = y
             met == {p \in DOMAIN walk : \E k \in DOMAIN ops : ops[k].xid = walk[p]}
             met2 == Apply!AtPlaces(walk, met)
             id == [p \in met |-> p]
  <1>1. IsSide(e, e.old, e.oldNum)
    BY DEF IsEdit
  <1>2. Walked(walk, D, e.old)
    <2>1. IsForest(e.old, e.oldNum, e.n) /\ e.top \in D
      BY <1>1 DEF IsSide, IsRooted
    <2>2. Walked(Apply!Unroll(e.old, e.top), Apply!Below(e.old, e.top), e.old)
      BY <2>1, UnrollWalks
    <2>3. Apply!Below(e.old, e.top) = D
      BY <1>1, AllBelowRoot
    <2> QED
      BY <2>2, <2>3
  <1>3. sorted = [k \in 1 .. Apply!Cardinality(met) |-> ops[About(met2[k])]]
    BY DEF Apply!SortDeletes
  <1>4. \A z \in e.cut \cap D : About(z) \in DOMAIN ops /\ ops[About(z)].xid = z
    <2> SUFFICES ASSUME NEW z \in e.cut \cap D
                 PROVE  About(z) \in DOMAIN ops /\ ops[About(z)].xid = z
      OBVIOUS
    <2>1. \E k \in DOMAIN ops : ops[k].xid = z
      BY DEF IsScript
    <2> QED
      BY <2>1
  <1> HIDE DEF walk, About
  <1>5. /\ walk \in Seq(D) /\ DOMAIN walk = 1 .. Len(walk) /\ Len(walk) \in Nat
        /\ \A x \in D : \E k \in 1 .. Len(walk) : walk[k] = x
        /\ \A k \in 1 .. Len(walk) : walk[k] \in D
        /\ \A k, l \in 1 .. Len(walk) : walk[k] = walk[l] => k = l
        /\ \A k, l \in 1 .. Len(walk) : walk[l] \in Apply!Kids(e.old, walk[k]) => l < k
    BY <1>2 DEF Walked
  <1>6. \A p \in 1 .. Len(walk) : p \in met <=> walk[p] \in e.cut
    <2>1. \A k \in DOMAIN ops : ops[k].xid \in e.cut
      BY DEF IsScript, IsOp
    <2>2. \A z \in e.cut \cap D : \E k \in DOMAIN ops : ops[k].xid = z
      BY DEF IsScript
    <2> QED
      BY <1>5, <2>1, <2>2
  <1>7. met \subseteq 1 .. Len(walk)
    BY <1>5
  <1>8. IsFiniteSet(met) /\ met \subseteq Int
    <2>1. IsFiniteSet(1 .. Len(walk)) /\ 1 .. Len(walk) \subseteq Int
      BY <1>5, FS_Interval
    <2> HIDE DEF met
    <2>2. IsFiniteSet(met)
      BY <1>7, <2>1, FS_Subset
    <2> QED
      BY <1>7, <2>1, <2>2
  <1> HIDE DEF met
  <1>9. \E q : /\ Lists(q, met, [p \in met |-> p])
               /\ Apply!AtPlaces(walk, met) = [k \in 1 .. Len(q) |-> walk[q[k]]]
    BY <1>8, PickedInOrder, SMTT(30)
  <1>10. PICK q : Lists(q, met, id) /\ met2 = [k \in 1 .. Len(q) |-> walk[q[k]]]
    BY <1>9
  <1>11. \A p \in met : id[p] = p
    OBVIOUS
  <1> HIDE DEF id, met2
  <1>12. /\ Len(q) \in Nat /\ Cardinality(met) = Len(q)
         /\ \A l \in 1 .. Len(q) : q[l] \in met
         /\ \A f \in met : \E l \in 1 .. Len(q) : q[l] = f
         /\ \A k, l \in 1 .. Len(q) : k < l => id[q[k]] < id[q[l]]
    BY <1>10, ListFacts, ListedPlaces
  <1>13. \A k, l \in 1 .. Len(q) : k < l => q[k] < q[l]
    BY <1>11, <1>12
  <1>14. sorted = [k \in 1 .. Len(q) |-> ops[About(walk[q[k]])]]
    BY <1>3, <1>10, <1>12, OneCardinality
  <1>15. ASSUME NEW k \in 1 .. Len(q)
         PROVE  /\ q[k] \in 1 .. Len(walk) /\ walk[q[k]] \in e.cut \cap D
                /\ sorted[k].xid = walk[q[k]]
                /\ IsOp(e, e.old, e.oldNum, e.new, sorted[k])
    <2>1. q[k] \in 1 .. Len(walk) /\ walk[q[k]] \in e.cut \cap D
      BY <1>5, <1>6, <1>7, <1>12
    <2>2. sorted[k] = ops[About(walk[q[k]])]
      BY <1>14
    <2>3. About(walk[q[k]]) \in DOMAIN ops /\ ops[About(walk[q[k]])].xid = walk[q[k]]
      BY <1>4, <2>1
    <2> QED
      BY <2>1, <2>2, <2>3 DEF IsScript
  <1>16. DOMAIN sorted = 1 .. Len(q) /\ IsList(sorted)
    <2> DEFINE R == {sorted[k] : k \in DOMAIN sorted}
    <2>1. DOMAIN sorted = 1 .. Len(q)
      BY <1>14
    <2>2. sorted \in [1 .. Len(q) -> R]
      BY <1>14, <2>1
    <2> HIDE DEF R
    <2>3. sorted \in Seq(R)
      BY <1>12, <2>2
    <2> QED
      BY <2>1, <2>3 DEF IsList, R
  <1>17. Undone(sorted) = e.cut \cap D
    <2>1. \A x \in Undone(sorted) : x \in e.cut \cap D
      BY <1>15, <1>16 DEF Undone
    <2>2. ASSUME NEW x \in e.cut \cap D
          PROVE  x \in Undone(sorted)
      <3>1. PICK p \in 1 .. Len(walk) : walk[p] = x
        BY <1>5
      <3>2. PICK k \in 1 .. Len(q) : q[k] = p
        BY <1>6, <1>12, <3>1
      <3> QED
        BY <1>15, <1>16, <3>1, <3>2 DEF Undone
    <2> QED
      BY <2>1, <2>2
  <1>18. ASSUME NEW k \in 1 .. Len(q), NEW l \in 1 .. Len(q), sorted[k].xid = sorted[l].xid
         PROVE  k = l
    <2>1. q[k] = q[l] /\ q[k] \in Int
      BY <1>5, <1>15, <1>18
    <2>2. ~(k < l) /\ ~(l < k)
      BY <1>13, <2>1
    <2> QED
      BY <1>12, <2>2
  <1>19. ASSUME NEW k \in 1 .. Len(q), NEW l \in 1 .. Len(q), k < l,
                e.home[sorted[l].par] = sorted[k].xid
         PROVE  FALSE
    <2> DEFINE p == sorted[l].par
    <2>1. p \in D /\ walk[q[l]] \in Apply!Kids(e.old, p)
      <3>1. IsOp(e, e.old, e.oldNum, e.new, sorted[l]) /\ sorted[l].xid = walk[q[l]]
        BY <1>15
      <3>2. sorted[l].xid \in Apply!Kids(e.old, sorted[l].par)
        BY <1>1, <3>1, ParentIsNotBelow
      <3> QED
        BY <3>1, <3>2 DEF IsOp
    <2>2. PICK m \in 1 .. Len(walk) : walk[m] = p
      BY <1>5, <2>1
    <2>3. q[l] < m
      BY <1>5, <1>15, <2>1, <2>2
    <2>4. m <= q[k]
      <3>1. walk[q[k]] = e.home[walk[m]] /\ q[k] \in 1 .. Len(walk)
        BY <1>15, <1>19, <2>2
      <3> QED
        BY <1>1, <1>2, <3>1, HomeIsLater
    <2>5. q[k] < q[l] /\ q[k] \in Int /\ q[l] \in Int /\ m \in Int
      BY <1>5, <1>13, <1>15, <1>19
    <2> QED
      BY <2>3, <2>4, <2>5
  <1>20. \A k \in DOMAIN sorted : e.home[sorted[k].par] \in Undone(sorted) \cup {e.top}
    <2>1. \A x \in D : e.home[x] \in e.cut \cup {e.top} /\ e.home[x] \in D
      BY <1>1 DEF IsSide
    <2>2. \A k \in DOMAIN sorted : sorted[k].par \in D
      BY <1>15, <1>16 DEF IsOp
    <2> QED
      BY <1>17, <2>1, <2>2
  <1> QED
    BY <1>15, <1>16, <1>17, <1>18, <1>19, <1>20 DEF BottomUp

(* The engine at its start: all of the old tree, and no operation done. *)
LEMMA DeletesBegin ==
  ASSUME NEW e, IsEdit(e), NEW ops, IsScript(e, e.old, e.oldNum, e.new, ops),
         NEW sorted, sorted = Apply!SortDeletes(ops, e.old, e.top),
         NEW t, t = e.old, t = [x \in DOMAIN e.old |-> Node(e.was[x], e.old[x].kids)]
  PROVE  Deleting(e, sorted, t, <<>>, {})
PROOF
  <1> DEFINE D == DOMAIN e.old
             undone == Undone(sorted)
             f == [x \in D |-> OldKids(e, undone, x)]
  <1>1. BottomUp(e, sorted) /\ undone = e.cut \cap D
    BY SortedDeletes
  <1>2. IsSide(e, e.old, e.oldNum)
    BY DEF IsEdit
  <1> HIDE DEF undone
  <1>3. OldPlaces(e, undone) = D
    BY <1>1, <1>2 DEF OldPlaces, IsSide
  <1>4. Grows(e.old, e.oldNum, e.n)
    BY <1>2 DEF IsSide, IsForest
  <1>5. \A x \in D : OldKids(e, undone, x) = Apply!Kids(e.old, x)
    BY <1>1, <1>4 DEF OldKids, Grows
  <1>6. \A x \in D : f[x] = Apply!Kids(e.old, x) /\ Lists(t[x].kids, f[x], e.oldNum)
    BY <1>4, <1>5 DEF Grows
  <1>7. \A x \in D : t[x] = Node(e.was[x], t[x].kids)
    OBVIOUS
  <1>8. DOMAIN t = D /\ t = [x \in DOMAIN t |-> t[x]]
    OBVIOUS
  <1> HIDE DEF f
  <1>9. IsPartly(e, t, D, e.oldNum, f)
    BY <1>6, <1>7, <1>8, PartlyMade
  <1>10. StillThere(e, undone, t)
    BY <1>3, <1>9 DEF StillThere, f
  <1>11. TakenOut(e, undone, <<>>)
    <2>1. {x \in Both(e) : e.home[x] \notin undone \cup {e.top}} = {}
      BY <1>1, <1>2 DEF Both, IsSide
    <2>2. <<>> = [x \in {} |-> Node(e.was[x], <<>>[x].kids)]
      OBVIOUS
    <2> QED
      BY <2>1, <2>2 DEF TakenOut, IsPartly
  <1>12. {} = (e.cut \cap Both(e)) \ undone
    BY <1>1 DEF Both
  <1> QED
    BY <1>1, <1>10, <1>11, <1>12 DEF Deleting, undone

-----------------------------------------------------------------------------
(***************************************************************************)
(* The first document is to become the second, whose nodes have the XIDs   *)
(* xids; cut0 and cut1 are the nodes the operations are about.             *)
(***************************************************************************)
Numbers(d, xid) == [x \in Named(xid, Nodes(d)) |-> CHOOSE j \in Nodes(d) : xid[j] = x]

EditHome(d0, d1, xids, cut0, cut1) ==
  [x \in Nodes(d0) \cup Named(xids, Nodes(d1)) |->
     IF x \in Nodes(d0) THEN HomeOf(d0, cut0, x)
     ELSE xids[HomeOf(d1, cut1, Numbers(d1, xids)[x])]]

EditOf(d0, d1, xids, cut0, cut1) ==
  [old    |-> TreeOf(d0, DefaultXids(d0)),
   new    |-> TreeOf(d1, xids),
   top    |-> Root(d0),
   oldNum |-> DefaultXids(d0),
   newNum |-> Numbers(d1, xids),
   n      |-> d0.n + d1.n,
   cut    |-> cut0 \cup Named(xids, cut1),
   home   |-> EditHome(d0, d1, xids, cut0, cut1),
   was    |-> [x \in Nodes(d0) \cup Named(xids, Nodes(d1)) |->
                IF x \in Nodes(d0) THEN TreeOf(d0, DefaultXids(d0))[x] ELSE TreeOf(d1, xids)[x]]]

(* What xydelta has to do. *)
ForthEdit == EditOf(v0, v1, FinalXids, OldScripted, NewScripted)

(* The names and numbers of the nodes of ForthEdit. *)
IsNamedForth(e) ==
  /\ e.old = TreeOf(v0, DefaultXids(v0)) /\ e.new = TreeOf(v1, FinalXids)
  /\ e.top = Root(v0) /\ e.n \in Nat /\ v0.n <= e.n /\ v1.n <= e.n
  /\ IsNumbering(v0, DefaultXids(v0), e.oldNum) /\ IsNumbering(v1, FinalXids, e.newNum)
  /\ DOMAIN e.old = Nodes(v0) /\ DOMAIN e.new = Named(FinalXids, Nodes(v1))
  /\ \A i \in Nodes(v0) : e.oldNum[i] = i /\ Apply!Kids(e.old, i) = Children(v0, i)
  /\ \A j \in Nodes(v1) :
       /\ FinalXids[j] \in DOMAIN e.new /\ e.newNum[FinalXids[j]] = j
       /\ Apply!Kids(e.new, FinalXids[j]) = Named(FinalXids, Children(v1, j))
  /\ \A i \in Nodes(v0) : i \in DOMAIN e.new <=> v0event[i] # "deleted"
  /\ \A j \in Nodes(v1) : FinalXids[j] \in DOMAIN e.old <=> v1event[j] # "inserted"

(* The nodes of its operations, and what they travel with. *)
IsCutForth(e) ==
  /\ e.cut = OldScripted \cup Named(FinalXids, NewScripted)
  /\ e.cut \cap DOMAIN e.old = OldScripted
  /\ e.cut \cap DOMAIN e.new = Named(FinalXids, NewScripted)
  /\ \A i \in Nodes(v0) : e.home[i] = OldHome(i)
  /\ \A j \in Nodes(v1) : e.home[FinalXids[j]] = FinalXids[NewHome(j)]
  /\ \A i \in Nodes(v0) : e.was[i] = e.old[i]
  /\ \A x \in DOMAIN e.new \ DOMAIN e.old : e.was[x] = e.new[x]

(***************************************************************************)
(* The XIDs of ForthEdit name the nodes of v1 one by one, and those of v0. *)
(***************************************************************************)
LEMMA ForthNames ==
  ASSUME DeltaIsWritten, NEW e, e = ForthEdit
  PROVE  IsNamedForth(e)
PROOF
  <1> DEFINE id == DefaultXids(v0)
             xids == FinalXids
  <1>1. IsDocument(v0) /\ IsDocument(v1)
    BY FinalMarks
  <1>2. /\ e.old = TreeOf(v0, id) /\ e.new = TreeOf(v1, xids) /\ e.top = Root(v0)
        /\ e.oldNum = id /\ e.newNum = Numbers(v1, xids) /\ e.n = v0.n + v1.n
    BY DEF ForthEdit, EditOf
  <1>3. v0.n \in Nat /\ v1.n \in Nat /\ v0.n <= v0.n + v1.n /\ v1.n <= v0.n + v1.n
    BY <1>1, DocumentFacts
  <1>4. \A i \in Nodes(v0) : id[i] = i
    BY DEF DefaultXids
  <1>5. IsNumbering(v0, id, id)
    BY <1>4 DEF IsNumbering
  <1>6. \A j \in Nodes(v1) : xids[j] \in Named(xids, Nodes(v1))
    BY DEF Named
  <1>7. \A j, k \in Nodes(v1) : xids[j] = xids[k] => j = k
    BY NamesDiffer
  <1> HIDE DEF xids, id
  <1>8. IsNumbering(v1, xids, Numbers(v1, xids))
    <2> SUFFICES ASSUME NEW j \in Nodes(v1)
                 PROVE  Numbers(v1, xids)[xids[j]] = j
      BY DEF IsNumbering
    <2>1. (CHOOSE k \in Nodes(v1) : xids[k] = xids[j]) = j
      BY <1>7
    <2> QED
      BY <1>6, <2>1 DEF Numbers
  <1>9. \A S \in SUBSET Nodes(v0) : Named(id, S) = S
    BY <1>4 DEF Named
  <1>10. DOMAIN e.old = Named(id, Nodes(v0)) /\ DOMAIN e.new = Named(xids, Nodes(v1))
    BY <1>1, <1>2, <1>5, <1>8, TreeOfNodes
  <1>11. \A i \in Nodes(v0) : Apply!Kids(e.old, id[i]) = Named(id, Children(v0, i))
    BY <1>1, <1>2, <1>5, TreeOfNodes
  <1>12. \A j \in Nodes(v1) : Apply!Kids(e.new, xids[j]) = Named(xids, Children(v1, j))
    BY <1>1, <1>2, <1>8, TreeOfNodes
  <1>13. DOMAIN e.old = Nodes(v0)
    BY <1>9, <1>10
  <1>14. \A i \in Nodes(v0) : Children(v0, i) \subseteq Nodes(v0)
    BY <1>1, DocumentNodes
  <1>15. \A i \in Nodes(v0) : Apply!Kids(e.old, i) = Children(v0, i)
    <2> TAKE i \in Nodes(v0)
    <2>1. Apply!Kids(e.old, i) = Named(id, Children(v0, i))
      BY <1>4, <1>11
    <2> QED
      BY <1>9, <1>14, <2>1
  <1>16. \A i \in Nodes(v0) : i \in DOMAIN e.new <=> v0event[i] # "deleted"
    <2> TAKE i \in Nodes(v0)
    <2>1. i \in DOMAIN e.new <=> \E j \in Nodes(v1) : xids[j] = i
      BY <1>10 DEF Named
    <2>2. v0event[i] # "deleted" => \E j \in Nodes(v1) : xids[j] = i
      BY OldNodesNamed DEF xids
    <2>3. v0event[i] = "deleted" => \A j \in Nodes(v1) : xids[j] # i
      BY DeletedNotNamed DEF xids
    <2> QED
      BY <2>1, <2>2, <2>3
  <1>17. \A j \in Nodes(v1) : xids[j] \in DOMAIN e.old <=> v1event[j] # "inserted"
    BY <1>13, NameFacts DEF xids
  <1>18. \A i \in Nodes(v0) : e.oldNum[i] = i
    BY <1>2, <1>4
  <1>19. \A j \in Nodes(v1) : e.newNum[xids[j]] = j
    BY <1>2, <1>8 DEF IsNumbering
  <1>20. /\ e.old = TreeOf(v0, id) /\ e.new = TreeOf(v1, xids)
         /\ e.top = Root(v0) /\ e.n \in Nat /\ v0.n <= e.n /\ v1.n <= e.n
         /\ IsNumbering(v0, id, e.oldNum) /\ IsNumbering(v1, xids, e.newNum)
    BY <1>2, <1>3, <1>5, <1>8
  <1> QED
    BY <1>6, <1>10, <1>12, <1>13, <1>15, <1>16, <1>17, <1>18, <1>19, <1>20
    DEF IsNamedForth, xids, id

(***************************************************************************)
(* Its operations are about the nodes that are scripted in either          *)
(* document, and its homes are the homes there.                            *)
(***************************************************************************)
LEMMA ForthCut ==
  ASSUME DeltaIsWritten, NEW e, e = ForthEdit, IsNamedForth(e)
  PROVE  IsCutForth(e)
PROOF
  <1> DEFINE xids == FinalXids
             all == Nodes(v0) \cup Named(xids, Nodes(v1))
  <1>1. /\ DOMAIN e.old = Nodes(v0) /\ DOMAIN e.new = Named(xids, Nodes(v1))
        /\ \A j \in Nodes(v1) : xids[j] \in DOMAIN e.new /\ e.newNum[xids[j]] = j
        /\ \A i \in Nodes(v0) : i \in DOMAIN e.new <=> v0event[i] # "deleted"
        /\ \A j \in Nodes(v1) : xids[j] \in DOMAIN e.old <=> v1event[j] # "inserted"
    BY DEF IsNamedForth
  <1>2. /\ e.cut = OldScripted \cup Named(xids, NewScripted)
        /\ e.home = EditHome(v0, v1, xids, OldScripted, NewScripted)
        /\ e.newNum = Numbers(v1, xids) /\ e.old = TreeOf(v0, DefaultXids(v0))
        /\ e.new = TreeOf(v1, xids)
        /\ e.was = [x \in all |-> IF x \in Nodes(v0) THEN TreeOf(v0, DefaultXids(v0))[x]
                                  ELSE TreeOf(v1, xids)[x]]
    BY DEF ForthEdit, EditOf
  <1>3. /\ OldScripted \subseteq Nodes(v0) /\ NewScripted \subseteq Nodes(v1)
    BY RootsNotScripted
  <1>4. \A j \in Nodes(v1), i \in Nodes(v0) : xids[j] = i => (i \in OldScripted <=> j \in NewScripted)
    BY StaysBelow
  <1>5. \A j \in Nodes(v1), k \in Nodes(v1) : xids[j] = xids[k] => j = k
    BY NamesDiffer
  <1>6. \A i \in Nodes(v0) : \A j \in Nodes(v1) : xids[j] = i => OldHome(i) = xids[NewHome(j)]
    BY HomesAgree
  <1> HIDE DEF xids
  <1>7. e.cut \cap DOMAIN e.old = OldScripted
    <2>1. ASSUME NEW x \in Named(xids, NewScripted), x \in Nodes(v0)
          PROVE  x \in OldScripted
      <3>1. PICK j \in NewScripted : x = xids[j]
        BY DEF Named
      <3> QED
        BY <1>3, <1>4, <2>1, <3>1
    <2> QED
      BY <1>1, <1>2, <1>3, <2>1
  <1>8. e.cut \cap DOMAIN e.new = Named(xids, NewScripted)
    <2>1. ASSUME NEW x \in OldScripted, x \in Named(xids, Nodes(v1))
          PROVE  x \in Named(xids, NewScripted)
      <3>1. PICK j \in Nodes(v1) : x = xids[j]
        BY <2>1 DEF Named
      <3>2. j \in NewScripted
        BY <1>3, <1>4, <2>1, <3>1
      <3> QED
        BY <3>1, <3>2 DEF Named
    <2>2. Named(xids, NewScripted) \subseteq Named(xids, Nodes(v1))
      BY <1>3 DEF Named
    <2> QED
      BY <1>1, <1>2, <2>1, <2>2
  <1>9. \A i \in Nodes(v0) : e.home[i] = OldHome(i)
    BY <1>2 DEF EditHome, OldHome
  <1>10. \A j \in Nodes(v1) : e.home[xids[j]] = xids[NewHome(j)]
    <2> TAKE j \in Nodes(v1)
    <2>1. CASE xids[j] \in Nodes(v0)
      BY <1>6, <1>9, <2>1
    <2>2. CASE xids[j] \notin Nodes(v0)
      <3>1. Numbers(v1, xids)[xids[j]] = j
        BY <1>1, <1>2
      <3>2. xids[j] \in Named(xids, Nodes(v1))
        BY <1>1
      <3> QED
        BY <1>2, <2>2, <3>1, <3>2 DEF EditHome, NewHome
    <2> QED
      BY <2>1, <2>2
  <1>11. \A i \in Nodes(v0) : e.was[i] = e.old[i]
    BY <1>2
  <1>12. \A x \in DOMAIN e.new \ DOMAIN e.old : e.was[x] = e.new[x]
    BY <1>1, <1>2
  <1> QED
    BY <1>2, <1>7, <1>8, <1>9, <1>10, <1>11, <1>12 DEF IsCutForth, xids

(***************************************************************************)
(* Each of the two trees is a side of ForthEdit.                           *)
(***************************************************************************)
LEMMA ForthSides ==
  ASSUME DeltaIsWritten, NEW e, IsNamedForth(e), IsCutForth(e)
  PROVE  IsSide(e, e.old, e.oldNum) /\ IsSide(e, e.new, e.newNum)
PROOF
  <1> DEFINE id == DefaultXids(v0)
             xids == FinalXids
  <1>1. IsDocument(v0) /\ IsDocument(v1)
    BY FinalMarks
  <1>2. /\ e.old = TreeOf(v0, id) /\ e.new = TreeOf(v1, xids)
        /\ e.top = Root(v0) /\ e.n \in Nat /\ v0.n <= e.n /\ v1.n <= e.n
        /\ IsNumbering(v0, id, e.oldNum) /\ IsNumbering(v1, xids, e.newNum)
        /\ DOMAIN e.old = Nodes(v0) /\ DOMAIN e.new = Named(xids, Nodes(v1))
    BY DEF IsNamedForth
  <1>3. /\ e.cut = OldScripted \cup Named(xids, NewScripted)
        /\ e.cut \cap DOMAIN e.old = OldScripted
        /\ e.cut \cap DOMAIN e.new = Named(xids, NewScripted)
        /\ \A i \in Nodes(v0) : e.home[i] = OldHome(i)
        /\ \A j \in Nodes(v1) : e.home[xids[j]] = xids[NewHome(j)]
    BY DEF IsCutForth
  <1>4. /\ OldScripted \subseteq Nodes(v0) \ {Root(v0)}
        /\ NewScripted \subseteq Nodes(v1) \ {Root(v1)}
        /\ Root(v0) \in Nodes(v0) /\ Root(v1) \in Nodes(v1)
        /\ xids[Root(v1)] = Root(v0)
    BY RootsNotScripted
  <1>5. \A i \in Nodes(v0) : id[i] = i
    BY DEF DefaultXids
  <1>6. \A z \in e.cut \cup {e.top} : e.home[z] = z
    <2>1. \A i \in OldScripted \cup {Root(v0)} : OldHome(i) = i
      BY <1>4, OldHomes
    <2>2. \A j \in NewScripted : NewHome(j) = j
      BY <1>4, NewHomes
    <2>3. ASSUME NEW z \in Named(xids, NewScripted)
          PROVE  e.home[z] = z
      <3>1. PICK j \in NewScripted : z = xids[j]
        BY DEF Named
      <3> QED
        BY <1>3, <1>4, <2>2, <3>1
    <2> QED
      BY <1>2, <1>3, <1>4, <2>1, <2>3
  <1> HIDE DEF id, xids
  <1>7. \A i \in Nodes(v0) : e.home[id[i]] = id[HomeOf(v0, OldScripted, i)]
    <2> TAKE i \in Nodes(v0)
    <2>1. OldHome(i) \in Nodes(v0)
      BY OldHomes
    <2> QED
      BY <1>3, <1>5, <2>1 DEF OldHome
  <1>8. \A j \in Nodes(v1) : e.home[xids[j]] = xids[HomeOf(v1, NewScripted, j)]
    BY <1>3 DEF NewHome
  <1>9. e.top = id[Root(v0)] /\ e.top = xids[Root(v1)]
    BY <1>2, <1>4, <1>5
  <1>10. e.cut \cap DOMAIN e.old = Named(id, OldScripted)
    BY <1>3, <1>4, <1>5 DEF Named
  <1>11. IsSide(e, e.old, e.oldNum)
    BY <1>1, <1>2, <1>4, <1>6, <1>7, <1>9, <1>10, TreeIsSide
  <1>12. IsSide(e, e.new, e.newNum)
    BY <1>1, <1>2, <1>3, <1>4, <1>6, <1>8, <1>9, TreeIsSide
  <1> QED
    BY <1>11, <1>12

-----------------------------------------------------------------------------
(***************************************************************************)
(* The children a node keeps are the same in both trees.                   *)
(***************************************************************************)
LEMMA ForthKeepsKids ==
  ASSUME DeltaIsWritten, NEW e, IsNamedForth(e), IsCutForth(e),
         NEW i \in Nodes(v0), NEW j \in Nodes(v1), FinalXids[j] = i
  PROVE  Apply!Kids(e.old, i) \ e.cut = Apply!Kids(e.new, i) \ e.cut
PROOF
  <1> DEFINE xids == FinalXids
  <1>1. /\ DOMAIN e.old = Nodes(v0) /\ DOMAIN e.new = Named(xids, Nodes(v1))
        /\ \A k \in Nodes(v0) : Apply!Kids(e.old, k) = Children(v0, k)
        /\ \A k \in Nodes(v1) : Apply!Kids(e.new, xids[k]) = Named(xids, Children(v1, k))
        /\ \A k \in Nodes(v0) : k \in DOMAIN e.new <=> v0event[k] # "deleted"
        /\ \A k \in Nodes(v1) : xids[k] \in DOMAIN e.old <=> v1event[k] # "inserted"
    BY DEF IsNamedForth
  <1>2. /\ e.cut \cap DOMAIN e.old = OldScripted
        /\ e.cut \cap DOMAIN e.new = Named(xids, NewScripted)
    BY DEF IsCutForth
  <1>3. IsDocument(v0) /\ IsDocument(v1)
    BY FinalMarks
  <1>4. /\ \A c : c \in Children(v0, i) <=> c \in Nodes(v0) /\ v0.parent[c] = i
        /\ \A k : k \in Children(v1, j) <=> k \in Nodes(v1) /\ v1.parent[k] = j
        /\ v0.parent[Root(v0)] = 0 /\ v1.parent[Root(v1)] = 0 /\ i # 0 /\ j # 0
    BY <1>3, DocumentFacts
  <1>5. \A k, l \in Nodes(v1) : xids[k] = xids[l] => k = l
    BY NamesDiffer
  <1>6. i \in DOMAIN e.new /\ i \in DOMAIN e.old
    BY <1>1 DEF Named
  <1>7. ASSUME NEW c \in Children(v0, i), c \notin e.cut
        PROVE  c \in Apply!Kids(e.new, i)
    <2>1. c \in Nodes(v0) /\ v0.parent[c] = i /\ c # Root(v0) /\ c \notin OldScripted
      BY <1>1, <1>2, <1>4, <1>7
    <2>2. v0event[c] # "deleted"
      BY <1>1, <1>6, <2>1, DeletedBelow
    <2>3. PICK k \in Nodes(v1) : xids[k] = c
      BY <2>1, <2>2, OldNodesNamed
    <2>4. v1.parent[k] \in Nodes(v1) /\ xids[v1.parent[k]] = i
      BY <2>1, <2>3, StaysBelow
    <2>5. v1.parent[k] = j
      BY <1>5, <2>4
    <2> QED
      BY <1>1, <1>4, <2>3, <2>5 DEF Named
  <1>8. ASSUME NEW c \in Apply!Kids(e.new, i), c \notin e.cut
        PROVE  c \in Children(v0, i)
    <2>1. PICK k \in Children(v1, j) : c = xids[k]
      BY <1>1, <1>8 DEF Named
    <2>2. k \in Nodes(v1) /\ v1.parent[k] = j /\ k # Root(v1)
      BY <1>4, <2>1
    <2>3. k \notin NewScripted
      BY <1>1, <1>2, <1>8, <2>1, <2>2 DEF Named
    <2>4. v1event[k] # "inserted"
      BY <1>1, <1>6, <2>2, <2>3, InsertedBelow
    <2>5. c \in Nodes(v0)
      BY <1>1, <2>1, <2>2, <2>4
    <2>6. c # Root(v0) /\ c \notin OldScripted /\ v0.parent[c] = i
      BY <2>1, <2>2, <2>3, <2>5, StaysBelow
    <2> QED
      BY <1>4, <2>5, <2>6
  <1> QED
    BY <1>1, <1>7, <1>8

(***************************************************************************)
(* They are in one order in both.                                          *)
(***************************************************************************)
LEMMA ForthKeepsOrder ==
  ASSUME DeltaIsWritten, NEW e, IsNamedForth(e), IsCutForth(e),
         NEW i \in Nodes(v0), v0event[i] # "deleted",
         NEW c \in Children(v0, i), NEW d \in Children(v0, i), c \notin e.cut, d \notin e.cut, c < d
  PROVE  e.newNum[c] < e.newNum[d]
PROOF
  <1> DEFINE xids == FinalXids
  <1>1. /\ DOMAIN e.old = Nodes(v0)
        /\ \A k \in Nodes(v1) : e.newNum[xids[k]] = k
    BY DEF IsNamedForth
  <1>2. e.cut \cap DOMAIN e.old = OldScripted
    BY DEF IsCutForth
  <1>3. /\ IsDocument(v0) /\ IsDocument(v1) /\ MatchedDocuments
        /\ \A k \in Nodes(v0) :
             /\ v0event[k] \in {"nop", "deleted", "strongmove", "weakmove", "updateOld"}
             /\ v0event[k] \in {"deleted", "updateOld"} <=> ~v0Assigned(k)
             /\ v0event[k] = "updateOld" <=> \E u \in Updates : u[1] = k
    BY FinalMarks
  <1>4. /\ c \in Nodes(v0) /\ v0.parent[c] = i /\ d \in Nodes(v0) /\ v0.parent[d] = i
        /\ v0.parent[Root(v0)] = 0 /\ i # 0 /\ c # d
    <2>1. c \in Int /\ d \in Int
      BY DEF Children
    <2> QED
      BY <1>3, <2>1, DocumentFacts
  <1>5. KeptInOrder /\ MovesMarked
    BY DEF DeltaIsWritten, DeltaInv, MovesMarked
  <1>6. ASSUME NEW k \in {c, d}
        PROVE  v0event[k] = "nop" /\ v0match[k] \in Nodes(v1) /\ e.newNum[k] = v0match[k]
    <2>1. k \in Nodes(v0) /\ v0.parent[k] = i /\ k # Root(v0) /\ k \notin OldScripted
      BY <1>1, <1>2, <1>4
    <2>2. v0event[k] # "deleted"
      BY <2>1, DeletedBelow
    <2>3. v0event[k] \notin Moves
      BY <2>1 DEF OldScripted, v0Scripted
    <2>4. v0event[k] # "updateOld"
      <3>1. SUFFICES ASSUME v0event[k] = "updateOld"
                     PROVE  FALSE
        OBVIOUS
      <3>2. PICK u \in Updates : u[1] = k
        BY <1>3, <2>1, <3>1
      <3>3. Children(v0, i) = {k}
        BY <1>3, <2>1, <3>2, UpdatedTexts
      <3> QED
        BY <1>4, <3>3
    <2>5. v0event[k] = "nop" /\ v0Assigned(k)
      BY <1>3, <2>1, <2>2, <2>3, <2>4 DEF Moves
    <2>6. v0match[k] \in Nodes(v1) /\ v1match[v0match[k]] = k /\ v1Assigned(v0match[k])
      BY <1>3, <2>1, <2>5, MatchingFacts
    <2>7. xids[v0match[k]] = k
      BY <2>6, NameFacts, ZenonT(30)
    <2> QED
      BY <1>1, <2>5, <2>6, <2>7
  <1>7. v0match[c] < v0match[d]
    BY <1>4, <1>5, <1>6 DEF KeptInOrder
  <1> QED
    BY <1>6, <1>7

(***************************************************************************)
(* ForthEdit is an edit: what the engine needs of the two documents, the   *)
(* matching and the marks.                                                 *)
(***************************************************************************)
LEMMA ForthIsEdit ==
  ASSUME DeltaIsWritten, NEW e, IsNamedForth(e), IsCutForth(e)
  PROVE  IsEdit(e)
PROOF
  <1> DEFINE xids == FinalXids
  <1>1. /\ DOMAIN e.old = Nodes(v0) /\ DOMAIN e.new = Named(xids, Nodes(v1))
        /\ \A k \in Nodes(v0) : e.oldNum[k] = k /\ Apply!Kids(e.old, k) = Children(v0, k)
        /\ \A k \in Nodes(v0) : k \in DOMAIN e.new <=> v0event[k] # "deleted"
        /\ \A k \in Nodes(v1) : xids[k] \in DOMAIN e.old <=> v1event[k] # "inserted"
    BY DEF IsNamedForth
  <1>2. /\ e.cut = OldScripted \cup Named(xids, NewScripted)
        /\ e.cut \cap DOMAIN e.old = OldScripted
        /\ e.cut \cap DOMAIN e.new = Named(xids, NewScripted)
        /\ \A i \in Nodes(v0) : e.home[i] = OldHome(i)
        /\ \A j \in Nodes(v1) : e.home[xids[j]] = xids[NewHome(j)]
    BY DEF IsCutForth
  <1>3. IsDocument(v0)
    BY FinalMarks
  <1>4. \A k \in Nodes(v0) : Children(v0, k) \subseteq Nodes(v0)
    BY <1>3, DocumentNodes
  <1>5. \A i \in Nodes(v0) : OldHome(i) \in Nodes(v0)
    BY OldHomes
  <1>6. \A j \in Nodes(v1) : NewHome(j) \in Nodes(v1)
    BY NewHomes
  <1>7. \A i \in Nodes(v0) : v0event[i] = "deleted" <=> v0event[OldHome(i)] = "deleted"
    BY OldHomeGoesAlong
  <1>8. \A j \in Nodes(v1) : v1event[j] = "inserted" <=> v1event[NewHome(j)] = "inserted"
    BY NewHomeCameAlong
  <1>9. \A x \in DOMAIN e.old : x \in DOMAIN e.new <=> e.home[x] \in DOMAIN e.new
    BY <1>1, <1>2, <1>5, <1>7
  <1>10. \A x \in DOMAIN e.new : x \in DOMAIN e.old <=> e.home[x] \in DOMAIN e.old
    <2> TAKE x \in DOMAIN e.new
    <2>1. PICK j \in Nodes(v1) : x = xids[j]
      BY <1>1 DEF Named
    <2> QED
      BY <1>1, <1>2, <1>6, <1>8, <2>1
  <1>11. e.cut \subseteq Either(e)
    BY <1>2 DEF Either
  <1>12. KeptAlike(e)
    <2> SUFFICES ASSUME NEW x \in Both(e)
                 PROVE  /\ Apply!Kids(e.old, x) \ e.cut = Apply!Kids(e.new, x) \ e.cut
                        /\ \A c, d \in Apply!Kids(e.old, x) \ e.cut :
                             e.oldNum[c] < e.oldNum[d] => e.newNum[c] < e.newNum[d]
      BY DEF KeptAlike
    <2>1. x \in Nodes(v0) /\ v0event[x] # "deleted"
      BY <1>1 DEF Both
    <2>2. PICK j \in Nodes(v1) : x = xids[j]
      BY <1>1 DEF Named, Both
    <2>3. Apply!Kids(e.old, x) \ e.cut = Apply!Kids(e.new, x) \ e.cut
      BY <2>1, <2>2, ForthKeepsKids
    <2>4. ASSUME NEW c \in Apply!Kids(e.old, x) \ e.cut, NEW d \in Apply!Kids(e.old, x) \ e.cut,
                 e.oldNum[c] < e.oldNum[d]
          PROVE  e.newNum[c] < e.newNum[d]
      <3>1. /\ c \in Children(v0, x) /\ d \in Children(v0, x) /\ c \notin e.cut /\ d \notin e.cut
        BY <1>1, <2>1
      <3>2. c < d
        BY <1>1, <1>4, <2>1, <2>4, <3>1
      <3> QED
        BY <2>1, <3>1, <3>2, ForthKeepsOrder
    <2> QED
      BY <2>3, <2>4
  <1>13. IsSide(e, e.old, e.oldNum) /\ IsSide(e, e.new, e.newNum)
    BY ForthSides
  <1> QED
    BY <1>9, <1>10, <1>11, <1>12, <1>13 DEF IsEdit

-----------------------------------------------------------------------------
(***************************************************************************)
(* A child's place in its parent's list is its position.                   *)
(***************************************************************************)
LEMMA PositionIsPlace ==
  ASSUME NEW d, IsDocument(d), NEW xid, NEW num, IsNumbering(d, xid, num),
         NEW i \in Nodes(d) \ {Root(d)},
         NEW u, Lists(u, Named(xid, Children(d, d.parent[i])), num)
  PROVE  Position(d, i) \in DOMAIN u /\ u[Position(d, i)] = xid[i]
PROOF
  <1> DEFINE p == d.parent[i]
             A == Named(xid, Children(d, p))
             S == {b \in Children(d, p) : b <= i}
             T == {a \in A : num[a] <= num[xid[i]]}
             f == [b \in S |-> xid[b]]
  <1>1. /\ p \in Nodes(d) /\ i \in Nodes(d) /\ i \in Children(d, p)
        /\ Children(d, p) \subseteq Nodes(d) /\ IsFiniteSet(Nodes(d))
    <2>1. p \in Nodes(d)
      BY DocumentFacts
    <2> QED
      BY <2>1, DocumentFacts, DocumentNodes
  <1>2. \A b \in Children(d, p) : b \in Nodes(d) /\ num[xid[b]] = b
    BY <1>1 DEF IsNumbering
  <1>3. xid[i] \in A
    BY <1>1 DEF Named
  <1>4. PICK k \in 1 .. Len(u) : u[k] = xid[i]
    BY <1>3, ListFacts
  <1>5. Cardinality({a \in A : num[a] <= num[u[k]]}) = k /\ DOMAIN u = 1 .. Len(u)
    <2>1. Lists(u, A, num)
      OBVIOUS
    <2> HIDE DEF A
    <2>2. \A l \in 1 .. Len(u) : Cardinality({b \in A : num[b] <= num[u[l]]}) = l
      BY <2>1, ListedPlaces, SMTT(30)
    <2> QED
      BY <1>4, <2>1, <2>2, ListFacts
  <1>6. Cardinality(T) = k
    BY <1>4, <1>5
  <1>7. Cardinality(S) = Cardinality(T)
    <2>1. f \in [S -> T]
      BY <1>1, <1>2 DEF Named
    <2>2. IsFiniteSet(S)
      BY <1>1, FS_Subset
    <2>3. \A a, b \in S : f[a] = f[b] => a = b
      BY <1>2
    <2>4. \A z \in T : \E a \in S : f[a] = z
      <3> TAKE z \in T
      <3>1. PICK b \in Children(d, p) : z = xid[b]
        BY DEF Named
      <3>2. b \in S
        BY <1>1, <1>2, <3>1
      <3> QED
        BY <3>1, <3>2
    <2> HIDE DEF f, S, T
    <2> QED
      BY <2>1, <2>2, <2>3, <2>4, SameSize
  <1>8. Position(d, i) = k
    BY <1>6, <1>7 DEF Position
  <1> QED
    BY <1>4, <1>5, <1>8

(* An operation about node i of d, with the nodes that travel with it. *)
IsWrittenOp(e, d, xid, C, u, i, op) ==
  /\ i \in C /\ op.xid = xid[i] /\ op.par = xid[d.parent[i]] /\ op.pos = Position(d, i)
  /\ op.move \in BOOLEAN /\ (op.move <=> xid[i] \in DOMAIN u)
  /\ ~op.move =>
       op.content = {NodeIn(d, xid, k, {l \in Nodes(d) : HomeOf(d, C, l) = i}) :
                     k \in {l \in Nodes(d) : HomeOf(d, C, l) = i}}

(* The nodes of t are those of d, the ones in C are cut. *)
IsCutDocument(e, d, xid, num, t, C) ==
  /\ IsDocument(d) /\ IsNumbering(d, xid, num) /\ t = TreeOf(d, xid)
  /\ C \subseteq Nodes(d) \ {Root(d)}
  /\ e.cut \cap DOMAIN t = Named(xid, C)
  /\ \A i \in Nodes(d) : e.home[xid[i]] = xid[HomeOf(d, C, i)]

(***************************************************************************)
(* The nodes that travel with i keep those of their children that do.      *)
(***************************************************************************)
LEMMA TravellersKids ==
  ASSUME NEW d, IsDocument(d), NEW C, C \subseteq Nodes(d) \ {Root(d)}, NEW i \in C,
         NEW k \in Nodes(d), HomeOf(d, C, k) = i
  PROVE  Children(d, k) \cap {l \in Nodes(d) : HomeOf(d, C, l) = i} = Children(d, k) \ C
PROOF
  <1>1. C \subseteq Nodes(d)
    OBVIOUS
  <1>2. /\ \A c : c \in Children(d, k) <=> c \in Nodes(d) /\ d.parent[c] = k
        /\ d.parent[Root(d)] = 0 /\ k # 0 /\ Nodes(d) \subseteq Nat
        /\ \A c \in Nodes(d) \ {Root(d)} : d.parent[c] > c
    BY DocumentFacts
  <1>3. k <= i
    <2>1. k \in Subtree(d, i)
      BY <1>1, HomeFacts
    <2> QED
      BY <1>1, <2>1, SubtreeFacts
  <1>4. ASSUME NEW c \in Children(d, k)
        PROVE  HomeOf(d, C, c) = i <=> c \notin C
    <2>1. c \in Nodes(d) \ {Root(d)} /\ d.parent[c] = k /\ c < k
      BY <1>2
    <2>2. CASE c \in C
      <3>1. HomeOf(d, C, c) = c
        BY <1>1, <2>2, HomeFacts
      <3> QED
        BY <1>1, <1>2, <1>3, <2>1, <2>2, <3>1
    <2>3. CASE c \notin C
      <3>1. c \in Nodes(d) \ (C \cup {Root(d)})
        BY <2>1, <2>3
      <3>2. HomeOf(d, C, c) = HomeOf(d, C, d.parent[c])
        BY <1>1, <3>1, HomeFacts
      <3> QED
        BY <2>1, <2>3, <3>2
    <2> QED
      BY <2>2, <2>3
  <1> QED
    BY <1>2, <1>4

(***************************************************************************)
(* What is written about a node is an operation of the edit.               *)
(***************************************************************************)
LEMMA WrittenOpIsOp ==
  ASSUME NEW e, NEW d, NEW xid, NEW num, NEW t, NEW C, IsCutDocument(e, d, xid, num, t, C),
         NEW u, NEW i, NEW op, IsWrittenOp(e, d, xid, C, u, i, op),
         xid[i] \in DOMAIN u \/
           \A k \in Nodes(d) : HomeOf(d, C, k) = i => e.was[xid[k]] = t[xid[k]]
  PROVE  IsOp(e, t, num, u, op)
PROOF
  <1> DEFINE R == {l \in Nodes(d) : HomeOf(d, C, l) = i}
  <1>1. /\ IsDocument(d) /\ IsNumbering(d, xid, num) /\ t = TreeOf(d, xid)
        /\ C \subseteq Nodes(d) \ {Root(d)} /\ e.cut \cap DOMAIN t = Named(xid, C)
        /\ \A k \in Nodes(d) : e.home[xid[k]] = xid[HomeOf(d, C, k)]
    BY DEF IsCutDocument
  <1>2. /\ i \in C /\ op.xid = xid[i] /\ op.par = xid[d.parent[i]] /\ op.pos = Position(d, i)
        /\ op.move \in BOOLEAN /\ (op.move <=> xid[i] \in DOMAIN u)
        /\ ~op.move => op.content = {NodeIn(d, xid, k, R) : k \in R}
    BY DEF IsWrittenOp
  <1>3. DOMAIN t = Named(xid, Nodes(d))
    BY <1>1, TreeOfNodes
  <1>4. \A k \in Nodes(d) :
          /\ t[xid[k]].kind = d.kind[k] /\ t[xid[k]].label = d.label[k]
          /\ t[xid[k]].attr = d.attr[k]
          /\ Lists(t[xid[k]].kids, Named(xid, Children(d, k)), num)
          /\ Apply!Kids(t, xid[k]) = Named(xid, Children(d, k))
    BY <1>1, TreeOfNodes
  <1>5. \A k \in Nodes(d) : num[xid[k]] = k
    BY <1>1 DEF IsNumbering
  <1>6. i \in Nodes(d) \ {Root(d)} /\ d.parent[i] \in Nodes(d) /\ C \subseteq Nodes(d)
    BY <1>1, <1>2, DocumentFacts
  <1>7. \A k \in Nodes(d) : Children(d, k) \subseteq Nodes(d)
    BY <1>1, DocumentNodes
  <1>8. op.pos \in DOMAIN t[op.par].kids /\ t[op.par].kids[op.pos] = op.xid
    <2> DEFINE w == t[xid[d.parent[i]]].kids
    <2>1. Lists(w, Named(xid, Children(d, d.parent[i])), num)
      BY <1>4, <1>6
    <2> HIDE DEF w
    <2>2. Position(d, i) \in DOMAIN w /\ w[Position(d, i)] = xid[i]
      BY <1>1, <1>6, <2>1, PositionIsPlace
    <2> QED
      BY <1>2, <2>2 DEF w
  <1>9. op.par \in DOMAIN t /\ op.xid \in e.cut \cap DOMAIN t
    BY <1>1, <1>2, <1>3, <1>6 DEF Named
  <1>10. \A k, l \in Nodes(d) : xid[k] = xid[l] => k = l
    BY <1>5
  <1>11. ASSUME ~op.move
         PROVE  /\ {m.xid : m \in op.content} = Travellers(e, t, op.xid)
                /\ \A m \in op.content : IsPart(e, t, num, m)
                /\ \A m, o \in op.content : m.xid = o.xid => m = o
    <2>1. op.content = {NodeIn(d, xid, k, R) : k \in R}
      BY <1>2, <1>11
    <2>2. \A k \in R : NodeIn(d, xid, k, R).xid = xid[k]
      BY DEF NodeIn
    <2>3. {m.xid : m \in op.content} = Named(xid, R)
      <3> HIDE DEF R
      <3> QED
        BY <2>1, <2>2 DEF Named
    <2>4. Named(xid, R) = Travellers(e, t, op.xid)
      <3>1. \A k \in Nodes(d) : HomeOf(d, C, k) \in Nodes(d)
        BY <1>1, <1>6, HomeFacts
      <3>2. \A k \in Nodes(d) : k \in R <=> e.home[xid[k]] = xid[i]
        BY <1>1, <1>6, <1>10, <3>1
      <3> QED
        BY <1>2, <1>3, <3>2 DEF Named, Travellers
    <2>5. \A m, o \in op.content : m.xid = o.xid => m = o
      <3>1. R \subseteq Nodes(d)
        OBVIOUS
      <3> HIDE DEF R
      <3> QED
        BY <1>10, <2>1, <2>2, <3>1
    <2>6. ASSUME NEW k \in R, NEW m, m = NodeIn(d, xid, k, R)
          PROVE  IsPart(e, t, num, m)
      <3> DEFINE S == Children(d, k) \cap R
                 s == InOrder(S)
      <3>1. /\ m.xid = xid[k] /\ m.kind = d.kind[k] /\ m.label = d.label[k] /\ m.attr = d.attr[k]
            /\ m.kids = [l \in DOMAIN s |-> xid[s[l]]]
        BY <2>6 DEF NodeIn
      <3>2. e.was[xid[k]] = t[xid[k]]
        BY <1>2, <1>11
      <3>3. S = Children(d, k) \ C
        BY <1>1, <1>2, TravellersKids
      <3>4. k \in Nodes(d) /\ S \subseteq Nodes(d)
        BY <1>7
      <3>5. IsFiniteSet(S) /\ S \subseteq Int
        <4>1. IsFiniteSet(Nodes(d)) /\ Nodes(d) \subseteq Int
          BY <1>1, DocumentFacts
        <4> QED
          BY <3>4, <4>1, FS_Subset
      <3> DEFINE r == [a \in S |-> a]
      <3>6. \A a \in S : r[a] = a /\ num[xid[a]] = r[a]
        BY <1>5, <3>4
      <3> HIDE DEF r, S
      <3>7. Lists(s, S, r)
        BY <3>5, <3>6, InOrderLists
      <3> HIDE DEF s
      <3>8. Lists(m.kids, Named(xid, S), num)
        BY <3>1, <3>6, <3>7, NamedLists DEF Named
      <3>9. Named(xid, S) = Apply!Kids(t, xid[k]) \ e.cut
        <4>1. \A l \in Nodes(d) : xid[l] \in e.cut <=> l \in C
          <5> TAKE l \in Nodes(d)
          <5>1. xid[l] \in DOMAIN t
            BY <1>3 DEF Named
          <5>2. xid[l] \in e.cut <=> \E a \in C : xid[l] = xid[a]
            BY <1>1, <5>1 DEF Named
          <5> QED
            BY <1>6, <1>10, <5>2
        <4>2. Apply!Kids(t, xid[k]) = Named(xid, Children(d, k))
          BY <1>4, <3>4
        <4>3. Children(d, k) \subseteq Nodes(d)
          BY <1>7, <3>4
        <4> QED
          BY <3>3, <4>1, <4>2, <4>3 DEF Named
      <3> QED
        BY <1>4, <3>1, <3>2, <3>4, <3>8, <3>9 DEF IsPart
    <2> HIDE DEF R
    <2> QED
      BY <2>1, <2>3, <2>4, <2>5, <2>6
  <1> QED
    BY <1>2, <1>8, <1>9, <1>11 DEF IsOp

-----------------------------------------------------------------------------
(* One operation for each of the nodes C, in this order. *)
IsWrittenInOrder(d, xid, order, ops) ==
  /\ ops = [k \in DOMAIN order |-> ops[k]]
  /\ \A k \in DOMAIN order : /\ ops[k].xid = xid[order[k]]
                             /\ ops[k].par = xid[d.parent[order[k]]]

(* Such operations are a script if each of them is an operation about its node. *)
LEMMA WrittenScript ==
  ASSUME NEW e, NEW d, NEW xid, NEW num, NEW t, NEW C, IsCutDocument(e, d, xid, num, t, C),
         NEW u, NEW order, NEW r, Lists(order, C, r),
         NEW ops, IsWrittenInOrder(d, xid, order, ops),
         \A k \in DOMAIN order : IsOp(e, t, num, u, ops[k])
  PROVE  IsScript(e, t, num, u, ops)
PROOF
  <1>1. /\ IsNumbering(d, xid, num) /\ C \subseteq Nodes(d) /\ e.cut \cap DOMAIN t = Named(xid, C)
    BY DEF IsCutDocument
  <1>2. /\ ops = [k \in DOMAIN order |-> ops[k]]
        /\ \A k \in DOMAIN order : ops[k].xid = xid[order[k]]
    BY DEF IsWrittenInOrder
  <1>3. /\ Len(order) \in Nat /\ DOMAIN order = 1 .. Len(order)
        /\ \A k \in 1 .. Len(order) : order[k] \in C
        /\ \A a \in C : \E k \in 1 .. Len(order) : order[k] = a
    BY ListFacts
  <1>4. \A k, l \in 1 .. Len(order) : order[k] = order[l] => k = l
    BY ListedPlaces
  <1>5. \A a, b \in C : xid[a] = xid[b] => a = b
    BY <1>1 DEF IsNumbering
  <1>6. DOMAIN ops = 1 .. Len(order)
    BY <1>2, <1>3
  <1>7. IsList(ops)
    <2> DEFINE n == Len(order)
               R == {ops[k] : k \in 1 .. n}
    <2>1. \A k \in 1 .. n : ops[k] \in R
      OBVIOUS
    <2> HIDE DEF R
    <2>2. ops \in [1 .. n -> R]
      BY <1>2, <1>3, <2>1
    <2>3. ops \in Seq(R)
      BY <1>3, <2>2
    <2> QED
      BY <2>3, OwnList
  <1>8. \A k, l \in DOMAIN ops : ops[k].xid = ops[l].xid => k = l
    BY <1>2, <1>3, <1>4, <1>5, <1>6
  <1>9. \A z \in e.cut \cap DOMAIN t : \E k \in DOMAIN ops : ops[k].xid = z
    BY <1>1, <1>2, <1>3, <1>6 DEF Named
  <1> QED
    BY <1>3, <1>6, <1>7, <1>8, <1>9 DEF IsScript

(***************************************************************************)
(* The node a parent travels with comes before the parent's children when  *)
(* the nodes are walked from the root down.                                *)
(***************************************************************************)
LEMMA HomeIsBefore ==
  ASSUME NEW d, IsDocument(d), NEW C, C \subseteq Nodes(d), NEW i \in Nodes(d) \ {Root(d)},
         NEW a, a = HomeOf(d, C, d.parent[i])
  PROVE  a \in Nodes(d) /\ PrefixRank(d, a) < PrefixRank(d, i)
PROOF
  <1> DEFINE p == d.parent[i]
  <1>1. p \in Nodes(d) /\ p > i /\ i \in Children(d, p) /\ Nodes(d) = 1 .. d.n /\ d.n \in Nat
    BY DocumentFacts
  <1> HIDE DEF p
  <1>2. a \in Nodes(d) /\ p \in Subtree(d, a)
    BY <1>1, HomeFacts DEF p
  <1>3. i \in Subtree(d, a) /\ p <= a
    BY <1>1, <1>2, SubtreeFacts
  <1>4. a \in Ancestors(d, i)
    BY <1>1, <1>2, <1>3 DEF Subtree, Ancestors
  <1>5. a \in Before(d, i) /\ Before(d, a) \subseteq Before(d, i)
    BY <1>4, AncestorsComeBefore
  <1> QED
    BY <1>2, <1>5, BeforeIsSmaller

(* Operations written in document order bring parents first. *)
LEMMA WrittenTopDown ==
  ASSUME NEW e, NEW d, NEW xid, NEW num, NEW t, NEW C, IsCutDocument(e, d, xid, num, t, C),
         NEW order, Lists(order, C, FirstToLast(d)),
         NEW ops, IsWrittenInOrder(d, xid, order, ops)
  PROVE  TopDown(e, ops)
PROOF
  <1>1. /\ IsDocument(d) /\ IsNumbering(d, xid, num) /\ t = TreeOf(d, xid)
        /\ C \subseteq Nodes(d) \ {Root(d)} /\ C \subseteq Nodes(d)
        /\ e.cut \cap DOMAIN t = Named(xid, C)
        /\ \A i \in Nodes(d) : e.home[xid[i]] = xid[HomeOf(d, C, i)]
    BY DEF IsCutDocument
  <1>2. /\ ops = [k \in DOMAIN order |-> ops[k]]
        /\ \A k \in DOMAIN order : ops[k].xid = xid[order[k]] /\ ops[k].par = xid[d.parent[order[k]]]
    BY DEF IsWrittenInOrder
  <1> DEFINE r == FirstToLast(d)
  <1>3. /\ Len(order) \in Nat /\ DOMAIN order = 1 .. Len(order)
        /\ \A k \in 1 .. Len(order) : order[k] \in C
        /\ \A a \in C : r[a] \in Int /\ \E k \in 1 .. Len(order) : order[k] = a
        /\ \A k, l \in 1 .. Len(order) : k < l => r[order[k]] < r[order[l]]
    <2> HIDE DEF r
    <2>1. Lists(order, C, r)
      BY DEF r
    <2> QED
      BY <2>1, ListFacts
  <1>4. \A i \in Nodes(d) : r[i] = PrefixRank(d, i)
    BY DEF FirstToLast
  <1>5. DOMAIN t = Named(xid, Nodes(d))
    BY <1>1, TreeOfNodes
  <1>6. \A k, l \in Nodes(d) : xid[k] = xid[l] => k = l
    BY <1>1 DEF IsNumbering
  <1> HIDE DEF r
  <1> SUFFICES ASSUME NEW k \in DOMAIN ops, e.home[ops[k].par] \in e.cut
               PROVE  \E h \in 1 .. (k - 1) : ops[h].xid = e.home[ops[k].par]
    BY DEF TopDown
  <1> DEFINE i == order[k]
             a == HomeOf(d, C, d.parent[i])
  <1>7. k \in 1 .. Len(order) /\ i \in C /\ i \in Nodes(d) \ {Root(d)}
    BY <1>1, <1>2, <1>3
  <1>8. d.parent[i] \in Nodes(d)
    BY <1>1, <1>7, DocumentFacts
  <1>9. e.home[ops[k].par] = xid[a]
    BY <1>1, <1>2, <1>3, <1>7, <1>8
  <1>10. a \in Nodes(d) /\ PrefixRank(d, a) < PrefixRank(d, i)
    <2> HIDE DEF i
    <2> QED
      BY <1>1, <1>7, HomeIsBefore
  <1> HIDE DEF a, i
  <1>11. xid[a] \in Named(xid, C)
    BY <1>1, <1>5, <1>9, <1>10 DEF Named
  <1>12. a \in C
    BY <1>1, <1>6, <1>10, <1>11 DEF Named
  <1>13. PICK h \in 1 .. Len(order) : order[h] = a
    BY <1>3, <1>12
  <1>14. r[order[h]] < r[order[k]] /\ r[order[h]] \in Int /\ r[order[k]] \in Int
    BY <1>3, <1>4, <1>7, <1>10, <1>12, <1>13 DEF i
  <1>15. h < k
    BY <1>3, <1>7, <1>13, <1>14
  <1> QED
    BY <1>2, <1>3, <1>7, <1>9, <1>13, <1>15, SMTT(30)

-----------------------------------------------------------------------------
(***************************************************************************)
(* The nodes that are still there when a deleted node is reached are those *)
(* that are deleted with it: all that was below it and has been kept has   *)
(* been taken out.                                                         *)
(***************************************************************************)
LEMMA RemainingTravel ==
  ASSUME DeltaIsWritten, NEW i \in OldScripted, v0event[i] = "deleted"
  PROVE  Remaining(i) = {k \in Nodes(v0) : OldHome(k) = i}
PROOF
  <1>1. IsDocument(v0)
    BY FinalMarks
  <1>2. /\ OldScripted \subseteq Nodes(v0) \ {Root(v0)} /\ OldScripted \subseteq Nodes(v0)
    BY RootsNotScripted
  <1>3. Nodes(v0) \subseteq Nat /\ Root(v0) \in Nodes(v0) /\ \A k \in Nodes(v0) : k <= Root(v0)
    BY <1>1, DocumentFacts
  <1>4. ASSUME NEW k \in Nodes(v0), OldHome(k) = i
        PROVE  k \in Remaining(i)
    <2>1. k \in Subtree(v0, i)
      BY <1>1, <1>2, <1>4, HomeFacts DEF OldHome
    <2>2. ASSUME NEW m \in Subtree(v0, i) \ {i}, v0event[m] \in Moves, k \in Subtree(v0, m)
          PROVE  FALSE
      <3>1. m \in Nodes(v0) /\ m <= i
        BY <1>1, <1>2, <2>2, SubtreeFacts
      <3>2. m \in OldScripted
        BY <2>2, <3>1 DEF OldScripted, v0Scripted
      <3>3. OldHome(k) <= m
        BY <1>1, <1>2, <2>2, <3>2, HomeFacts DEF OldHome
      <3> QED
        BY <1>2, <1>3, <1>4, <2>2, <3>1, <3>3
    <2> QED
      BY <2>1, <2>2 DEF Remaining
  <1>5. ASSUME NEW k \in Remaining(i)
        PROVE  k \in Nodes(v0) /\ OldHome(k) = i
    <2>1. /\ k \in Subtree(v0, i) /\ k \in Nodes(v0)
          /\ \A m \in Subtree(v0, i) \ {i} : v0event[m] \in Moves => k \notin Subtree(v0, m)
      <3>1. Subtree(v0, i) \subseteq Nodes(v0)
        BY <1>1, <1>2, SubtreeFacts
      <3> QED
        BY <3>1 DEF Remaining
    <2> DEFINE h == OldHome(k)
    <2>2. h <= i /\ h \in Subtree(v0, i)
      BY <1>1, <1>2, <2>1, HomeFacts DEF OldHome
    <2>3. h \in OldScripted \cup {Root(v0)} /\ h \in Nodes(v0) /\ k \in Subtree(v0, h)
      BY <1>1, <1>2, <2>1, HomeFacts DEF OldHome
    <2> HIDE DEF h
    <2>4. SUFFICES ASSUME h # i
                   PROVE  FALSE
      BY <2>1 DEF h
    <2>5. i \in Nodes(v0) /\ i # Root(v0) /\ i <= Root(v0)
      BY <1>2, <1>3
    <2>6. h # Root(v0)
      BY <1>3, <2>2, <2>3, <2>5
    <2>7. h \in OldScripted
      BY <2>3, <2>6
    <2>8. v0event[h] \notin Moves
      BY <2>1, <2>2, <2>3, <2>4
    <2> DEFINE p == v0.parent[h]
    <2>9. p \in Nodes(v0) /\ h \in Children(v0, p)
      BY <1>1, <2>3, <2>6, DocumentFacts
    <2>10. v0event[p] # "deleted"
      <3>1. p # 0
        BY <2>9 DEF Nodes
      <3> QED
        BY <2>7, <2>8, <3>1 DEF OldScripted, v0Scripted
    <2>11. p \in Subtree(v0, i)
      BY <1>1, <2>2, <2>4, <2>5, SubtreeFacts
    <2> HIDE DEF p
    <2>12. k \in Subtree(v0, p)
      <3>1. p \in Subtree(v0, p)
        BY <1>1, <2>9, SubtreeFacts
      <3>2. h \in Subtree(v0, p)
        BY <1>1, <2>9, <3>1, SubtreeFacts
      <3> QED
        BY <1>1, <2>3, <2>9, <3>2, SubtreeFacts
    <2> DEFINE g == OldHome(p)
    <2>13. /\ g <= i /\ g \in Subtree(v0, i)
      BY <1>1, <1>2, <2>9, <2>11, HomeFacts DEF OldHome
    <2>14. g \in OldScripted \cup {Root(v0)} /\ g \in Nodes(v0) /\ p \in Subtree(v0, g)
      BY <1>1, <1>2, <2>9, HomeFacts DEF OldHome
    <2>15. v0event[g] # "deleted"
      BY <2>9, <2>10, OldHomeGoesAlong
    <2> HIDE DEF g
    <2>16. g # i /\ g # Root(v0)
      BY <1>3, <2>5, <2>13, <2>14, <2>15
    <2>17. v0event[g] \in Moves
      BY <2>14, <2>15, <2>16 DEF OldScripted, v0Scripted
    <2>18. k \in Subtree(v0, g)
      BY <1>1, <2>9, <2>12, <2>14, SubtreeFacts
    <2> QED
      BY <2>1, <2>13, <2>16, <2>17, <2>18
  <1> QED
    BY <1>4, <1>5

(***************************************************************************)
(* A text that is updated has no children.                                 *)
(***************************************************************************)
LEMMA ParentsAreNoTexts ==
  ASSUME DeltaIsWritten, NEW j \in Nodes(v1), j # Root(v1)
  PROVE  v1.parent[j] \in Nodes(v1) /\ v1event[v1.parent[j]] # "updateNew"
PROOF
  <1>1. /\ IsDocument(v1) /\ MatchedDocuments
        /\ \A k \in Nodes(v1) : v1event[k] = "updateNew" <=> \E u \in Updates : u[2] = k
    BY FinalMarks
  <1> DEFINE p == v1.parent[j]
  <1>2. p \in Nodes(v1) /\ j \in Children(v1, p)
    BY <1>1, DocumentFacts
  <1>3. v1.kind[p] = "element"
    BY <1>1, <1>2 DEF IsDocument, IsXml
  <1>4. ASSUME v1event[p] = "updateNew"
        PROVE  FALSE
    <2>1. PICK u \in Updates : u[2] = p
      BY <1>1, <1>2, <1>4
    <2> QED
      BY <1>1, <1>3, <2>1, UpdatedTexts
  <1> QED
    BY <1>2, <1>4

(***************************************************************************)
(* The nodes an insert operation brings are those that come with its node. *)
(***************************************************************************)
LEMMA ImportedTravel ==
  ASSUME DeltaIsWritten, NEW j \in NewScripted, v1event[j] = "inserted"
  PROVE  Imported(j) = {k \in Nodes(v1) : NewHome(k) = j}
PROOF
  <1>1. IsDocument(v1)
    BY FinalMarks
  <1>2. /\ NewScripted \subseteq Nodes(v1) \ {Root(v1)} /\ NewScripted \subseteq Nodes(v1)
    BY RootsNotScripted
  <1>3. Nodes(v1) \subseteq Nat /\ Root(v1) \in Nodes(v1) /\ \A k \in Nodes(v1) : k <= Root(v1)
    BY <1>1, DocumentFacts
  <1>4. ASSUME NEW k \in Nodes(v1), NewHome(k) = j
        PROVE  k \in Imported(j)
    <2>1. k \in Subtree(v1, j)
      BY <1>1, <1>2, <1>4, HomeFacts DEF NewHome
    <2>2. ASSUME NEW m \in Subtree(v1, j), k \in Subtree(v1, m)
          PROVE  v1event[m] = "inserted"
      <3>1. m \in Nodes(v1)
        BY <1>1, <1>2, <2>2, SubtreeFacts
      <3> DEFINE g == NewHome(m)
      <3>2. g <= j
        BY <1>1, <1>2, <2>2, <3>1, HomeFacts DEF NewHome
      <3>3. g \in NewScripted \cup {Root(v1)} /\ g \in Nodes(v1) /\ m \in Subtree(v1, g)
        BY <1>1, <1>2, <3>1, HomeFacts DEF NewHome
      <3> HIDE DEF g
      <3>4. k \in Subtree(v1, g)
        BY <1>1, <2>2, <3>1, <3>3, SubtreeFacts
      <3>5. NewHome(k) <= g
        BY <1>1, <1>2, <3>3, <3>4, HomeFacts DEF NewHome
      <3>6. g = j
        BY <1>2, <1>3, <1>4, <3>2, <3>3, <3>5
      <3> QED
        BY <3>1, <3>6, NewHomeCameAlong DEF g
    <2> QED
      BY <2>1, <2>2 DEF Imported
  <1>5. ASSUME NEW k \in Imported(j)
        PROVE  k \in Nodes(v1) /\ NewHome(k) = j
    <2>1. /\ k \in Subtree(v1, j) /\ k \in Nodes(v1)
          /\ \A m \in Subtree(v1, j) : k \in Subtree(v1, m) => v1event[m] \in {"inserted", "updateNew"}
      <3>1. Subtree(v1, j) \subseteq Nodes(v1)
        BY <1>1, <1>2, SubtreeFacts
      <3> QED
        BY <3>1 DEF Imported
    <2> DEFINE h == NewHome(k)
    <2>2. h <= j /\ h \in Subtree(v1, j)
      BY <1>1, <1>2, <2>1, HomeFacts DEF NewHome
    <2>3. h \in NewScripted \cup {Root(v1)} /\ h \in Nodes(v1) /\ k \in Subtree(v1, h)
      BY <1>1, <1>2, <2>1, HomeFacts DEF NewHome
    <2> HIDE DEF h
    <2>4. SUFFICES ASSUME h # j
                   PROVE  FALSE
      BY <2>1 DEF h
    <2>5. j \in Nodes(v1) /\ j # Root(v1) /\ j <= Root(v1)
      BY <1>2, <1>3
    <2>6. h # Root(v1)
      BY <1>3, <2>2, <2>3, <2>5
    <2>7. h \in NewScripted
      BY <2>3, <2>6
    <2>8. v1event[h] \in {"inserted", "updateNew"}
      BY <2>1, <2>2, <2>3
    <2> DEFINE p == v1.parent[h]
    <2>9. p \in Nodes(v1) /\ h \in Children(v1, p)
      BY <1>1, <2>3, <2>6, DocumentFacts
    <2>10. v1event[p] # "inserted"
      <3>1. p # 0
        BY <2>9 DEF Nodes
      <3> QED
        BY <2>7, <2>8, <3>1 DEF NewScripted, v1Scripted, Moves
    <2>11. v1event[p] # "updateNew"
      BY <2>3, <2>6, ParentsAreNoTexts
    <2>12. p \in Subtree(v1, j)
      BY <1>1, <2>2, <2>4, <2>5, SubtreeFacts
    <2> HIDE DEF p
    <2>13. k \in Subtree(v1, p)
      <3>1. p \in Subtree(v1, p)
        BY <1>1, <2>9, SubtreeFacts
      <3>2. h \in Subtree(v1, p)
        BY <1>1, <2>9, <3>1, SubtreeFacts
      <3> QED
        BY <1>1, <2>3, <2>9, <3>2, SubtreeFacts
    <2> QED
      BY <2>1, <2>10, <2>11, <2>12, <2>13
  <1> QED
    BY <1>4, <1>5

-----------------------------------------------------------------------------
(***************************************************************************)
(* Both documents of ForthEdit are cut where they are scripted.            *)
(***************************************************************************)
LEMMA ForthIsCut ==
  ASSUME DeltaIsWritten, NEW e, IsNamedForth(e), IsCutForth(e)
  PROVE  /\ IsCutDocument(e, v0, DefaultXids(v0), e.oldNum, e.old, OldScripted)
         /\ IsCutDocument(e, v1, FinalXids, e.newNum, e.new, NewScripted)
PROOF
  <1> DEFINE id == DefaultXids(v0)
             xids == FinalXids
  <1>1. IsDocument(v0) /\ IsDocument(v1)
    BY FinalMarks
  <1>2. /\ e.old = TreeOf(v0, id) /\ e.new = TreeOf(v1, xids)
        /\ IsNumbering(v0, id, e.oldNum) /\ IsNumbering(v1, xids, e.newNum)
    BY DEF IsNamedForth
  <1>3. /\ e.cut \cap DOMAIN e.old = OldScripted
        /\ e.cut \cap DOMAIN e.new = Named(xids, NewScripted)
        /\ \A i \in Nodes(v0) : e.home[i] = OldHome(i)
        /\ \A j \in Nodes(v1) : e.home[xids[j]] = xids[NewHome(j)]
    BY DEF IsCutForth
  <1>4. /\ OldScripted \subseteq Nodes(v0) \ {Root(v0)}
        /\ NewScripted \subseteq Nodes(v1) \ {Root(v1)}
    BY RootsNotScripted
  <1>5. \A i \in Nodes(v0) : id[i] = i
    BY DEF DefaultXids
  <1>6. \A i \in Nodes(v0) : OldHome(i) \in Nodes(v0)
    BY OldHomes
  <1> HIDE DEF id, xids
  <1>7. OldScripted = Named(id, OldScripted)
    BY <1>4, <1>5 DEF Named
  <1>8. \A i \in Nodes(v0) : e.home[id[i]] = id[HomeOf(v0, OldScripted, i)]
    BY <1>3, <1>5, <1>6 DEF OldHome
  <1>9. \A j \in Nodes(v1) : e.home[xids[j]] = xids[HomeOf(v1, NewScripted, j)]
    BY <1>3 DEF NewHome
  <1>10. IsCutDocument(e, v0, id, e.oldNum, e.old, OldScripted)
    BY <1>1, <1>2, <1>3, <1>4, <1>7, <1>8 DEF IsCutDocument
  <1>11. IsCutDocument(e, v1, xids, e.newNum, e.new, NewScripted)
    BY <1>1, <1>2, <1>3, <1>4, <1>9 DEF IsCutDocument
  <1> QED
    BY <1>10, <1>11 DEF id, xids

(***************************************************************************)
(* Two-valued answers survive being put into a record.                     *)
(***************************************************************************)
LEMMA OldMove ==
  ASSUME NEW i, NEW op, op = DeleteOperation(i)
  PROVE  op.move \in BOOLEAN /\ (op.move <=> v0event[i] \in Moves)
PROOF
  <1>1. CASE v0event[i] \in Moves
    <2>1. (v0event[i] \in Moves) = TRUE
      BY <1>1
    <2>2. op.move = (v0event[i] \in Moves)
      BY DEF DeleteOperation
    <2> QED
      BY <1>1, <2>1, <2>2
  <1>2. CASE v0event[i] \notin Moves
    <2>1. (v0event[i] \in Moves) = FALSE
      BY <1>2
    <2>2. op.move = (v0event[i] \in Moves)
      BY DEF DeleteOperation
    <2> QED
      BY <1>2, <2>1, <2>2
  <1> QED
    BY <1>1, <1>2

(* The insert operation of a node is marked as a move if the node is. *)
LEMMA NewMove ==
  ASSUME NEW j, NEW op, op = InsertOperation(j)
  PROVE  op.move \in BOOLEAN /\ (op.move <=> v1event[j] \in Moves)
PROOF
  <1>1. CASE v1event[j] \in Moves
    <2>1. (v1event[j] \in Moves) = TRUE
      BY <1>1
    <2>2. op.move = (v1event[j] \in Moves)
      BY DEF InsertOperation
    <2> QED
      BY <1>1, <2>1, <2>2
  <1>2. CASE v1event[j] \notin Moves
    <2>1. (v1event[j] \in Moves) = FALSE
      BY <1>2
    <2>2. op.move = (v1event[j] \in Moves)
      BY DEF InsertOperation
    <2> QED
      BY <1>2, <2>1, <2>2
  <1> QED
    BY <1>1, <1>2

(***************************************************************************)
(* The delete operations are those of the edit.                            *)
(***************************************************************************)
LEMMA DeletesAreOps ==
  ASSUME DeltaIsWritten, NEW e, IsNamedForth(e), IsCutForth(e), NEW i \in OldScripted,
         NEW op, op = DeleteOperation(i)
  PROVE  /\ IsOp(e, e.old, e.oldNum, e.new, op)
         /\ op.xid = DefaultXids(v0)[i] /\ op.par = DefaultXids(v0)[v0.parent[i]]
PROOF
  <1> DEFINE id == DefaultXids(v0)
             R == {l \in Nodes(v0) : HomeOf(v0, OldScripted, l) = i}
  <1>1. v0xid = id
    BY DEF DeltaIsWritten, ScriptInv, XidsGiven
  <1>2. /\ op.xid = id[i] /\ op.par = id[v0.parent[i]] /\ op.pos = Position(v0, i)
        /\ op.move = (v0event[i] \in Moves)
        /\ op.content = IF v0event[i] \in Moves THEN {}
                        ELSE {NodeIn(v0, id, k, Remaining(i)) : k \in Remaining(i)}
    BY <1>1 DEF DeleteOperation
  <1>3. \A k \in Nodes(v0) : id[k] = k
    BY DEF DefaultXids
  <1>4. i \in Nodes(v0) /\ (v0event[i] \in Moves \/ v0event[i] = "deleted")
    BY DEF OldScripted, v0Scripted
  <1>5. \A k \in Nodes(v0) : k \in DOMAIN e.new <=> v0event[k] # "deleted"
    BY DEF IsNamedForth
  <1>6. \A k \in Nodes(v0) : e.was[k] = e.old[k]
    BY DEF IsCutForth
  <1>7. v0event[i] \notin Moves => Remaining(i) = R
    <2>1. R = {l \in Nodes(v0) : OldHome(l) = i}
      BY DEF OldHome
    <2> QED
      BY <1>4, <2>1, RemainingTravel
  <1>8. "deleted" \notin Moves
    BY DEF Moves
  <1>9. IsCutDocument(e, v0, id, e.oldNum, e.old, OldScripted)
    BY ForthIsCut
  <1> HIDE DEF id
  <1>10. IsWrittenOp(e, v0, id, OldScripted, e.new, i, op)
    <2>1. op.move \in BOOLEAN /\ (op.move <=> v0event[i] \in Moves)
      BY OldMove
    <2>2. op.move <=> id[i] \in DOMAIN e.new
      BY <1>3, <1>4, <1>5, <1>8, <2>1
    <2>3. ~op.move => op.content = {NodeIn(v0, id, k, R) : k \in R}
      <3> HIDE DEF R
      <3> QED
        BY <1>2, <1>7, <2>1
    <2> QED
      BY <1>2, <2>1, <2>2, <2>3 DEF IsWrittenOp
  <1>11. \A k \in Nodes(v0) : HomeOf(v0, OldScripted, k) = i => e.was[id[k]] = e.old[id[k]]
    BY <1>3, <1>6
  <1>12. IsOp(e, e.old, e.oldNum, e.new, op)
    BY <1>9, <1>10, <1>11, WrittenOpIsOp
  <1> QED
    BY <1>2, <1>12 DEF id

(***************************************************************************)
(* So are the insert operations.                                           *)
(***************************************************************************)
LEMMA InsertsAreOps ==
  ASSUME DeltaIsWritten, NEW e, IsNamedForth(e), IsCutForth(e), NEW j \in NewScripted,
         NEW op, op = InsertOperation(j)
  PROVE  /\ IsOp(e, e.new, e.newNum, e.old, op)
         /\ op.xid = FinalXids[j] /\ op.par = FinalXids[v1.parent[j]]
PROOF
  <1> DEFINE xids == FinalXids
             R == {l \in Nodes(v1) : HomeOf(v1, NewScripted, l) = j}
  <1>1. j \in Nodes(v1) /\ (v1event[j] \in Moves \/ v1event[j] = "inserted")
    BY DEF NewScripted, v1Scripted
  <1>2. j # Root(v1)
    BY RootsNotScripted
  <1>3. v1.parent[j] \in Nodes(v1) /\ v1event[v1.parent[j]] # "updateNew"
    BY <1>1, <1>2, ParentsAreNoTexts
  <1>4. \A k \in Nodes(v1) : v1event[k] # "updateNew" => xids[k] = v1xid[k]
    BY DEF FinalXids
  <1>5. v1event[j] # "updateNew" /\ "inserted" \notin Moves
    BY <1>1 DEF Moves
  <1> HIDE DEF xids
  <1>6. /\ op.xid = xids[j] /\ op.par = xids[v1.parent[j]] /\ op.pos = Position(v1, j)
        /\ op.move = (v1event[j] \in Moves)
        /\ op.content = IF v1event[j] \in Moves THEN {}
                        ELSE {NodeIn(v1, v1xid, k, Imported(j)) : k \in Imported(j)}
    BY <1>1, <1>3, <1>4, <1>5 DEF InsertOperation
  <1>7. \A k \in Nodes(v1) : xids[k] \in DOMAIN e.old <=> v1event[k] # "inserted"
    BY DEF IsNamedForth, xids
  <1>8. \A x \in DOMAIN e.new \ DOMAIN e.old : e.was[x] = e.new[x]
    BY DEF IsCutForth
  <1>9. \A k \in Nodes(v1) : xids[k] \in DOMAIN e.new
    BY DEF IsNamedForth, xids
  <1>10. ASSUME v1event[j] \notin Moves
         PROVE  /\ Imported(j) = R /\ \A k \in R : v1event[k] = "inserted"
    <2>1. R = {l \in Nodes(v1) : NewHome(l) = j}
      BY DEF NewHome
    <2>2. Imported(j) = R
      BY <1>1, <1>10, <2>1, ImportedTravel
    <2>3. \A k \in R : v1event[k] = "inserted"
      BY <1>1, <1>10, <2>1, NewHomeCameAlong
    <2> QED
      BY <2>2, <2>3
  <1>11. ASSUME v1event[j] \notin Moves, NEW k \in R
         PROVE  NodeIn(v1, v1xid, k, R) = NodeIn(v1, xids, k, R)
    <2>1. \A l \in R : xids[l] = v1xid[l]
      BY <1>4, <1>10, <1>11
    <2> DEFINE S == Children(v1, k) \cap R
               s == InOrder(S)
    <2>2. \A l \in DOMAIN s : s[l] \in S
      <3>1. IsDocument(v1)
        BY FinalMarks
      <3>2. S \subseteq Nodes(v1) /\ IsFiniteSet(Nodes(v1)) /\ Nodes(v1) \subseteq Int
        BY <3>1, DocumentFacts
      <3>3. IsFiniteSet(S) /\ S \subseteq Int
        BY <3>2, FS_Subset
      <3> DEFINE r == [a \in S |-> a]
      <3>4. \A a \in S : r[a] = a
        OBVIOUS
      <3> HIDE DEF S, r
      <3>5. Lists(s, S, r)
        BY <3>3, <3>4, InOrderLists
      <3> HIDE DEF s
      <3> QED
        BY <3>5, ListFacts
    <2>3. \A l \in DOMAIN s : s[l] \in R
      BY <2>2
    <2>4. [l \in DOMAIN s |-> v1xid[s[l]]] = [l \in DOMAIN s |-> xids[s[l]]]
      <3> HIDE DEF s, R
      <3> QED
        BY <2>1, <2>3
    <2>5. v1xid[k] = xids[k]
      BY <2>1
    <2>6. NodeIn(v1, v1xid, k, R)
            = [xid |-> v1xid[k], kind |-> v1.kind[k], label |-> v1.label[k], attr |-> v1.attr[k],
               kids |-> [l \in DOMAIN s |-> v1xid[s[l]]]]
      BY Zenon DEF NodeIn
    <2>7. NodeIn(v1, xids, k, R)
            = [xid |-> xids[k], kind |-> v1.kind[k], label |-> v1.label[k], attr |-> v1.attr[k],
               kids |-> [l \in DOMAIN s |-> xids[s[l]]]]
      BY Zenon DEF NodeIn
    <2> HIDE DEF s, R
    <2> QED
      BY <2>4, <2>5, <2>6, <2>7
  <1>12. ~op.move => op.content = {NodeIn(v1, xids, k, R) : k \in R}
    <2> SUFFICES ASSUME ~op.move
                 PROVE  op.content = {NodeIn(v1, xids, k, R) : k \in R}
      OBVIOUS
    <2>1. v1event[j] \notin Moves
      BY <1>6
    <2>2. op.content = {NodeIn(v1, v1xid, k, R) : k \in R}
      BY <1>6, <1>10, <2>1
    <2>3. \A k \in R : NodeIn(v1, v1xid, k, R) = NodeIn(v1, xids, k, R)
      BY <1>11, <2>1
    <2> HIDE DEF R
    <2> QED
      BY <2>2, <2>3
  <1>13. IsCutDocument(e, v1, xids, e.newNum, e.new, NewScripted)
    BY ForthIsCut DEF xids
  <1>14. op.move \in BOOLEAN /\ (op.move <=> xids[j] \in DOMAIN e.old)
    <2>1. op.move \in BOOLEAN /\ (op.move <=> v1event[j] \in Moves)
      BY NewMove
    <2> QED
      BY <1>1, <1>5, <1>7, <2>1
  <1>15. IsWrittenOp(e, v1, xids, NewScripted, e.old, j, op)
    BY <1>6, <1>12, <1>14 DEF IsWrittenOp
  <1>16. xids[j] \in DOMAIN e.old \/
           \A k \in Nodes(v1) : HomeOf(v1, NewScripted, k) = j => e.was[xids[k]] = e.new[xids[k]]
    BY <1>6, <1>7, <1>8, <1>9, <1>10, <1>14
  <1>17. IsOp(e, e.new, e.newNum, e.old, op)
    BY <1>13, <1>15, <1>16, WrittenOpIsOp
  <1> QED
    BY <1>6, <1>17 DEF xids

(***************************************************************************)
(* The delta leads from the first document to the second.                  *)
(***************************************************************************)
LEMMA DeltaLeadsOver ==
  ASSUME DeltaIsWritten, NEW e, IsNamedForth(e), IsCutForth(e)
  PROVE  LeadsOver(e, delta)
PROOF
  <1>1. /\ IsCutDocument(e, v0, DefaultXids(v0), e.oldNum, e.old, OldScripted)
        /\ IsCutDocument(e, v1, FinalXids, e.newNum, e.new, NewScripted)
    BY ForthIsCut
  <1>2. DeletesMade /\ InsertsMade /\ DeletesWritten /\ InsertsWritten
    BY DEF DeltaIsWritten, DeltaInv, DeletesMade, InsertsMade
  <1>3. IsScript(e, e.old, e.oldNum, e.new, delta.deletes)
    <2>1. PICK order : /\ Lists(order, OldScripted, LastToFirst(v0))
                       /\ delta.deletes = [k \in DOMAIN order |-> DeleteOperation(order[k])]
      BY <1>2 DEF DeletesWritten
    <2> DEFINE ops == delta.deletes
    <2>2. \A k \in DOMAIN order : order[k] \in OldScripted
      BY <2>1, ListFacts
    <2>3. /\ ops = [k \in DOMAIN order |-> ops[k]]
          /\ \A k \in DOMAIN order : ops[k] = DeleteOperation(order[k])
      BY <2>1
    <2> HIDE DEF ops
    <2>4. \A k \in DOMAIN order :
            /\ IsOp(e, e.old, e.oldNum, e.new, ops[k])
            /\ ops[k].xid = DefaultXids(v0)[order[k]]
            /\ ops[k].par = DefaultXids(v0)[v0.parent[order[k]]]
      BY <2>2, <2>3, DeletesAreOps
    <2>5. IsWrittenInOrder(v0, DefaultXids(v0), order, ops)
      BY <2>3, <2>4 DEF IsWrittenInOrder
    <2>6. IsScript(e, e.old, e.oldNum, e.new, ops)
      BY <1>1, <2>1, <2>4, <2>5, WrittenScript
    <2> QED
      BY <2>6 DEF ops
  <1>4. IsScript(e, e.new, e.newNum, e.old, delta.inserts) /\ TopDown(e, delta.inserts)
    <2>1. PICK order : /\ Lists(order, NewScripted, FirstToLast(v1))
                       /\ delta.inserts = [k \in DOMAIN order |-> InsertOperation(order[k])]
      BY <1>2 DEF InsertsWritten
    <2> DEFINE ops == delta.inserts
    <2>2. \A k \in DOMAIN order : order[k] \in NewScripted
      BY <2>1, ListFacts
    <2>3. /\ ops = [k \in DOMAIN order |-> ops[k]]
          /\ \A k \in DOMAIN order : ops[k] = InsertOperation(order[k])
      BY <2>1
    <2> HIDE DEF ops
    <2>4. \A k \in DOMAIN order :
            /\ IsOp(e, e.new, e.newNum, e.old, ops[k])
            /\ ops[k].xid = FinalXids[order[k]]
            /\ ops[k].par = FinalXids[v1.parent[order[k]]]
      BY <2>2, <2>3, InsertsAreOps
    <2>5. IsWrittenInOrder(v1, FinalXids, order, ops)
      BY <2>3, <2>4 DEF IsWrittenInOrder
    <2>6. IsScript(e, e.new, e.newNum, e.old, ops)
      BY <1>1, <2>1, <2>4, <2>5, WrittenScript
    <2>7. TopDown(e, ops)
      BY <1>1, <2>1, <2>5, WrittenTopDown
    <2> QED
      BY <2>6, <2>7 DEF ops
  <1> QED
    BY <1>3, <1>4 DEF LeadsOver

-----------------------------------------------------------------------------
(***************************************************************************)
(* The engine at work on an edit e with a delta d that leads over it.      *)
(***************************************************************************)
IsJob(e, d) ==
  /\ IsEdit(e) /\ LeadsOver(e, d)
  /\ \A a \in d.attributes : a.xid \in DOMAIN e.new
  /\ \A u \in d.updates : u.xid \in DOMAIN e.new
  /\ \E b \in Nat : Either(e) \subseteq 0 .. b

(* The tree when all nodes are in their new places. *)
Rebuilt(e) == [x \in DOMAIN e.new |-> Node(e.was[x], e.new[x].kids)]

WithAttributes(t, changes) ==
  [x \in DOMAIN t |-> [t[x] EXCEPT !.attr =
     [n \in DOMAIN t[x].attr |->
        IF \E a \in changes : a.xid = x /\ a.attr = n
        THEN (CHOOSE a \in changes : a.xid = x /\ a.attr = n).value
        ELSE t[x].attr[n]]]]

WithValues(t, values) ==
  [x \in DOMAIN t |-> [t[x] EXCEPT !.label =
     IF \E u \in values : u.xid = x THEN (CHOOSE u \in values : u.xid = x).value
     ELSE t[x].label]]

WithName(t, root, name) == IF name = None THEN t ELSE [t EXCEPT ![root].label = name]

(* The tree after all operations. *)
Outcome(e, d) ==
  WithName(WithValues(WithAttributes(Rebuilt(e), d.attributes), d.updates),
           e.top, d.renameRoot.to)

Applying(e, d) ==
  /\ todo = d /\ top = e.top /\ count = 1 /\ firstFree \in Nat
  /\ stage \in Apply!Stages \ {"waiting", "exception", "undefined"}
  /\ stage = "deletes" => /\ Deleting(e, deleteList, tree, moveTree, parked)
                          /\ insertLists = <<>>
  /\ stage = "inserts" => Inserting(e, insertLists, tree, moveTree, parked)
  /\ stage \notin {"deletes", "inserts"} => parked = {} /\ insertLists = <<>>
  /\ stage = "attributes" => tree = Rebuilt(e)
  /\ stage = "updates" => tree = WithAttributes(Rebuilt(e), d.attributes)
  /\ stage = "renameRoot" =>
       tree = WithValues(WithAttributes(Rebuilt(e), d.attributes), d.updates)
  /\ stage \in {"check", "done"} => tree = Outcome(e, d)

(***************************************************************************)
(* The engine begins.                                                      *)
(***************************************************************************)
LEMMA EngineBegins ==
  ASSUME NEW CONSTANT e, NEW CONSTANT d, IsJob(e, d),
         NEW t, NEW free, free \in Nat, t = e.old,
         e.old = [x \in DOMAIN e.old |-> Node(e.was[x], e.old[x].kids)],
         Apply!Begin(t, e.top, free, d)
  PROVE  Applying(e, d)'
PROOF
  <1>1. /\ tree' = e.old /\ top' = e.top /\ firstFree' = free /\ todo' = d
        /\ moveTree' = <<>> /\ parked' = {} /\ insertLists' = <<>> /\ count' = 1
        /\ deleteList' = Apply!SortDeletes(d.deletes, e.old, e.top)
        /\ stage' = "deletes"
    BY DEF Apply!Begin
  <1>2. IsEdit(e) /\ IsScript(e, e.old, e.oldNum, e.new, d.deletes)
    BY DEF IsJob, LeadsOver
  <1> DEFINE sorted == Apply!SortDeletes(d.deletes, e.old, e.top)
  <1> HIDE DEF sorted
  <1>3. Deleting(e, sorted, e.old, <<>>, {})
    BY <1>2, DeletesBegin DEF sorted
  <1>4. Deleting(e, deleteList', tree', moveTree', parked')
    BY <1>1, <1>3 DEF sorted
  <1> QED
    BY <1>1, <1>4 DEF Applying, Apply!Stages

(***************************************************************************)
(* A delete operation.                                                     *)
(***************************************************************************)
LEMMA EngineDeletes ==
  ASSUME NEW CONSTANT e, NEW CONSTANT d, IsJob(e, d), Applying(e, d), Apply!ApplyDelete
  PROVE  Applying(e, d)'
PROOF
  <1>1. stage = "deletes" /\ deleteList # <<>>
    BY DEF Apply!ApplyDelete
  <1>2. /\ Deleting(e, deleteList, tree, moveTree, parked) /\ insertLists = <<>>
        /\ todo = d /\ top = e.top /\ count = 1 /\ firstFree \in Nat
    BY <1>1 DEF Applying
  <1>3. IsEdit(e)
    BY DEF IsJob
  <1> DEFINE op == Head(deleteList)
             P == Travellers(e, e.old, op.xid)
  <1> HIDE DEF op, P
  <1>4. /\ op.move \in BOOLEAN /\ op.xid \in DOMAIN tree /\ op.xid # e.top /\ P \subseteq DOMAIN tree
        /\ op.move => /\ Apply!Below(tree, op.xid) = P
                      /\ P \cap DOMAIN moveTree = {}
                      /\ Deleting(e, Tail(deleteList), Apply!Without(tree, P),
                                  Apply!Joined(moveTree, [y \in P |-> tree[y]]), parked \cup {op.xid})
        /\ ~op.move => /\ {m.xid : m \in op.content} = P
                       /\ Deleting(e, Tail(deleteList), Apply!Without(tree, P), moveTree, parked)
    BY <1>1, <1>2, <1>3, DeleteStep DEF op, P
  <1>5. IF op.move THEN Apply!MoveFrom(op.xid) ELSE Apply!Delete({n.xid : n \in op.content})
    BY DEF Apply!ApplyDelete, op
  <1>6. CASE op.move
    <2>1. Apply!MoveFrom(op.xid)
      BY <1>5, <1>6
    <2>2. /\ moveTree' = Apply!Joined(moveTree, [y \in P |-> tree[y]])
          /\ parked' = parked \cup {op.xid} /\ tree' = Apply!Without(tree, P)
          /\ deleteList' = Tail(deleteList)
          /\ UNCHANGED <<top, firstFree, todo, insertLists, count, stage>>
      BY <1>2, <1>4, <1>6, <2>1 DEF Apply!MoveFrom, Apply!Copy
    <2>3. Deleting(e, deleteList', tree', moveTree', parked')
      BY <1>4, <1>6, <2>2
    <2> QED
      BY <1>1, <1>2, <2>2, <2>3 DEF Applying, Apply!Stages
  <1>7. CASE ~op.move
    <2>1. Apply!Delete({n.xid : n \in op.content})
      BY <1>5, <1>7
    <2>2. Apply!Delete(P)
      BY <1>4, <1>7, <2>1
    <2>3. /\ tree' = Apply!Without(tree, P) /\ deleteList' = Tail(deleteList)
          /\ UNCHANGED <<top, firstFree, todo, moveTree, parked, insertLists, count, stage>>
      BY <1>4, <2>2 DEF Apply!Delete
    <2>4. Deleting(e, deleteList', tree', moveTree', parked')
      BY <1>4, <1>7, <2>3
    <2> QED
      BY <1>1, <1>2, <2>3, <2>4 DEF Applying, Apply!Stages
  <1> QED
    BY <1>6, <1>7

(***************************************************************************)
(* All nodes are where they are moved from: the inserts are sorted.        *)
(***************************************************************************)
LEMMA EngineSortsInserts ==
  ASSUME NEW CONSTANT e, NEW CONSTANT d, IsJob(e, d), Applying(e, d), Apply!StartInserts
  PROVE  Applying(e, d)'
PROOF
  <1>1. /\ stage = "deletes" /\ deleteList = <<>> /\ stage' = "inserts"
        /\ insertLists' = Apply!SortInserts(todo.inserts)
        /\ UNCHANGED <<tree, top, firstFree, todo, moveTree, parked, deleteList, count>>
    BY DEF Apply!StartInserts
  <1>2. /\ Deleting(e, <<>>, tree, moveTree, parked)
        /\ todo = d /\ top = e.top /\ count = 1 /\ firstFree \in Nat
    BY <1>1 DEF Applying
  <1>3. IsEdit(e) /\ IsScript(e, e.new, e.newNum, e.old, d.inserts) /\ TopDown(e, d.inserts)
    BY DEF IsJob, LeadsOver
  <1> DEFINE lists == Apply!SortInserts(d.inserts)
  <1> HIDE DEF lists
  <1>4. ParentsFirst(e, lists) /\ Missing(lists) = e.cut \cap DOMAIN e.new
    BY <1>3, SortedInserts DEF lists
  <1>5. Inserting(e, lists, tree, moveTree, parked)
    BY <1>2, <1>3, <1>4, DeletesDone
  <1>6. Inserting(e, insertLists', tree', moveTree', parked')
    BY <1>1, <1>2, <1>5 DEF lists
  <1> QED
    BY <1>1, <1>2, <1>6 DEF Applying, Apply!Stages

(***************************************************************************)
(* The greatest of some bounded numbers.                                   *)
(***************************************************************************)
LEMMA GreatestNumber ==
  ASSUME NEW S, S # {}, NEW b \in Int, \A x \in S : x \in Int /\ x <= b
  PROVE  Apply!Max(S) \in S /\ \A x \in S : x <= Apply!Max(S)
PROOF
  <1> DEFINE T == {b - x : x \in S}
  <1>1. T \in SUBSET Nat /\ T # {}
    OBVIOUS
  <1> HIDE DEF T
  <1>2. PICK n \in T : \A m \in T : n <= m
    BY <1>1, LeastNumber
  <1>3. PICK x \in S : n = b - x
    BY <1>2 DEF T
  <1>4. \A y \in S : x >= y
    <2> TAKE y \in S
    <2>1. b - y \in T
      BY DEF T
    <2>2. b - x <= b - y
      BY <1>2, <1>3, <2>1
    <2> QED
      BY <2>2
  <1> QED
    BY <1>3, <1>4 DEF Apply!Max

-----------------------------------------------------------------------------
(***************************************************************************)
(* The first list is the one that is ready.                                *)
(***************************************************************************)
LEMMA FirstIsReady ==
  ASSUME count = 1, Len(insertLists) \in Nat \ {0}, Apply!Par(1) \in DOMAIN tree
  PROVE  Apply!Ready = {0} /\ Apply!InTurn(0) = 1
PROOF
  <1> DEFINE n == Len(insertLists)
  <1>1. 0 % n = 0
    BY SMT
  <1>2. Apply!InTurn(0) = 1
    BY <1>1 DEF Apply!InTurn
  <1>3. 0 \in Apply!Ready
    BY <1>2 DEF Apply!Ready
  <1>4. \A k \in Apply!Ready : k = 0
    <2> SUFFICES ASSUME NEW k \in Apply!Ready, k # 0
                 PROVE  FALSE
      OBVIOUS
    <2>1. /\ k \in 0 .. (n - 1)
          /\ \A h \in 0 .. (k - 1) : Apply!Par(Apply!InTurn(h)) \notin DOMAIN tree
      BY DEF Apply!Ready
    <2>2. 0 \in 0 .. (k - 1)
      BY <2>1
    <2> QED
      BY <1>2, <2>1, <2>2
  <1> QED
    BY <1>2, <1>3, <1>4

(***************************************************************************)
(* An insert operation.                                                    *)
(***************************************************************************)
LEMMA EngineInserts ==
  ASSUME NEW CONSTANT e, NEW CONSTANT d, IsJob(e, d), Applying(e, d), Apply!ApplyInsert
  PROVE  Applying(e, d)'
PROOF
  <1>1. stage = "inserts" /\ insertLists # <<>>
    BY DEF Apply!ApplyInsert
  <1>2. /\ Inserting(e, insertLists, tree, moveTree, parked)
        /\ todo = d /\ top = e.top /\ count = 1 /\ firstFree \in Nat
    BY <1>1 DEF Applying
  <1>3. IsEdit(e)
    BY DEF IsJob
  <1> DEFINE op == insertLists[1][1]
             nodes == Incoming(op, moveTree)
             joined == Apply!Joined(tree, nodes)
             grown == [joined EXCEPT ![op.par].kids =
                         Apply!InsertAt(joined[op.par].kids, op.pos, op.xid)]
  <1> HIDE DEF op, nodes, joined, grown
  <1>4. /\ Len(insertLists) \in Nat \ {0} /\ Head(insertLists[1]) = op
        /\ op.par \in DOMAIN tree /\ op.move \in BOOLEAN
        /\ op.move => op.xid \in DOMAIN moveTree
        /\ op.pos <= Len(tree[op.par].kids) + 1
        /\ DOMAIN nodes \cap DOMAIN tree = {}
        /\ DOMAIN nodes \subseteq DOMAIN e.new
        /\ Inserting(e, Popped(insertLists), grown, moveTree,
                     IF op.move THEN parked \ {op.xid} ELSE parked)
    <2>1. op = insertLists[1][1]
      BY DEF op
    <2>2. joined = Apply!Joined(tree, Incoming(op, moveTree))
      BY DEF joined, nodes
    <2>3. /\ Len(insertLists) \in Nat \ {0} /\ Head(insertLists[1]) = op
          /\ op.par \in DOMAIN tree /\ op.move \in BOOLEAN
          /\ op.move => op.xid \in DOMAIN moveTree
          /\ op.pos <= Len(tree[op.par].kids) + 1
          /\ DOMAIN Incoming(op, moveTree) \cap DOMAIN tree = {}
          /\ DOMAIN Incoming(op, moveTree) \subseteq DOMAIN e.new
          /\ Inserting(e, Popped(insertLists),
               [joined EXCEPT ![op.par].kids =
                  Apply!InsertAt(joined[op.par].kids, op.pos, op.xid)],
               moveTree, IF op.move THEN parked \ {op.xid} ELSE parked)
      <3>1. InsertGoesWell(e, insertLists, tree, moveTree, parked, op, joined)
        BY <1>1, <1>2, <1>3, <2>1, <2>2, InsertStep
      <3> QED
        BY <3>1 DEF InsertGoesWell
    <2> QED
      BY <2>3 DEF nodes, grown
  <1>5. Apply!Par(1) \in DOMAIN tree
    BY <1>4 DEF Apply!Par
  <1>6. Apply!Ready = {0} /\ Apply!InTurn(0) = 1
    BY <1>2, <1>4, <1>5, FirstIsReady
  <1>7. /\ ~(count > Len(insertLists)) /\ Apply!Ready # {}
    BY <1>2, <1>4, <1>6
  <1>8. IF ~op.move THEN Apply!Insert(op, Apply!Content(op), 1)
        ELSE IF op.xid \notin DOMAIN moveTree THEN Apply!SkipMove(1)
        ELSE Apply!Insert(op, [y \in Apply!Below(moveTree, op.xid) |-> moveTree[y]], 1)
    BY <1>4, <1>6, <1>7 DEF Apply!ApplyInsert
  <1>9. Apply!Insert(op, nodes, 1)
    BY <1>4, <1>8 DEF nodes, Incoming
  <1>10. /\ tree' = Apply!Graft(op.xid, nodes, op.par, op.pos)
         /\ firstFree' = Apply!PastXids(DOMAIN nodes)
         /\ parked' = IF op.move THEN parked \ {op.xid} ELSE parked
         /\ insertLists' = Apply!Pop(1) /\ count' = 1
         /\ UNCHANGED <<top, todo, moveTree, deleteList, stage>>
    BY <1>4, <1>9 DEF Apply!Insert, Apply!Fits
  <1>11. tree' = grown
    BY <1>10 DEF Apply!Graft, grown, joined
  <1>12. insertLists' = Popped(insertLists)
    BY <1>10 DEF Apply!Pop, Popped
  <1>13. Inserting(e, insertLists', tree', moveTree', parked')
    BY <1>4, <1>10, <1>11, <1>12
  <1>14. firstFree' \in Nat
    <2> DEFINE S == DOMAIN nodes \cup {firstFree - 1}
    <2>1. PICK b \in Nat : Either(e) \subseteq 0 .. b
      BY DEF IsJob
    <2>2. DOMAIN nodes \subseteq 0 .. b
      BY <1>4, <2>1 DEF Either
    <2>3. b + firstFree \in Int /\ \A x \in S : x \in Int /\ x <= b + firstFree
      BY <1>2, <2>2
    <2>4. S # {} /\ firstFree - 1 \in S
      OBVIOUS
    <2> HIDE DEF S
    <2>5. Apply!Max(S) \in S /\ \A x \in S : x <= Apply!Max(S)
      BY <2>3, <2>4, GreatestNumber
    <2>6. Apply!Max(S) \in Int /\ firstFree - 1 <= Apply!Max(S)
      BY <2>3, <2>4, <2>5
    <2>7. firstFree' = Apply!Max(S) + 1
      BY <1>10 DEF Apply!PastXids, S
    <2> QED
      BY <1>2, <2>6, <2>7
  <1> QED
    BY <1>1, <1>2, <1>10, <1>13, <1>14 DEF Applying, Apply!Stages

(***************************************************************************)
(* All nodes are in their new places.                                      *)
(***************************************************************************)
LEMMA EngineEndsInserts ==
  ASSUME NEW CONSTANT e, NEW CONSTANT d, IsJob(e, d), Applying(e, d), Apply!StartOthers
  PROVE  Applying(e, d)'
PROOF
  <1>1. /\ stage = "inserts" /\ insertLists = <<>> /\ stage' = "attributes"
        /\ UNCHANGED <<tree, top, firstFree, todo, moveTree, parked, deleteList,
                       insertLists, count>>
    BY DEF Apply!StartOthers
  <1>2. /\ Inserting(e, <<>>, tree, moveTree, parked) /\ IsEdit(e)
        /\ todo = d /\ top = e.top /\ count = 1 /\ firstFree \in Nat
    BY <1>1 DEF Applying, IsJob
  <1>3. tree = Rebuilt(e) /\ parked = {}
    BY <1>2, InsertsDone DEF Rebuilt
  <1> QED
    BY <1>1, <1>2, <1>3 DEF Applying, Apply!Stages

(***************************************************************************)
(* The nodes attribute and update operations are about are there.          *)
(***************************************************************************)
LEMMA EngineChangesAttributes ==
  ASSUME NEW CONSTANT e, NEW CONSTANT d, IsJob(e, d), Applying(e, d), Apply!ApplyAttributes
  PROVE  Applying(e, d)'
PROOF
  <1>1. stage = "attributes"
    BY DEF Apply!ApplyAttributes
  <1>2. /\ tree = Rebuilt(e) /\ parked = {} /\ insertLists = <<>>
        /\ todo = d /\ top = e.top /\ count = 1 /\ firstFree \in Nat
    BY <1>1 DEF Applying
  <1>3. \A a \in d.attributes : a.xid \in DOMAIN tree
    BY <1>2 DEF IsJob, Rebuilt
  <1>4. /\ tree' = WithAttributes(tree, todo.attributes)
        /\ stage' = "updates"
        /\ UNCHANGED <<top, firstFree, todo, moveTree, parked, deleteList, insertLists, count>>
    BY <1>2, <1>3 DEF Apply!ApplyAttributes, WithAttributes
  <1> QED
    BY <1>2, <1>4 DEF Applying, Apply!Stages

(* ApplyUpdates leaves the tree with the new texts. *)
LEMMA EngineUpdates ==
  ASSUME NEW CONSTANT e, NEW CONSTANT d, IsJob(e, d), Applying(e, d), Apply!ApplyUpdates
  PROVE  Applying(e, d)'
PROOF
  <1>1. stage = "updates"
    BY DEF Apply!ApplyUpdates
  <1>2. /\ tree = WithAttributes(Rebuilt(e), d.attributes) /\ parked = {} /\ insertLists = <<>>
        /\ todo = d /\ top = e.top /\ count = 1 /\ firstFree \in Nat
    BY <1>1 DEF Applying
  <1>3. DOMAIN tree = DOMAIN e.new
    BY <1>2 DEF WithAttributes, Rebuilt
  <1>4. \A u \in d.updates : u.xid \in DOMAIN tree
    BY <1>3 DEF IsJob
  <1>5. /\ tree' = WithValues(tree, todo.updates)
        /\ stage' = "renameRoot"
        /\ UNCHANGED <<top, firstFree, todo, moveTree, parked, deleteList, insertLists, count>>
    BY <1>2, <1>4 DEF Apply!ApplyUpdates, WithValues
  <1> QED
    BY <1>2, <1>5 DEF Applying, Apply!Stages

(* ApplyRenameRoot leaves the tree with its new tag. *)
LEMMA EngineRenames ==
  ASSUME NEW CONSTANT e, NEW CONSTANT d, IsJob(e, d), Applying(e, d), Apply!ApplyRenameRoot
  PROVE  Applying(e, d)'
PROOF
  <1>1. stage = "renameRoot"
    BY DEF Apply!ApplyRenameRoot
  <1>2. /\ tree = WithValues(WithAttributes(Rebuilt(e), d.attributes), d.updates)
        /\ parked = {} /\ insertLists = <<>>
        /\ todo = d /\ top = e.top /\ count = 1 /\ firstFree \in Nat
    BY <1>1 DEF Applying
  <1>3. /\ tree' = WithName(tree, top, todo.renameRoot.to)
        /\ stage' = "check"
        /\ UNCHANGED <<top, firstFree, todo, moveTree, parked, deleteList, insertLists, count>>
    BY DEF Apply!ApplyRenameRoot, WithName
  <1>4. tree' = Outcome(e, d)
    BY <1>2, <1>3 DEF Outcome
  <1> QED
    BY <1>2, <1>3, <1>4 DEF Applying, Apply!Stages

(***************************************************************************)
(* moveDocument is empty in the end.                                       *)
(***************************************************************************)
LEMMA EngineChecks ==
  ASSUME NEW CONSTANT e, NEW CONSTANT d, IsJob(e, d), Applying(e, d), Apply!CheckMoveDocument
  PROVE  Applying(e, d)'
PROOF
  <1>1. stage = "check"
    BY DEF Apply!CheckMoveDocument
  <1>2. /\ tree = Outcome(e, d) /\ parked = {} /\ insertLists = <<>>
        /\ todo = d /\ top = e.top /\ count = 1 /\ firstFree \in Nat
    BY <1>1 DEF Applying
  <1>3. /\ stage' = "done"
        /\ UNCHANGED <<tree, top, firstFree, todo, moveTree, parked, deleteList,
                       insertLists, count>>
    BY <1>2 DEF Apply!CheckMoveDocument
  <1> QED
    BY <1>2, <1>3 DEF Applying, Apply!Stages

(***************************************************************************)
(* Whatever the engine does, it stays on the way from e.old to e.new.      *)
(***************************************************************************)
LEMMA EngineStep ==
  ASSUME NEW CONSTANT e, NEW CONSTANT d, IsJob(e, d), Applying(e, d), Apply!ApplyNext
  PROVE  Applying(e, d)'
BY EngineDeletes, EngineSortsInserts, EngineInserts, EngineEndsInserts, EngineChangesAttributes,
   EngineUpdates, EngineRenames, EngineChecks DEF Apply!ApplyNext

(* Nothing changes while the engine does nothing. *)
LEMMA EngineRests ==
  ASSUME NEW CONSTANT e, NEW CONSTANT d, Applying(e, d), UNCHANGED applyVars
  PROVE  Applying(e, d)'
BY DEF Applying, applyVars

-----------------------------------------------------------------------------
(***************************************************************************)
(* The delta is a job for the engine.                                      *)
(***************************************************************************)
LEMMA ForthIsJob ==
  ASSUME DeltaIsWritten, NEW e, e = ForthEdit
  PROVE  IsJob(e, delta) /\ IsNamedForth(e) /\ IsCutForth(e)
PROOF
  <1>1. IsNamedForth(e) /\ IsCutForth(e)
    BY ForthNames, ForthCut
  <1>2. IsEdit(e) /\ LeadsOver(e, delta)
    BY <1>1, ForthIsEdit, DeltaLeadsOver
  <1>3. /\ delta.attributes = AttributeChanges /\ delta.updates = NewValues
    BY DEF DeltaIsWritten, DeltaInv, AttributesWritten, AttributesMade, ValuesWritten, InsertsMade
  <1>4. /\ DOMAIN e.old = Nodes(v0) /\ DOMAIN e.new = Named(FinalXids, Nodes(v1))
        /\ \A j \in Nodes(v1) : FinalXids[j] \in DOMAIN e.new
        /\ \A k \in Nodes(v0) : k \in DOMAIN e.new <=> v0event[k] # "deleted"
    BY <1>1 DEF IsNamedForth
  <1>5. /\ MatchedDocuments /\ IsDocument(v0) /\ IsDocument(v1)
        /\ \A i \in Nodes(v0) : v0event[i] = "updateOld" <=> \E u \in Updates : u[1] = i
        /\ \A j \in Nodes(v1) : v1event[j] \in {"inserted", "updateNew"} <=> ~v1Assigned(j)
    BY FinalMarks
  <1>6. ASSUME NEW a \in delta.attributes
        PROVE  a.xid \in DOMAIN e.new
    <2>1. PICK j \in Nodes(v1) : v1Assigned(j) /\ a.xid = v1xid[j]
      BY <1>3 DEF AttributeChanges
    <2>2. FinalXids[j] = v1xid[j]
      BY <1>5, <2>1 DEF FinalXids
    <2> QED
      BY <1>4, <2>1, <2>2
  <1>7. ASSUME NEW a \in delta.updates
        PROVE  a.xid \in DOMAIN e.new
    <2>1. PICK u \in Updates : a.xid = u[1]
      BY <1>3 DEF NewValues
    <2>2. u[1] \in Nodes(v0)
      BY <1>5, UpdatedTexts
    <2>3. v0event[u[1]] # "deleted"
      BY <1>5, <2>2
    <2> QED
      BY <1>4, <2>1, <2>2, <2>3
  <1>8. \E b \in Nat : Either(e) \subseteq 0 .. b
    <2> DEFINE b == v0.n + 1 + Cardinality(Inserted)
    <2>1. v0.n \in Nat /\ Nodes(v0) = 1 .. v0.n
      BY <1>5, DocumentFacts
    <2>2. /\ Cardinality(Inserted) \in Nat
          /\ \A j \in Inserted : FreshXid(j) \in Nat /\ FreshXid(j) < b
      BY <1>5, FreshXidsGrow
    <2>3. b \in Nat /\ v0.n <= b
      BY <2>1, <2>2
    <2> HIDE DEF b
    <2>4. ASSUME NEW j \in Nodes(v1)
          PROVE  FinalXids[j] \in 0 .. b
      <3> DEFINE x == FinalXids[j]
      <3>1. /\ x \in Nat
            /\ x \in Nodes(v0) <=> v1event[j] # "inserted"
            /\ v1event[j] = "inserted" => x = FreshXid(j)
        BY NameFacts
      <3> HIDE DEF x
      <3>2. CASE v1event[j] = "inserted"
        <4>1. j \in Inserted
          BY <1>5, <3>2 DEF Inserted
        <4> QED
          BY <2>2, <2>3, <3>1, <3>2, <4>1 DEF x
      <3>3. CASE v1event[j] # "inserted"
        BY <2>1, <2>3, <3>1, <3>3 DEF x
      <3> QED
        BY <3>2, <3>3
    <2>5. Either(e) \subseteq 0 .. b
      BY <1>4, <2>1, <2>3, <2>4 DEF Either, Named
    <2> QED
      BY <2>3, <2>5
  <1> QED
    BY <1>1, <1>2, <1>6, <1>7, <1>8 DEF IsJob

(***************************************************************************)
(* The edit and the delta do not change while the engine works.            *)
(***************************************************************************)
LEMMA EditStays ==
  ASSUME UNCHANGED scriptVars
  PROVE  /\ ForthEdit' = ForthEdit /\ FinalXids' = FinalXids
         /\ v0' = v0 /\ v1' = v1 /\ delta' = delta /\ pass' = pass
PROOF
  <1>1. /\ UNCHANGED <<matched, v0event, v1event, v0xid, v1xid>>
        /\ v0' = v0 /\ v1' = v1 /\ delta' = delta /\ pass' = pass
    BY DEF scriptVars, matched
  <1>2. Updates' = Updates
    BY <1>1, MatchingStays
  <1>3. FinalXids' = FinalXids
    BY <1>1, <1>2 DEF FinalXids, OldText
  <1>4. OldScripted' = OldScripted /\ NewScripted' = NewScripted
    BY <1>1, CallsStay
  <1>5. ForthEdit' = ForthEdit
    BY <1>1, <1>3, <1>4 DEF ForthEdit
  <1> QED
    BY <1>1, <1>3, <1>5

(***************************************************************************)
(* The inductive invariant of the round trip: the engine waits, or is on   *)
(* its way from the first document to the second.                          *)
(***************************************************************************)
RoundTripInv ==
  /\ ScriptInv /\ DeltaInv
  /\ stage = "waiting" => ApplyInit
  /\ stage # "waiting" => pass = "written" /\ Applying(ForthEdit, delta)

(* Before anything is marked. *)
LEMMA RoundTripBegins ==
  ASSUME Init, RootsMatch
  PROVE  RoundTripInv
BY ScriptInitInvariant, DeltaInitInvariant DEF Init, ApplyInit, RoundTripInv

(***************************************************************************)
(* xydelta reads what xydiff has written.                                  *)
(***************************************************************************)
LEMMA DeltaIsRead ==
  ASSUME RoundTripInv, ReadDelta
  PROVE  stage' # "waiting" /\ pass' = "written" /\ Applying(ForthEdit, delta)'
PROOF
  <1>1. /\ pass = "written" /\ UNCHANGED scriptVars
        /\ Apply!Begin(TreeOf(v0, v0xid), v0xid[Root(v0)], v0.n + 1, delta)
    BY DEF ReadDelta
  <1>2. DeltaIsWritten
    BY <1>1 DEF RoundTripInv, DeltaIsWritten
  <1>3. PICK e : e = ForthEdit
    OBVIOUS
  <1>4. PICK d : d = delta
    OBVIOUS
  <1>5. IsJob(e, d) /\ IsNamedForth(e) /\ IsCutForth(e)
    BY <1>2, <1>3, <1>4, ForthIsJob
  <1>6. /\ e.old = TreeOf(v0, DefaultXids(v0)) /\ e.top = Root(v0)
        /\ IsNumbering(v0, DefaultXids(v0), e.oldNum) /\ DOMAIN e.old = Nodes(v0)
    BY <1>5 DEF IsNamedForth
  <1>7. IsDocument(v0) /\ v0xid = DefaultXids(v0)
    BY <1>2 DEF DeltaIsWritten, ScriptInv, XidsGiven, MatchedDocuments, GivenDocuments
  <1>8. v0.n + 1 \in Nat /\ Root(v0) \in Nodes(v0)
    BY <1>7, DocumentFacts
  <1>9. \A i \in Nodes(v0) : DefaultXids(v0)[i] = i
    BY DEF DefaultXids
  <1>10. v0xid[Root(v0)] = e.top
    BY <1>6, <1>7, <1>8, <1>9
  <1>11. Apply!Begin(e.old, e.top, v0.n + 1, d)
    BY <1>1, <1>4, <1>6, <1>7, <1>10
  <1>12. e.old = [x \in DOMAIN e.old |-> Node(e.was[x], e.old[x].kids)]
    <2> DEFINE t == e.old
               id == DefaultXids(v0)
    <2> HIDE DEF t, id
    <2>1. t = TreeOf(v0, id) /\ IsNumbering(v0, id, e.oldNum) /\ DOMAIN t = Nodes(v0)
      BY <1>6 DEF t, id
    <2>2. t = [x \in DOMAIN t |-> t[x]]
      BY <1>7, <2>1, TreeOfNodes
    <2>3. \A i \in Nodes(v0) : t[id[i]] = Node(t[id[i]], t[id[i]].kids)
      BY <1>7, <2>1, TreeOfNodes
    <2>4. \A i \in Nodes(v0) : id[i] = i /\ e.was[i] = t[i]
      BY <1>5, <1>9 DEF IsCutForth, t, id
    <2>5. \A x \in DOMAIN t : t[x] = Node(e.was[x], t[x].kids)
      BY <2>1, <2>3, <2>4
    <2>6. t = [x \in DOMAIN t |-> Node(e.was[x], t[x].kids)]
      BY <2>2, <2>5
    <2> QED
      BY <2>6 DEF t
  <1>13. Applying(e, d)'
    BY <1>5, <1>8, <1>11, <1>12, EngineBegins
  <1>14. ForthEdit' = e /\ delta' = d /\ pass' = "written"
    BY <1>1, <1>3, <1>4, EditStays
  <1>15. stage' # "waiting"
    BY <1>11 DEF Apply!Begin
  <1> QED
    BY <1>13, <1>14, <1>15

(***************************************************************************)
(* A step of either tool keeps the invariant.                              *)
(***************************************************************************)
LEMMA RoundTripStep ==
  ASSUME RoundTripInv, [Next]_vars
  PROVE  RoundTripInv'
PROOF
  <1>1. ScriptInv /\ DeltaInv
    BY DEF RoundTripInv
  <1>2. CASE ScriptNext /\ UNCHANGED applyVars
    <2>1. pass # "written"
      BY <1>2 DEF ScriptNext, MarkOldTree, MarkNewTree, ComputeWeakMove, DetectUpdate,
                  AddAttributeOperations, ConstructDeleteScript, ConstructInsertScript,
                  AddRenameRoot
    <2>2. ApplyInit /\ stage = "waiting"
      BY <2>1 DEF RoundTripInv
    <2>3. stage' = "waiting" /\ ApplyInit'
      BY <1>2, <2>2 DEF applyVars, ApplyInit
    <2>4. ScriptInv'
      BY <1>1, <1>2, MarkOldTreeInvariant, MarkNewTreeInvariant, ComputeWeakMoveInvariant,
         DetectUpdateInvariant, AddAttributeOperationsInvariant, ConstructDeleteScriptInvariant,
         ConstructInsertScriptInvariant, AddRenameRootInvariant DEF ScriptNext
    <2>5. DeltaInv'
      BY <1>1, <1>2, <2>4, DeltaStep
    <2> QED
      BY <2>3, <2>4, <2>5 DEF RoundTripInv
  <1>3. ASSUME UNCHANGED scriptVars
        PROVE  /\ ScriptInv' /\ DeltaInv' /\ ForthEdit' = ForthEdit
               /\ delta' = delta /\ pass' = pass
    BY <1>1, <1>3, ApplyingKeepsScript, ApplyingKeepsDelta, EditStays
  <1>4. CASE ReadDelta
    <2>1. UNCHANGED scriptVars
      BY <1>4 DEF ReadDelta
    <2> QED
      BY <1>3, <1>4, <2>1, DeltaIsRead DEF RoundTripInv
  <1>5. CASE Apply!ApplyNext /\ UNCHANGED scriptVars
    <2>1. stage # "waiting"
      BY <1>5 DEF Apply!ApplyNext, Apply!ApplyDelete, Apply!StartInserts, Apply!ApplyInsert,
                  Apply!StartOthers, Apply!ApplyAttributes, Apply!ApplyUpdates,
                  Apply!ApplyRenameRoot, Apply!CheckMoveDocument
    <2>2. pass = "written" /\ Applying(ForthEdit, delta)
      BY <2>1 DEF RoundTripInv
    <2>3. PICK e : e = ForthEdit
      OBVIOUS
    <2>4. PICK d : d = delta
      OBVIOUS
    <2>5. IsJob(e, d)
      BY <1>1, <2>2, <2>3, <2>4, ForthIsJob DEF DeltaIsWritten
    <2>6. Applying(e, d)
      BY <2>2, <2>3, <2>4
    <2>7. Applying(e, d)'
      BY <1>5, <2>5, <2>6, EngineStep
    <2>8. stage' # "waiting"
      BY <2>7 DEF Applying
    <2>9. ForthEdit' = e /\ delta' = d
      BY <1>3, <1>5, <2>3, <2>4
    <2> QED
      BY <1>3, <1>5, <2>2, <2>7, <2>8, <2>9 DEF RoundTripInv
  <1>6. CASE UNCHANGED vars
    <2>1. UNCHANGED scriptVars /\ UNCHANGED applyVars
      BY <1>6 DEF vars
    <2>2. CASE stage = "waiting"
      <3>1. ApplyInit' /\ stage' = "waiting"
        BY <2>1, <2>2 DEF RoundTripInv, ApplyInit, applyVars
      <3> QED
        BY <1>3, <2>1, <3>1 DEF RoundTripInv
    <2>3. CASE stage # "waiting"
      <3>1. pass = "written" /\ Applying(ForthEdit, delta)
        BY <2>3 DEF RoundTripInv
      <3>2. PICK e : e = ForthEdit
        OBVIOUS
      <3>3. PICK d : d = delta
        OBVIOUS
      <3>4. Applying(e, d)'
        BY <2>1, <3>1, <3>2, <3>3, EngineRests
      <3>5. stage' # "waiting" /\ ForthEdit' = e /\ delta' = d
        BY <1>3, <2>1, <2>3, <3>2, <3>3 DEF applyVars
      <3> QED
        BY <1>3, <2>1, <3>1, <3>4, <3>5 DEF RoundTripInv
    <2> QED
      BY <2>2, <2>3
  <1> QED
    BY <1>2, <1>4, <1>5, <1>6 DEF Next

(***************************************************************************)
(* When the roots are matched with each other, the delta leads from the    *)
(* first document to the second, and the engine does not lose the way.     *)
(***************************************************************************)
THEOREM RoundTripInvariance == Spec => [](RootsMatch => RoundTripInv)
PROOF
  <1>1. Init => (RootsMatch => RoundTripInv)
    BY RoundTripBegins
  <1>2. (RootsMatch => RoundTripInv) /\ [Next]_vars => (RootsMatch => RoundTripInv)'
    BY RootsStay, RoundTripStep
  <1> QED
    BY <1>1, <1>2, PTL DEF Spec

-----------------------------------------------------------------------------
(* One tree with this root, whose numbers are in postfix order. *)
IsWhole(t, root, num, n) ==
  IsForest(t, num, n) /\ root \in DOMAIN t /\ Apply!Below(t, root) = DOMAIN t

(* A forest in which every node but one has a parent is one tree. *)
LEMMA RootedIsWhole ==
  ASSUME NEW t, NEW num, NEW n, IsForest(t, num, n), NEW root \in DOMAIN t,
         \A x \in DOMAIN t \ {root} : \E p \in DOMAIN t : x \in Apply!Kids(t, p)
  PROVE  IsWhole(t, root, num, n)
PROOF
  <1>1. Grows(t, num, n)
    BY DEF IsForest
  <1>2. \A x \in DOMAIN t : Apply!Kids(t, x) \subseteq DOMAIN t
    BY <1>1 DEF Grows
  <1>3. DOMAIN t \subseteq DOMAIN t
    OBVIOUS
  <1>4. Apply!Below(t, root) = DOMAIN t
    BY <1>1, <1>2, <1>3, BelowIs
  <1> QED
    BY <1>4 DEF IsWhole

(***************************************************************************)
(* A walk of a whole tree meets every node, and none twice.                *)
(***************************************************************************)
LEMMA WholeIsListed ==
  ASSUME NEW t, NEW root, NEW num, NEW n, IsWhole(t, root, num, n)
  PROVE  /\ Lists(Postfix(t, root), DOMAIN t, num)
         /\ ToSet(Postfix(t, root)) = DOMAIN t
         /\ Len(Postfix(t, root)) = Cardinality(DOMAIN t)
PROOF
  <1> DEFINE s == Postfix(t, root)
             A == DOMAIN t
  <1>1. Lists(s, A, num)
    <2>1. IsForest(t, num, n) /\ root \in DOMAIN t /\ Apply!Below(t, root) = DOMAIN t
      BY DEF IsWhole
    <2>2. Lists(Postfix(t, root), Apply!Below(t, root), num)
      BY <2>1, PostfixLists
    <2> QED
      BY <2>1, <2>2
  <1> HIDE DEF s, A
  <1>2. /\ Cardinality(A) = Len(s)
        /\ \A k \in 1 .. Len(s) : s[k] \in A
    BY <1>1, ListedPlaces
  <1>3. DOMAIN s = 1 .. Len(s) /\ \A a \in A : \E k \in 1 .. Len(s) : s[k] = a
    BY <1>1, ListFacts
  <1>4. ToSet(s) = A
    BY <1>2, <1>3 DEF ToSet
  <1> QED
    BY <1>1, <1>2, <1>4 DEF s, A

(* What the engine's two trees are at every moment. *)
IsKept(e, t, moved, waiting) ==
  /\ \E num : IsWhole(t, e.top, num, e.n)
  /\ DOMAIN t \subseteq Either(e)
  /\ waiting \subseteq DOMAIN moved
  /\ \A x \in Both(e) : x \in DOMAIN t \/ \E z \in waiting : x \in Apply!Below(moved, z)

(***************************************************************************)
(* While nodes are taken out the document stays a tree, and what has been  *)
(* taken out is below a node that waits in moveDocument.                   *)
(***************************************************************************)
LEMMA DeletingKeeps ==
  ASSUME NEW e, IsEdit(e), NEW ops, NEW t, NEW moved, NEW waiting,
         Deleting(e, ops, t, moved, waiting)
  PROVE  IsKept(e, t, moved, waiting)
PROOF
  <1> DEFINE undone == Undone(ops)
  <1>1. /\ BottomUp(e, ops) /\ StillThere(e, undone, t) /\ TakenOut(e, undone, moved)
        /\ waiting = (e.cut \cap Both(e)) \ undone
    BY DEF Deleting
  <1>2. /\ IsSide(e, e.old, e.oldNum)
        /\ \A x \in DOMAIN e.old : x \in DOMAIN e.new <=> e.home[x] \in DOMAIN e.new
    BY DEF IsEdit
  <1>3. /\ IsForest(e.old, e.oldNum, e.n) /\ IsRooted(e.old, e.top) /\ e.top \notin e.cut
        /\ \A z \in e.cut \cup {e.top} : e.home[z] = z
        /\ \A x \in DOMAIN e.old :
             /\ e.home[x] \in e.cut \cup {e.top} /\ e.home[x] \in DOMAIN e.old
             /\ \A c \in Apply!Kids(e.old, x) \ e.cut : e.home[c] = e.home[x]
    BY <1>2 DEF IsSide
  <1>4. undone \subseteq e.cut \cap DOMAIN e.old
    BY <1>1 DEF BottomUp, IsOp, Undone
  <1>5. \A z \in undone : \E k \in DOMAIN ops : ops[k].xid = z
    BY DEF Undone
  <1> HIDE DEF undone
  <1>6. /\ IsForest(t, e.oldNum, e.n) /\ DOMAIN t = OldPlaces(e, undone)
        /\ \A x \in DOMAIN t : Apply!Kids(t, x) = OldKids(e, undone, x)
    BY <1>1, <1>4, StillThereForest
  <1>7. e.top \in DOMAIN t /\ e.top \in DOMAIN e.old
    BY <1>3, <1>6 DEF OldPlaces, IsRooted
  <1>8. ASSUME NEW x \in DOMAIN t \ {e.top}
        PROVE  \E p \in DOMAIN t : x \in Apply!Kids(t, p)
    <2>1. x \in DOMAIN e.old /\ e.home[x] \in undone \cup {e.top}
      BY <1>6 DEF OldPlaces
    <2>2. PICK p \in DOMAIN e.old : x \in Apply!Kids(e.old, p)
      BY <1>3, <2>1 DEF IsRooted
    <2>3. CASE x \notin e.cut
      <3>1. e.home[p] = e.home[x]
        BY <1>3, <2>2, <2>3
      <3>2. p \in DOMAIN t
        BY <1>6, <2>1, <2>2, <3>1 DEF OldPlaces
      <3> QED
        BY <1>6, <2>2, <2>3, <3>2 DEF OldKids
    <2>4. CASE x \in e.cut
      <3>1. x \in undone
        BY <1>3, <2>1, <2>4
      <3>2. PICK k \in DOMAIN ops : ops[k].xid = x
        BY <1>5, <3>1
      <3>3. IsOp(e, e.old, e.oldNum, e.new, ops[k]) /\ e.home[ops[k].par] \in undone \cup {e.top}
        BY <1>1, <3>2 DEF BottomUp, undone
      <3>4. ops[k].par = p
        BY <1>2, <2>2, <3>2, <3>3, ParentIsNamed
      <3>5. p \in DOMAIN t
        BY <1>6, <2>2, <3>3, <3>4 DEF OldPlaces
      <3> QED
        BY <1>6, <2>2, <3>1, <3>5 DEF OldKids
    <2> QED
      BY <2>3, <2>4
  <1>9. IsWhole(t, e.top, e.oldNum, e.n)
    BY <1>6, <1>7, <1>8, RootedIsWhole
  <1>10. DOMAIN t \subseteq Either(e)
    BY <1>6 DEF OldPlaces, Either
  <1> DEFINE nodes == {x \in Both(e) : e.home[x] \notin undone \cup {e.top}}
  <1>11. IsPartly(e, moved, nodes, e.oldNum, KeptKids(e, e.old))
    BY <1>1 DEF TakenOut
  <1>12. \A x \in nodes : x \in DOMAIN e.old /\ KeptKids(e, e.old)[x] = Apply!Kids(e.old, x) \ e.cut
    BY DEF KeptKids, Both
  <1>13. \A x \in nodes : KeptKids(e, e.old)[x] \subseteq nodes
    <2> SUFFICES ASSUME NEW x \in nodes, NEW c \in Apply!Kids(e.old, x) \ e.cut
                 PROVE  c \in nodes
      BY <1>12
    <2>1. c \in DOMAIN e.old
      BY <1>3, <1>12 DEF IsForest, Grows
    <2>2. e.home[c] = e.home[x]
      BY <1>3, <1>12
    <2> QED
      BY <1>2, <1>12, <2>1, <2>2 DEF Both
  <1>14. nodes \subseteq DOMAIN e.old
    BY DEF Both
  <1> HIDE DEF nodes
  <1>15. /\ IsForest(moved, e.oldNum, e.n) /\ DOMAIN moved = nodes
         /\ \A x \in nodes : Apply!Kids(moved, x) = Apply!Kids(e.old, x) \ e.cut
    <2> DEFINE K == KeptKids(e, e.old)
               base == e.old
    <2>1. IsPartly(e, moved, nodes, e.oldNum, K) /\ IsForest(base, e.oldNum, e.n)
      BY <1>3, <1>11
    <2>2. nodes \subseteq DOMAIN base
      BY <1>14
    <2>3. \A x \in nodes : K[x] \subseteq Apply!Kids(base, x) /\ K[x] \subseteq nodes
      BY <1>12, <1>13
    <2>4. \A x \in nodes : K[x] = Apply!Kids(base, x) \ e.cut
      BY <1>12
    <2> HIDE DEF K, base
    <2>5. /\ IsForest(moved, e.oldNum, e.n) /\ DOMAIN moved = nodes
          /\ \A x \in nodes : Apply!Kids(moved, x) = K[x]
      BY <2>1, <2>2, <2>3, PartlyForest
    <2> QED
      BY <2>4, <2>5 DEF base
  <1>16. waiting \subseteq DOMAIN moved
    <2> SUFFICES ASSUME NEW z \in waiting
                 PROVE  z \in nodes
      BY <1>15
    <2> QED
      BY <1>1, <1>3 DEF nodes
  <1>17. ASSUME NEW x \in Both(e), x \notin DOMAIN t
         PROVE  \E z \in waiting : x \in Apply!Below(moved, z)
    <2> DEFINE z == e.home[x]
               P == Travellers(e, e.old, z)
    <2>1. x \in DOMAIN e.old /\ x \in DOMAIN e.new
      BY DEF Both
    <2>2. z \notin undone \cup {e.top} /\ z \in e.cut /\ z \in DOMAIN e.old /\ z \in DOMAIN e.new
      BY <1>2, <1>3, <1>6, <1>17, <2>1 DEF OldPlaces
    <2>3. z \in waiting
      BY <1>1, <2>2 DEF Both
    <2>4. P \subseteq DOMAIN moved
      BY <1>2, <1>15, <2>2 DEF Travellers, nodes, Both
    <2>5. \A y \in P : Apply!Kids(moved, y) = Apply!Kids(e.old, y) \ e.cut
      BY <1>15, <2>4
    <2>6. z \in DOMAIN moved
      BY <1>16, <2>3
    <2>7. x \in P
      BY <2>1 DEF Travellers
    <2> HIDE DEF z
    <2>8. P = Travellers(e, e.old, z)
      OBVIOUS
    <2> HIDE DEF P
    <2>9. Apply!Below(moved, z) = P
      BY <1>2, <1>15, <2>2, <2>4, <2>5, <2>6, <2>8, TravellersBelow
    <2> QED
      BY <2>3, <2>7, <2>9
  <1> QED
    BY <1>9, <1>10, <1>16, <1>17 DEF IsKept

-----------------------------------------------------------------------------
(***************************************************************************)
(* While nodes are brought in the document stays a tree, and what has not  *)
(* been brought back is below a node that waits in moveDocument.           *)
(***************************************************************************)
LEMMA InsertingKeeps ==
  ASSUME NEW e, IsEdit(e), NEW lists, NEW t, NEW moved, NEW waiting,
         Inserting(e, lists, t, moved, waiting)
  PROVE  IsKept(e, t, moved, waiting)
PROOF
  <1> DEFINE missing == Missing(lists)
  <1>1. /\ ParentsFirst(e, lists) /\ AlreadyThere(e, missing, t) /\ Movable(e, moved)
        /\ waiting = missing \cap DOMAIN e.old
    BY DEF Inserting
  <1>2. /\ IsSide(e, e.new, e.newNum)
        /\ \A x \in DOMAIN e.new : x \in DOMAIN e.old <=> e.home[x] \in DOMAIN e.old
    BY DEF IsEdit
  <1>3. /\ IsForest(e.new, e.newNum, e.n) /\ IsRooted(e.new, e.top) /\ e.top \notin e.cut
        /\ \A z \in e.cut \cup {e.top} : e.home[z] = z
        /\ \A x \in DOMAIN e.new :
             /\ e.home[x] \in e.cut \cup {e.top} /\ e.home[x] \in DOMAIN e.new
             /\ \A c \in Apply!Kids(e.new, x) \ e.cut : e.home[c] = e.home[x]
    BY <1>2 DEF IsSide
  <1>4. missing \subseteq e.cut \cap DOMAIN e.new
    <2>1. \A l \in DOMAIN lists : \A k \in DOMAIN lists[l] :
            lists[l][k].xid \in e.cut \cap DOMAIN e.new
      BY <1>1 DEF ParentsFirst, IsInsertList, IsOp
    <2> QED
      BY <2>1 DEF Missing
  <1> HIDE DEF missing
  <1> DEFINE K == [x \in DOMAIN e.new |-> Apply!Kids(e.new, x) \ missing]
             nodes == NewPlaces(e, missing)
             base == e.new
  <1>5. /\ IsPartly(e, t, nodes, e.newNum, K)
        /\ \A x \in DOMAIN e.new :
             e.home[x] \in missing => Apply!Kids(e.new, x) \cap e.cut \subseteq missing
    BY <1>1 DEF AlreadyThere
  <1>6. nodes \subseteq DOMAIN base /\ \A x \in nodes : x \in DOMAIN e.new /\ e.home[x] \notin missing
    BY DEF NewPlaces
  <1>7. \A x \in nodes : K[x] = Apply!Kids(base, x) \ missing
    BY <1>6
  <1>8. \A x \in nodes : K[x] \subseteq nodes
    <2> SUFFICES ASSUME NEW x \in nodes, NEW c \in Apply!Kids(e.new, x) \ missing
                 PROVE  c \in nodes
      BY <1>7
    <2>1. c \in DOMAIN e.new
      BY <1>3, <1>6 DEF IsForest, Grows
    <2>2. e.home[c] \notin missing
      BY <1>3, <1>4, <1>6
    <2> QED
      BY <2>1, <2>2 DEF NewPlaces
  <1>9. \A x \in DOMAIN e.new : e.home[x] \notin missing => x \in nodes
    BY DEF NewPlaces
  <1>10. IsForest(base, e.newNum, e.n)
    BY <1>3
  <1> HIDE DEF K, nodes, base
  <1>11. /\ IsForest(t, e.newNum, e.n) /\ DOMAIN t = nodes
         /\ \A x \in nodes : Apply!Kids(t, x) = K[x]
    BY <1>5, <1>6, <1>7, <1>8, <1>10, PartlyForest
  <1>12. e.top \in nodes
    BY <1>3, <1>4, <1>9 DEF IsRooted
  <1>13. ASSUME NEW x \in DOMAIN t \ {e.top}
         PROVE  \E p \in DOMAIN t : x \in Apply!Kids(t, p)
    <2>1. x \in DOMAIN e.new /\ e.home[x] \notin missing
      BY <1>6, <1>11
    <2>2. PICK p \in DOMAIN e.new : x \in Apply!Kids(e.new, p)
      BY <1>3, <2>1 DEF IsRooted
    <2>3. x \notin missing
      BY <1>3, <1>4, <2>1
    <2>4. e.home[p] \notin missing
      <3>1. CASE x \notin e.cut
        BY <1>3, <2>1, <2>2, <3>1
      <3>2. CASE x \in e.cut
        BY <1>5, <2>2, <2>3, <3>2
      <3> QED
        BY <3>1, <3>2
    <2> QED
      BY <1>7, <1>9, <1>11, <2>2, <2>3, <2>4 DEF base
  <1>14. IsWhole(t, e.top, e.newNum, e.n)
    BY <1>11, <1>12, <1>13, RootedIsWhole
  <1>15. DOMAIN t \subseteq Either(e)
    BY <1>6, <1>11 DEF Either
  <1>16. waiting \subseteq DOMAIN moved
    <2>1. DOMAIN moved = Movables(e)
      BY <1>1 DEF Movable, IsPartly
    <2> QED
      BY <1>1, <1>3, <1>4, <2>1 DEF Movables, Both
  <1>17. ASSUME NEW x \in Both(e), x \notin DOMAIN t
         PROVE  \E z \in waiting : x \in Apply!Below(moved, z)
    <2> DEFINE z == e.home[x]
               P == Travellers(e, e.new, z)
    <2>1. x \in DOMAIN e.old /\ x \in DOMAIN e.new
      BY DEF Both
    <2>2. z \in missing
      BY <1>9, <1>11, <1>17, <2>1
    <2>3. z \in e.cut /\ z \in DOMAIN e.old /\ z \in DOMAIN e.new
      BY <1>2, <1>4, <2>1, <2>2
    <2>4. x \in P
      BY <2>1 DEF Travellers
    <2> HIDE DEF z
    <2>5. P = Travellers(e, e.new, z)
      OBVIOUS
    <2> HIDE DEF P
    <2>6. Apply!Below(moved, z) = P
      BY <1>1, <2>3, <2>5, MovedNodes
    <2> QED
      BY <1>1, <2>2, <2>3, <2>4, <2>6
  <1> QED
    BY <1>14, <1>15, <1>16, <1>17 DEF IsKept

(***************************************************************************)
(* A tree of the new nodes with the new lists of children is a whole one.  *)
(***************************************************************************)
LEMMA NewShapeIsWhole ==
  ASSUME NEW e, IsEdit(e), NEW t, DOMAIN t = DOMAIN e.new,
         \A x \in DOMAIN t : t[x].kids = e.new[x].kids
  PROVE  IsWhole(t, e.top, e.newNum, e.n) /\ \A moved : IsKept(e, t, moved, {})
PROOF
  <1>1. IsSide(e, e.new, e.newNum)
    BY DEF IsEdit
  <1>2. IsForest(e.new, e.newNum, e.n) /\ IsRooted(e.new, e.top)
    BY <1>1 DEF IsSide
  <1>3. \A x \in DOMAIN t : Apply!Kids(t, x) = Apply!Kids(e.new, x)
    BY DEF Apply!Kids, Apply!Range
  <1>4. \A x \in DOMAIN t :
          /\ Apply!Kids(t, x) \subseteq Apply!Kids(e.new, x)
          /\ Apply!Kids(t, x) \subseteq DOMAIN t
          /\ Lists(t[x].kids, Apply!Kids(t, x), e.newNum)
    BY <1>2, <1>3 DEF IsForest, Grows
  <1>5. IsForest(t, e.newNum, e.n)
    BY <1>2, <1>4, PartOfForest
  <1>6. e.top \in DOMAIN t /\ \A x \in DOMAIN t \ {e.top} : \E p \in DOMAIN t : x \in Apply!Kids(t, p)
    BY <1>2, <1>3 DEF IsRooted
  <1>7. IsWhole(t, e.top, e.newNum, e.n)
    BY <1>5, <1>6, RootedIsWhole
  <1>8. DOMAIN t \subseteq Either(e) /\ \A x \in Both(e) : x \in DOMAIN t
    BY DEF Either, Both
  <1> QED
    BY <1>7, <1>8 DEF IsKept

(***************************************************************************)
(* The operations on attributes, texts and the root's name leave the       *)
(* lists of children alone.                                                *)
(***************************************************************************)
LEMMA ValuesKeepShape ==
  ASSUME NEW t, NEW changes, NEW values, NEW root, NEW name,
         \A x \in DOMAIN t : t[x] = Node(t[x], t[x].kids),
         NEW a, a = WithAttributes(t, changes),
         NEW v, v = WithValues(a, values),
         NEW r, r = WithName(v, root, name)
  PROVE  /\ DOMAIN a = DOMAIN t /\ DOMAIN v = DOMAIN t /\ DOMAIN r = DOMAIN t
         /\ \A x \in DOMAIN t : /\ a[x].kids = t[x].kids /\ v[x].kids = t[x].kids
                                /\ r[x].kids = t[x].kids
PROOF
  <1>1. DOMAIN a = DOMAIN t /\ \A x \in DOMAIN t : \E w : a[x] = [t[x] EXCEPT !.attr = w]
    BY DEF WithAttributes
  <1>2. \A x \in DOMAIN t : \E w : a[x] = [kind |-> t[x].kind, label |-> t[x].label, attr |-> w,
                                          kids |-> t[x].kids]
    <2> TAKE x \in DOMAIN t
    <2>1. PICK w : a[x] = [t[x] EXCEPT !.attr = w]
      BY <1>1
    <2>2. t[x] = Node(t[x], t[x].kids)
      OBVIOUS
    <2>3. [Node(t[x], t[x].kids) EXCEPT !.attr = w]
            = [kind |-> t[x].kind, label |-> t[x].label, attr |-> w, kids |-> t[x].kids]
      BY DEF Node
    <2> QED
      BY <2>1, <2>2, <2>3
  <1>3. DOMAIN v = DOMAIN t /\ \A x \in DOMAIN t : \E w : v[x] = [a[x] EXCEPT !.label = w]
    BY <1>1 DEF WithValues
  <1>4. \A x \in DOMAIN t : \E w, u : v[x] = [kind |-> t[x].kind, label |-> u, attr |-> w,
                                             kids |-> t[x].kids]
    <2> TAKE x \in DOMAIN t
    <2>1. PICK w : a[x] = [kind |-> t[x].kind, label |-> t[x].label, attr |-> w, kids |-> t[x].kids]
      BY <1>2
    <2>2. PICK u : v[x] = [a[x] EXCEPT !.label = u]
      BY <1>3
    <2>3. v[x] = [kind |-> t[x].kind, label |-> u, attr |-> w, kids |-> t[x].kids]
      BY <2>1, <2>2
    <2> QED
      BY <2>3
  <1>5. \A x \in DOMAIN t : a[x].kids = t[x].kids /\ v[x].kids = t[x].kids
    <2> TAKE x \in DOMAIN t
    <2>1. PICK w : a[x] = [kind |-> t[x].kind, label |-> t[x].label, attr |-> w, kids |-> t[x].kids]
      BY <1>2
    <2>2. PICK u, z : v[x] = [kind |-> t[x].kind, label |-> u, attr |-> z, kids |-> t[x].kids]
      BY <1>4
    <2>3. a[x].kids = t[x].kids
      BY <2>1
    <2>4. v[x].kids = t[x].kids
      BY <2>2
    <2> QED
      BY <2>3, <2>4
  <1>6. DOMAIN r = DOMAIN t /\ \A x \in DOMAIN t : r[x].kids = v[x].kids
    <2>1. CASE name = None
      BY <1>3, <2>1 DEF WithName
    <2>2. CASE name # None
      <3>1. r = [v EXCEPT ![root].label = name]
        BY <2>2 DEF WithName
      <3>2. ASSUME NEW x \in DOMAIN t
            PROVE  r[x].kids = v[x].kids
        <4>1. PICK w, u : v[x] = [kind |-> t[x].kind, label |-> u, attr |-> w, kids |-> t[x].kids]
          BY <1>4
        <4>2. r[x] = v[x] \/ r[x] = [v[x] EXCEPT !.label = name]
          BY <1>3, <3>1
        <4>3. [v[x] EXCEPT !.label = name].kids = v[x].kids
          BY <4>1
        <4> QED
          BY <4>2, <4>3
      <3> QED
        BY <1>3, <3>1, <3>2
    <2> QED
      BY <2>1, <2>2
  <1> QED
    BY <1>1, <1>3, <1>5, <1>6

-----------------------------------------------------------------------------
(* The nodes of the tree when all of them are in their new places. *)
LEMMA RebuiltNodes ==
  ASSUME NEW e, NEW t, t = Rebuilt(e)
  PROVE  /\ DOMAIN t = DOMAIN e.new
         /\ \A x \in DOMAIN t : /\ t[x] = Node(e.was[x], e.new[x].kids)
                                /\ t[x] = Node(t[x], t[x].kids)
                                /\ t[x].kids = e.new[x].kids
PROOF
  <1>1. DOMAIN t = DOMAIN e.new /\ \A x \in DOMAIN t : t[x] = Node(e.was[x], e.new[x].kids)
    BY DEF Rebuilt
  <1>2. ASSUME NEW x \in DOMAIN t
        PROVE  t[x] = Node(t[x], t[x].kids) /\ t[x].kids = e.new[x].kids
    <2>1. t[x] = [kind |-> e.was[x].kind, label |-> e.was[x].label, attr |-> e.was[x].attr,
                  kids |-> e.new[x].kids]
      BY <1>1 DEF Node
    <2> QED
      BY <2>1 DEF Node
  <1> QED
    BY <1>1, <1>2

(***************************************************************************)
(* At every moment the engine's document is one tree, and what both        *)
(* documents have is in it or in moveDocument.                             *)
(***************************************************************************)
LEMMA EngineKeeps ==
  ASSUME NEW CONSTANT e, NEW CONSTANT d, IsJob(e, d), Applying(e, d)
  PROVE  IsKept(e, tree, moveTree, parked)
PROOF
  <1>1. IsEdit(e)
    BY DEF IsJob
  <1>2. CASE stage = "deletes"
    BY <1>1, <1>2, DeletingKeeps DEF Applying
  <1>3. CASE stage = "inserts"
    BY <1>1, <1>3, InsertingKeeps DEF Applying
  <1>4. CASE stage \notin {"deletes", "inserts"}
    <2> DEFINE t == Rebuilt(e)
               a == WithAttributes(t, d.attributes)
               v == WithValues(a, d.updates)
               r == WithName(v, e.top, d.renameRoot.to)
    <2>1. tree \in {t, a, v, r} /\ parked = {}
      BY <1>4 DEF Applying, Outcome, Apply!Stages
    <2>2. /\ DOMAIN t = DOMAIN e.new
          /\ \A x \in DOMAIN t : t[x] = Node(t[x], t[x].kids) /\ t[x].kids = e.new[x].kids
      BY RebuiltNodes
    <2> HIDE DEF t
    <2>3. /\ a = WithAttributes(t, d.attributes) /\ v = WithValues(a, d.updates)
          /\ r = WithName(v, e.top, d.renameRoot.to)
      OBVIOUS
    <2> HIDE DEF a, v, r
    <2>4. /\ DOMAIN a = DOMAIN t /\ DOMAIN v = DOMAIN t /\ DOMAIN r = DOMAIN t
          /\ \A x \in DOMAIN t : /\ a[x].kids = t[x].kids /\ v[x].kids = t[x].kids
                                 /\ r[x].kids = t[x].kids
      BY <2>2, <2>3, ValuesKeepShape
    <2>5. DOMAIN tree = DOMAIN e.new /\ \A x \in DOMAIN tree : tree[x].kids = e.new[x].kids
      BY <2>1, <2>2, <2>4
    <2>6. IsKept(e, tree, moveTree, {})
      BY <1>1, <2>5, NewShapeIsWhole
    <2> QED
      BY <2>1, <2>6
  <1> QED
    BY <1>2, <1>3, <1>4

(***************************************************************************)
(* The list in turn is the first, and its first operation's parent is      *)
(* there.                                                                  *)
(***************************************************************************)
LEMMA EngineIsReady ==
  ASSUME NEW CONSTANT e, NEW CONSTANT d, IsJob(e, d), Applying(e, d),
         stage = "inserts", insertLists # <<>>
  PROVE  Apply!Par(1) \in DOMAIN tree
PROOF
  <1>1. IsEdit(e) /\ Inserting(e, insertLists, tree, moveTree, parked)
    BY DEF IsJob, Applying
  <1>2. PICK op : op = insertLists[1][1]
    OBVIOUS
  <1>3. PICK joined : joined = Apply!Joined(tree, Incoming(op, moveTree))
    OBVIOUS
  <1>4. InsertGoesWell(e, insertLists, tree, moveTree, parked, op, joined)
    BY <1>1, <1>2, <1>3, InsertStep
  <1>5. Head(insertLists[1]) = op /\ op.par \in DOMAIN tree
    BY <1>4 DEF InsertGoesWell
  <1> QED
    BY <1>5 DEF Apply!Par

(***************************************************************************)
(* While xydelta works there is an edit from the first document to the     *)
(* second, and the delta leads over it.                                    *)
(***************************************************************************)
LEMMA ForthIsUnderWay ==
  ASSUME RoundTripInv, stage # "waiting", NEW CONSTANT e, e = ForthEdit,
         NEW CONSTANT d, d = delta
  PROVE  /\ DeltaIsWritten /\ IsJob(e, d) /\ IsNamedForth(e) /\ IsCutForth(e)
         /\ Applying(e, d)
PROOF
  <1>1. DeltaIsWritten /\ Applying(e, d)
    BY DEF RoundTripInv, DeltaIsWritten
  <1> QED
    BY <1>1, ForthIsJob

(* The tools' variables have their types. *)
LEMMA InvariantIsTyped ==
  ASSUME RoundTripInv
  PROVE  TypeOK
PROOF
  <1>1. ScriptInv /\ DeltaInv
    BY DEF RoundTripInv
  <1>2. pass \in Passes /\ v1xid \in [Nodes(v1) -> Nat]
    BY <1>1 DEF ScriptInv, DeltaInv
  <1>3. firstAvailable \in Nat
    <2>1. v0.n \in Nat /\ Cardinality(Inserted) \in Nat
      BY <1>1, FreshXidsGrow, DocumentFacts DEF ScriptInv, MatchedDocuments, GivenDocuments
    <2> QED
      BY <1>1, <2>1 DEF ScriptInv, XidsGiven
  <1>4. CASE stage = "waiting"
    <2>1. /\ tree = <<>> /\ firstFree = 0 /\ parked = {} /\ insertLists = <<>> /\ count = 1
          /\ stage = "waiting"
      BY <1>4 DEF RoundTripInv, ApplyInit
    <2>2. DOMAIN tree = {} /\ count \in 1 .. (Len(insertLists) + 1)
      BY <2>1
    <2> QED
      BY <1>2, <1>3, <2>1, <2>2 DEF TypeOK, Apply!Stages
  <1>5. CASE stage # "waiting"
    <2>1. PICK e : e = ForthEdit
      OBVIOUS
    <2>2. PICK d : d = delta
      OBVIOUS
    <2>3. IsJob(e, d) /\ Applying(e, d)
      BY <1>5, <2>1, <2>2, ForthIsUnderWay
    <2>4. IsKept(e, tree, moveTree, parked)
      BY <2>3, EngineKeeps
    <2>5. parked \subseteq DOMAIN moveTree /\ DOMAIN tree \subseteq Either(e)
      BY <2>4 DEF IsKept
    <2>6. Either(e) \subseteq Nat
      BY <2>3 DEF IsJob
    <2>7. \A x \in DOMAIN tree : Apply!Kids(tree, x) \subseteq DOMAIN tree
      BY <2>4 DEF IsKept, IsWhole, IsForest, Grows
    <2>8. stage \in Apply!Stages /\ count = 1 /\ firstFree \in Nat
      BY <2>3 DEF Applying
    <2>9. Len(insertLists) \in Nat
      <3>1. CASE stage = "inserts"
        <4>1. IsList(insertLists)
          BY <2>3, <3>1 DEF Applying, Inserting, ParentsFirst
        <4> QED
          BY <4>1, ListDomain
      <3>2. CASE stage # "inserts"
        <4>1. insertLists = <<>>
          BY <2>3, <3>2 DEF Applying
        <4> QED
          BY <4>1
      <3> QED
        BY <3>1, <3>2
    <2> QED
      BY <1>2, <1>3, <2>5, <2>6, <2>7, <2>8, <2>9 DEF TypeOK
  <1> QED
    BY <1>4, <1>5

(* No step throws or has no defined result. *)
LEMMA InvariantIsSafe ==
  ASSUME RoundTripInv
  PROVE  NoException /\ ParentsComeFirst
PROOF
  <1>1. pass \notin {"exception", "undefined"}
    BY DEF RoundTripInv, ScriptInv
  <1>2. CASE stage = "waiting"
    BY <1>1, <1>2 DEF NoException, Failed, ParentsComeFirst, NextParentIsThere
  <1>3. CASE stage # "waiting"
    <2>1. PICK e : e = ForthEdit
      OBVIOUS
    <2>2. PICK d : d = delta
      OBVIOUS
    <2>3. IsJob(e, d) /\ Applying(e, d)
      BY <1>3, <2>1, <2>2, ForthIsUnderWay
    <2>4. stage \notin {"exception", "undefined"} /\ count = 1
      BY <2>3 DEF Applying
    <2>5. ParentsComeFirst
      BY <2>3, <2>4, EngineIsReady DEF ParentsComeFirst, NextParentIsThere
    <2> QED
      BY <1>1, <2>4, <2>5 DEF NoException, Failed
  <1> QED
    BY <1>2, <1>3

(* The map is the document, and no node that has a match is missing. *)
LEMMA InvariantLosesNothing ==
  ASSUME RoundTripInv
  PROVE  MapIsTheDocument /\ MatchedNodeNeverLost
PROOF
  <1>1. CASE stage = "waiting"
    BY <1>1 DEF MapIsTheDocument, MatchedNodeNeverLost
  <1>2. CASE stage # "waiting"
    <2>1. PICK e : e = ForthEdit
      OBVIOUS
    <2>2. PICK d : d = delta
      OBVIOUS
    <2>3. /\ DeltaIsWritten /\ IsJob(e, d) /\ IsNamedForth(e) /\ IsCutForth(e)
          /\ Applying(e, d)
      BY <1>2, <2>1, <2>2, ForthIsUnderWay
    <2>4. IsKept(e, tree, moveTree, parked) /\ top = e.top
      BY <2>3, EngineKeeps DEF Applying
    <2>5. PICK num : IsWhole(tree, top, num, e.n)
      BY <2>4 DEF IsKept
    <2>6. /\ ToSet(Postfix(tree, top)) = DOMAIN tree
          /\ Len(Postfix(tree, top)) = Cardinality(DOMAIN tree)
      BY <2>5, WholeIsListed
    <2>7. ASSUME NEW i \in Nodes(v0), v0match[i] # 0
          PROVE  \/ v0xid[i] \in DOMAIN tree
                 \/ \E x \in parked : v0xid[i] \in Apply!Below(moveTree, x)
      <3>1. v0event[i] # "deleted" /\ v0xid[i] = i
        BY <2>3, <2>7, FinalMarks DEF v0Assigned
      <3>2. i \in DOMAIN e.old /\ i \in DOMAIN e.new
        BY <2>3, <3>1 DEF IsNamedForth
      <3>3. i \in Both(e)
        BY <3>2 DEF Both
      <3> QED
        BY <2>4, <3>1, <3>3 DEF IsKept
    <2> QED
      BY <2>6, <2>7 DEF MapIsTheDocument, MatchedNodeNeverLost
  <1> QED
    BY <1>1, <1>2

(***************************************************************************)
(* When the roots are matched with each other, the tools' variables have   *)
(* their types.                                                            *)
(***************************************************************************)
THEOREM RoundTripTypeOK == Spec => [](RootsMatch => TypeOK)
PROOF
  <1>1. (RootsMatch => RoundTripInv) => (RootsMatch => TypeOK)
    BY InvariantIsTyped
  <1> QED
    BY <1>1, RoundTripInvariance, PTL

(***************************************************************************)
(* When the roots are matched with each other, the delta can be            *)
(* constructed and applied, whatever else is matched: neither tool throws  *)
(* or goes where the code's behaviour is undefined.                        *)
(***************************************************************************)
THEOREM RoundTripIsSafe == Spec => []NoException
PROOF
  <1>1. (RootsMatch => RoundTripInv) => NoException
    BY InvariantIsSafe DEF NoException
  <1> QED
    BY <1>1, RoundTripInvariance, PTL

(***************************************************************************)
(* Then the parent of the next insert operation is always there.           *)
(***************************************************************************)
THEOREM ParentsAreThere == Spec => []ParentsComeFirst
PROOF
  <1>1. (RootsMatch => RoundTripInv) => ParentsComeFirst
    BY InvariantIsSafe DEF ParentsComeFirst
  <1> QED
    BY <1>1, RoundTripInvariance, PTL

(***************************************************************************)
(* Then the XID map always holds exactly the nodes of the document.        *)
(***************************************************************************)
THEOREM MapStaysTheDocument == Spec => [](RootsMatch => MapIsTheDocument)
PROOF
  <1>1. (RootsMatch => RoundTripInv) => (RootsMatch => MapIsTheDocument)
    BY InvariantLosesNothing
  <1> QED
    BY <1>1, RoundTripInvariance, PTL

(***************************************************************************)
(* Then no delete operation takes a node that has a match.                 *)
(***************************************************************************)
THEOREM NoMatchIsLost == Spec => [](RootsMatch => MatchedNodeNeverLost)
PROOF
  <1>1. (RootsMatch => RoundTripInv) => (RootsMatch => MatchedNodeNeverLost)
    BY InvariantLosesNothing
  <1> QED
    BY <1>1, RoundTripInvariance, PTL

-----------------------------------------------------------------------------
(* The node of the first document that is matched with the root of the second. *)
NewRoot == v1match[Root(v1)]

(* There is an operation on x, and x is moved by every one there is. *)
MovesOut(ops, x) ==
  /\ IsList(ops)
  /\ \E k \in DOMAIN ops : ops[k].xid = x
  /\ \A k \in DOMAIN ops : ops[k].xid = x => ops[k].move

(* No operation brings x. *)
BringsNot(ops, x) ==
  IsList(ops) /\ \A k \in DOMAIN ops : ops[k].xid # x /\ ops[k].pos \in Int

Given == {todo.inserts[k] : k \in DOMAIN todo.inserts}

(* x is taken out of the document and never comes back. *)
StaysOut(x) ==
  /\ stage # "done"
  /\ BringsNot(todo.inserts, x)
  /\ stage = "deletes" => count = 1 /\ (x \in parked \/ MovesOut(deleteList, x))
  /\ stage \notin {"deletes", "exception", "undefined"} => x \in parked
  /\ stage = "inserts" => count \in Nat \ {0} /\ insertLists \in Seq(Seq(Given) \ {<<>>})

(***************************************************************************)
(* What goes wrong when the roots are not matched with each other, alone:  *)
(* either two nodes claim the XID of the first document's root, and        *)
(* MarkNewTree throws; or the new root is a node that has to leave its     *)
(* place, and the delta has an operation that takes it out and none that   *)
(* brings it back.                                                         *)
(***************************************************************************)
WrongRootsInv ==
  /\ GivenDocuments /\ XidsGiven /\ DeltaParts
  /\ NewRoot = Root(v0) => stage = "waiting" /\ (NewMarked => pass = "exception")
  /\ NewRoot # Root(v0) =>
       /\ OldMarked => v0event[NewRoot] = "strongmove"
       /\ DeletesMade => MovesOut(delta.deletes, NewRoot)
       /\ InsertsMade => BringsNot(delta.inserts, NewRoot)
       /\ stage # "waiting" => StaysOut(NewRoot)

(* Two nodes claim the old root, or the new one had a parent it has lost. *)
LEMMA WrongRoots ==
  ASSUME GivenDocuments, ~RootsMatch, NEW x, x = NewRoot
  PROVE  /\ x \in Nodes(v0) /\ v1Assigned(Root(v1)) /\ Root(v1) \in Nodes(v1)
         /\ x = Root(v0) =>
              \E j \in Nodes(v1) : j # Root(v1) /\ v1Assigned(j) /\ v1match[j] = x
         /\ x # Root(v0) =>
              /\ v0Assigned(x) /\ v0StrongMove(x)
              /\ \A j \in Nodes(v1) : v1match[j] = x => j = Root(v1)
PROOF
  <1>1. /\ Nodes(v0) = 1 .. v0.n /\ v0.n \in Nat /\ Root(v1) \in Nodes(v1)
        /\ Nodes(v1) = 1 .. v1.n /\ v1.n \in Nat
    BY DocumentFacts DEF GivenDocuments
  <1>2. x # 0 /\ x \in Nodes(v0)
    BY <1>1 DEF NewRoot, GivenDocuments, IsMatching
  <1>3. CASE x = Root(v0)
    <2>1. PICK j \in Nodes(v1) : ~(v1match[j] = Root(v0) <=> j = Root(v1))
      BY DEF RootsMatch
    <2>2. v1match[j] = x /\ j # Root(v1)
      BY <1>3, <2>1 DEF NewRoot
    <2> QED
      BY <1>1, <1>2, <1>3, <2>2 DEF v1Assigned, NewRoot
  <1>4. CASE x # Root(v0)
    <2>1. \A j \in Nodes(v1) : v1match[j] = x => v0match[x] = j
      BY <1>2, <1>4 DEF GivenDocuments, IsMatching
    <2>2. v0match[x] = Root(v1) /\ Root(v1) # 0
      BY <1>1, <2>1 DEF NewRoot
    <2>3. v0.parent[x] \in Nodes(v0) /\ v0.parent[x] # 0
      <3>1. IsDocument(v0)
        BY DEF GivenDocuments
      <3>2. \A i \in Nodes(v0) \ {Root(v0)} : v0.parent[i] \in Nodes(v0)
        BY <3>1, DocumentFacts
      <3> QED
        BY <1>1, <1>2, <1>4, <3>2
    <2>4. v1.parent[Root(v1)] = 0
      BY DEF GivenDocuments, IsDocument, IsTree, Root
    <2> QED
      BY <1>1, <1>2, <1>4, <2>1, <2>2, <2>3, <2>4 DEF v0StrongMove, v0Assigned, v1Assigned, NewRoot
  <1> QED
    BY <1>3, <1>4

(* SortDeletes finds every operation on a node that is in the document. *)
LEMMA DeletesMet ==
  ASSUME NEW ops, IsList(ops), NEW t, NEW root, NEW A, Walked(Apply!Unroll(t, root), A, t),
         NEW x \in A, MovesOut(ops, x)
  PROVE  MovesOut(Apply!SortDeletes(ops, t, root), x)
PROOF
  <1> DEFINE walk == Apply!Unroll(t, root)
             About(y) == CHOOSE k \in DOMAIN ops : ops[k].xid = y
             met == {p \in DOMAIN walk : \E k \in DOMAIN ops : ops[k].xid = walk[p]}
             sorted == Apply!SortDeletes(ops, t, root)
  <1>1. sorted = [k \in 1 .. Apply!Cardinality(met) |-> ops[About(Apply!AtPlaces(walk, met)[k])]]
    BY DEF Apply!SortDeletes
  <1> HIDE DEF sorted
  <1>2. /\ DOMAIN walk = 1 .. Len(walk) /\ Len(walk) \in Nat
        /\ \E p \in 1 .. Len(walk) : walk[p] = x
    <2> HIDE DEF walk
    <2> QED
      BY DEF Walked, walk
  <1>3. \A p \in met : About(walk[p]) \in DOMAIN ops /\ ops[About(walk[p])].xid = walk[p]
    OBVIOUS
  <1>4. \E p \in met : walk[p] = x
    BY <1>2 DEF MovesOut
  <1>5. met \subseteq 1 .. Len(walk)
    BY <1>2
  <1> HIDE DEF walk, met, About
  <1>6. IsFiniteSet(met) /\ met \subseteq Int
    <2>1. IsFiniteSet(1 .. Len(walk)) /\ 1 .. Len(walk) \subseteq Int
      BY <1>2, FS_Interval
    <2>2. IsFiniteSet(met)
      BY <1>5, <2>1, FS_Subset
    <2> QED
      BY <1>5, <2>1, <2>2
  <1>7. PICK q : /\ Lists(q, met, [p \in met |-> p])
                 /\ Apply!AtPlaces(walk, met) = [k \in 1 .. Len(q) |-> walk[q[k]]]
    BY <1>6, PickedInOrder, SMTT(30)
  <1>8. /\ Len(q) \in Nat /\ Cardinality(met) = Len(q)
        /\ \A l \in 1 .. Len(q) : q[l] \in met
        /\ \A p \in met : \E l \in 1 .. Len(q) : q[l] = p
    BY <1>7, ListFacts, ListedPlaces
  <1>9. sorted = [k \in 1 .. Len(q) |-> ops[About(walk[q[k]])]]
    BY <1>1, <1>7, <1>8, OneCardinality
  <1>10. \A k \in 1 .. Len(q) : /\ About(walk[q[k]]) \in DOMAIN ops
                                /\ sorted[k] = ops[About(walk[q[k]])]
                                /\ sorted[k].xid = walk[q[k]]
    BY <1>3, <1>8, <1>9
  <1>11. DOMAIN sorted = 1 .. Len(q) /\ IsList(sorted)
    <2> DEFINE R == {sorted[k] : k \in DOMAIN sorted}
    <2>1. DOMAIN sorted = 1 .. Len(q)
      BY <1>9
    <2>2. sorted \in [1 .. Len(q) -> R]
      BY <1>9, <2>1
    <2> HIDE DEF R
    <2>3. sorted \in Seq(R)
      BY <1>8, <2>2
    <2> QED
      BY <2>1, <2>3 DEF IsList, R
  <1>12. \E k \in DOMAIN sorted : sorted[k].xid = x
    BY <1>4, <1>8, <1>10, <1>11
  <1>13. \A k \in DOMAIN sorted : sorted[k].xid = x => sorted[k].move
    BY <1>10, <1>11 DEF MovesOut
  <1>14. MovesOut(sorted, x)
    BY <1>11, <1>12, <1>13 DEF MovesOut
  <1> QED
    BY <1>14 DEF sorted

(* SortInserts makes lists of the operations it is given, none of them empty. *)
LEMMA InsertsGrouped ==
  ASSUME NEW ops, NEW x, BringsNot(ops, x), NEW R, R = {ops[k] : k \in DOMAIN ops}
  PROVE  Apply!SortInserts(ops) \in Seq(Seq(R) \ {<<>>})
PROOF
  <1> DEFINE first == FirstBelow(ops)
  <1>1. IsList(ops) /\ \A k \in DOMAIN ops : ops[k].pos \in Int
    BY DEF BringsNot
  <1>2. first \subseteq DOMAIN ops
    BY DEF FirstBelow
  <1>3. first = FirstBelow(ops)
    OBVIOUS
  <1> HIDE DEF first
  <1>4. PICK q : /\ Lists(q, first, [p \in first |-> p])
                 /\ Apply!SortInserts(ops)
                      = [l \in 1 .. Len(q) |-> ListBelow(ops, OpsBelow(ops, ops[q[l]].par))]
    BY <1>1, <1>3, ListsOfParents
  <1>5. Len(q) \in Nat /\ \A l \in 1 .. Len(q) : q[l] \in DOMAIN ops
    BY <1>2, <1>4, ListFacts
  <1>6. ASSUME NEW l \in 1 .. Len(q)
        PROVE  ListBelow(ops, OpsBelow(ops, ops[q[l]].par)) \in Seq(R) \ {<<>>}
    <2> DEFINE mine == OpsBelow(ops, ops[q[l]].par)
    <2>1. mine \subseteq DOMAIN ops /\ q[l] \in mine
      BY <1>5 DEF OpsBelow
    <2> HIDE DEF mine
    <2>2. \A k \in mine : ops[k].pos \in Int
      BY <1>1, <2>1
    <2>3. PICK w, r : OrderedBy(w, r, ListBelow(ops, mine), ops, mine)
      BY <1>1, <2>1, <2>2, ListedBelow
    <2>4. Lists(w, mine, r) /\ ListBelow(ops, mine) = [p \in 1 .. Len(w) |-> ops[w[p]]]
      BY <2>3 DEF OrderedBy
    <2>5. /\ Len(w) \in Nat /\ \A p \in 1 .. Len(w) : w[p] \in mine
          /\ \A a \in mine : \E p \in 1 .. Len(w) : w[p] = a
      BY <2>4, ListFacts
    <2>6. \A p \in 1 .. Len(w) : ops[w[p]] \in R
      BY <2>1, <2>5
    <2>7. ListBelow(ops, mine) \in Seq(R) /\ Len(ListBelow(ops, mine)) = Len(w)
      BY <2>4, <2>5, <2>6
    <2>8. Len(w) # 0
      BY <2>1, <2>5
    <2>9. ListBelow(ops, mine) # <<>>
      BY <2>7, <2>8
    <2> QED
      BY <2>7, <2>9 DEF mine
  <1> DEFINE Q == Seq(R) \ {<<>>}
  <1>7. \A l \in 1 .. Len(q) : ListBelow(ops, OpsBelow(ops, ops[q[l]].par)) \in Q
    BY <1>6
  <1> HIDE DEF Q
  <1>8. Apply!SortInserts(ops) \in Seq(Q)
    BY <1>4, <1>5, <1>7
  <1> QED
    BY <1>8 DEF Q

(* The mark of a node that has left its parent stays. *)
LEMMA StrongMoveStays ==
  ASSUME NEW x \in Nodes(v0), v0Assigned(x), v0StrongMove(x),
         OldMarked => v0event[x] = "strongmove", ScriptNext
  PROVE  v0event'[x] = "strongmove"
PROOF
  <1>1. CASE MarkOldTree
    BY <1>1 DEF MarkOldTree
  <1>2. CASE ~MarkOldTree
    <2>1. v0event[x] = "strongmove"
      BY <1>2 DEF OldMarked, ScriptNext, MarkNewTree, ComputeWeakMove, DetectUpdate,
                  AddAttributeOperations, ConstructDeleteScript, ConstructInsertScript,
                  AddRenameRoot
    <2>2. x \notin WeakMoves
      BY <2>1 DEF WeakMoves
    <2>3. \A u \in Updates : u[1] # x
      BY DEF Updates, LoneText
    <2>4. CASE ComputeWeakMove
      BY <2>1, <2>2, <2>4 DEF ComputeWeakMove
    <2>5. CASE DetectUpdate
      BY <2>1, <2>3, <2>5 DEF DetectUpdate
    <2> QED
      BY <1>2, <2>1, <2>4, <2>5 DEF ScriptNext, MarkNewTree, AddAttributeOperations,
                  ConstructDeleteScript, ConstructInsertScript, AddRenameRoot
  <1> QED
    BY <1>1, <1>2

(* Such a node is taken out by the delta, for a move. *)
LEMMA TakenOutByDelta ==
  ASSUME GivenDocuments, XidsGiven, DeltaParts, NEW x \in Nodes(v0), v0event[x] = "strongmove",
         ConstructDeleteScript, pass' # "exception"
  PROVE  MovesOut(delta'.deletes, x)
PROOF
  <1> DEFINE order == Ranked(OldScripted, DeleteRank)
             written == [k \in DOMAIN order |-> DeleteOperation(order[k])]
  <1>1. \E u : delta' = [delta EXCEPT !.deletes = written, !.updates = u]
    BY DEF ConstructDeleteScript, OldScripted
  <1>2. {"deletes", "updates"} \subseteq DOMAIN delta
    BY DEF DeltaParts, NoDelta
  <1>3. delta'.deletes = written
    <2> HIDE DEF written
    <2> QED
      BY <1>1, <1>2
  <1>4. Lists(order, OldScripted, LastToFirst(v0))
    BY ScriptOrders
  <1> HIDE DEF order
  <1>5. /\ DOMAIN order = 1 .. Len(order) /\ Len(order) \in Nat
        /\ \A k \in DOMAIN order : order[k] \in OldScripted
        /\ \A i \in OldScripted : \E k \in DOMAIN order : order[k] = i
    BY <1>4, ListFacts
  <1>6. \A i \in Nodes(v0) :
          DeleteOperation(i).xid = i /\ DeleteOperation(i).move = (v0event[i] \in Moves)
    BY DEF DeleteOperation, XidsGiven, DefaultXids
  <1>7. x \in OldScripted /\ OldScripted \subseteq Nodes(v0)
    BY DEF OldScripted, v0Scripted, Moves
  <1>8. \A k \in DOMAIN order : written[k].xid = order[k]
                                /\ (order[k] = x => written[k].move)
    BY <1>5, <1>6, <1>7 DEF Moves
  <1>9. DOMAIN written = DOMAIN order
    OBVIOUS
  <1>10. IsList(written)
    <2> DEFINE R == {written[k] : k \in DOMAIN written}
    <2>1. written \in [1 .. Len(order) -> R]
      BY <1>5
    <2> HIDE DEF R
    <2>2. written \in Seq(R)
      BY <1>5, <2>1
    <2> QED
      BY <2>2 DEF IsList, R
  <1> HIDE DEF written
  <1>11. MovesOut(written, x)
    BY <1>5, <1>7, <1>8, <1>9, <1>10 DEF MovesOut
  <1> QED
    BY <1>3, <1>11

(* No other node has the XID of the new root, and no operation is on a root. *)
LEMMA NotBroughtByDelta ==
  ASSUME GivenDocuments, XidsGiven, DeltaParts, NEW x \in Nodes(v0),
         \A j \in Nodes(v1) : v1match[j] = x => j = Root(v1),
         ConstructInsertScript, pass' \notin {"exception", "undefined"}
  PROVE  BringsNot(delta'.inserts, x) /\ delta'.deletes = delta.deletes
PROOF
  <1> DEFINE order == Ranked(NewScripted, InsertRank)
             written == [k \in DOMAIN order |-> InsertOperation(order[k])]
  <1>1. ~v1Scripted(Root(v1)) /\ \E u : delta' = [delta EXCEPT !.inserts = written, !.updates = u]
    BY DEF ConstructInsertScript, NewScripted
  <1>2. {"deletes", "inserts", "updates"} \subseteq DOMAIN delta
    BY DEF DeltaParts, NoDelta
  <1>3. delta'.inserts = written /\ delta'.deletes = delta.deletes
    <2> HIDE DEF written
    <2> QED
      BY <1>1, <1>2
  <1>4. Lists(order, NewScripted, FirstToLast(v1))
    BY ScriptOrders
  <1> HIDE DEF order
  <1>5. /\ DOMAIN order = 1 .. Len(order) /\ Len(order) \in Nat
        /\ \A k \in DOMAIN order : order[k] \in NewScripted
    BY <1>4, ListFacts
  <1>6. ASSUME NEW j \in NewScripted
        PROVE  InsertOperation(j).xid # x /\ InsertOperation(j).pos \in Int
    <2>1. j \in Nodes(v1) /\ j # Root(v1)
      BY <1>1 DEF NewScripted
    <2>2. v1xid[j] = IF v1Assigned(j) THEN v1match[j] ELSE FreshXid(j)
      <3>1. NewMarked
        BY DEF ConstructInsertScript, NewMarked
      <3> QED
        BY <2>1, <3>1 DEF XidsGiven
    <2>3. v1xid[j] # x
      <3>1. CASE v1Assigned(j)
        BY <2>1, <2>2, <3>1
      <3>2. CASE ~v1Assigned(j)
        <4>1. FreshXid(j) \in Nat /\ v0.n < FreshXid(j)
          BY <2>1, <3>2, GivenXidsGrow DEF Inserted
        <4>2. x <= v0.n /\ x \in Nat /\ v0.n \in Nat
          BY DocumentFacts DEF GivenDocuments
        <4> QED
          BY <2>2, <3>2, <4>1, <4>2
      <3> QED
        BY <3>1, <3>2
    <2>4. Position(v1, j) \in Nat
      <3>1. IsDocument(v1)
        BY DEF GivenDocuments
      <3>2. v1.parent[j] \in Nodes(v1)
        BY <2>1, <3>1, DocumentFacts
      <3>3. IsFiniteSet(Nodes(v1)) /\ Children(v1, v1.parent[j]) \subseteq Nodes(v1)
        BY <3>1, <3>2, DocumentFacts
      <3>4. IsFiniteSet({b \in Children(v1, v1.parent[j]) : b <= j})
        BY <3>3, FS_Subset
      <3> QED
        BY <3>4, FS_CardinalityType DEF Position
    <2> QED
      BY <2>3, <2>4 DEF InsertOperation
  <1>7. DOMAIN written = DOMAIN order
        /\ \A k \in DOMAIN order : written[k].xid # x /\ written[k].pos \in Int
    BY <1>5, <1>6
  <1>8. IsList(written)
    <2> DEFINE R == {written[k] : k \in DOMAIN written}
    <2>1. written \in [1 .. Len(order) -> R]
      BY <1>5
    <2> HIDE DEF R
    <2>2. written \in Seq(R)
      BY <1>5, <2>1
    <2> QED
      BY <2>2 DEF IsList, R
  <1> HIDE DEF written
  <1>9. BringsNot(written, x)
    BY <1>7, <1>8 DEF BringsNot
  <1> QED
    BY <1>3, <1>9

(* Constructing the delta keeps the invariant. *)
LEMMA WrongRootsScripted ==
  ASSUME WrongRootsInv, ~RootsMatch, ScriptNext, UNCHANGED applyVars
  PROVE  WrongRootsInv'
PROOF
  <1>1. UNCHANGED matched /\ GivenDocuments' /\ XidsGiven'
    BY NothingMatches, XidsStayGiven DEF WrongRootsInv, Next
  <1>2. NewRoot' = NewRoot /\ v0' = v0 /\ v1' = v1
    BY <1>1 DEF matched, NewRoot
  <1>3. PICK x : x = NewRoot
    OBVIOUS
  <1>4. /\ x \in Nodes(v0) /\ v1Assigned(Root(v1)) /\ Root(v1) \in Nodes(v1)
        /\ x = Root(v0) => \E j \in Nodes(v1) : j # Root(v1) /\ v1Assigned(j) /\ v1match[j] = x
        /\ x # Root(v0) => /\ v0Assigned(x) /\ v0StrongMove(x)
                           /\ \A j \in Nodes(v1) : v1match[j] = x => j = Root(v1)
    BY <1>3, WrongRoots DEF WrongRootsInv
  <1>5. stage' = stage /\ (StaysOut(x) => StaysOut(x)')
    BY DEF applyVars, StaysOut, Given
  <1>6. GivenDocuments /\ XidsGiven /\ DeltaParts
    BY DEF WrongRootsInv
  <1>7. DeltaParts'
    <2>1. CASE UNCHANGED delta
      BY <1>6, <2>1 DEF DeltaParts
    <2>2. CASE AddAttributeOperations
      <3>1. \E a : delta' = [delta EXCEPT !.attributes = a]
        BY <2>2 DEF AddAttributeOperations
      <3> QED
        BY <1>6, <3>1 DEF DeltaParts
    <2>3. CASE ConstructDeleteScript /\ delta' # delta
      <3>1. \E a, b : delta' = [delta EXCEPT !.deletes = a, !.updates = b]
        BY <2>3 DEF ConstructDeleteScript
      <3> QED
        BY <1>6, <3>1 DEF DeltaParts
    <2>4. CASE ConstructInsertScript /\ delta' # delta
      <3>1. \E a, b : delta' = [delta EXCEPT !.inserts = a, !.updates = b]
        BY <2>4 DEF ConstructInsertScript
      <3> QED
        BY <1>6, <3>1 DEF DeltaParts
    <2>5. CASE AddRenameRoot /\ delta' # delta
      <3>1. \E a : delta' = [delta EXCEPT !.renameRoot = a]
        BY <2>5 DEF AddRenameRoot
      <3> QED
        BY <1>6, <3>1 DEF DeltaParts
    <2> QED
      BY <2>1, <2>2, <2>3, <2>4, <2>5 DEF ScriptNext, MarkOldTree, MarkNewTree, ComputeWeakMove,
                                          DetectUpdate
  <1>8. CASE x = Root(v0)
    <2>1. NewMarked => pass = "exception"
      BY <1>3, <1>8 DEF WrongRootsInv
    <2>2. CASE MarkOldTree
      BY <1>1, <1>2, <1>3, <1>5, <1>7, <1>8, <2>2 DEF WrongRootsInv, MarkOldTree, NewMarked
    <2>3. CASE MarkNewTree
      <3>1. PICK j \in Nodes(v1) : j # Root(v1) /\ v1Assigned(j) /\ v1match[j] = x
        BY <1>4, <1>8
      <3>2. v1xid'[j] = v0xid[x] /\ v1xid'[Root(v1)] = v0xid[x]
        BY <1>3, <1>4, <2>3, <3>1 DEF MarkNewTree, NewRoot
      <3>3. pass' = "exception"
        BY <1>4, <2>3, <3>1, <3>2 DEF MarkNewTree
      <3> QED
        BY <1>1, <1>2, <1>3, <1>5, <1>7, <1>8, <3>3 DEF WrongRootsInv
    <2> QED
      BY <2>1, <2>2, <2>3 DEF ScriptNext, ComputeWeakMove, DetectUpdate, AddAttributeOperations,
                              ConstructDeleteScript, ConstructInsertScript, AddRenameRoot, NewMarked
  <1>9. CASE x # Root(v0)
    <2>1. /\ OldMarked => v0event[x] = "strongmove"
          /\ DeletesMade => MovesOut(delta.deletes, x)
          /\ InsertsMade => BringsNot(delta.inserts, x)
          /\ stage # "waiting" => StaysOut(x)
      BY <1>3, <1>9 DEF WrongRootsInv
    <2>2. v0event'[x] = "strongmove"
      BY <1>4, <1>9, <2>1, StrongMoveStays
    <2>3. ASSUME DeletesMade'
          PROVE  MovesOut(delta'.deletes, x)
      <3>1. CASE ConstructDeleteScript
        <4>1. pass' # "exception" /\ v0event[x] = "strongmove"
          BY <2>1, <2>3, <3>1 DEF DeletesMade, ConstructDeleteScript, OldMarked
        <4> QED
          BY <1>4, <1>6, <3>1, <4>1, TakenOutByDelta
      <3>2. CASE ConstructInsertScript
        <4>1. DeletesMade /\ pass' \notin {"exception", "undefined"}
          BY <2>3, <3>2 DEF DeletesMade, ConstructInsertScript
        <4> QED
          BY <1>4, <1>6, <1>9, <2>1, <3>2, <4>1, NotBroughtByDelta
      <3>3. CASE AddRenameRoot
        <4>1. DeletesMade /\ (delta' = delta \/ \E a : delta' = [delta EXCEPT !.renameRoot = a])
          BY <3>3 DEF DeletesMade, AddRenameRoot
        <4>2. delta'.deletes = delta.deletes
          BY <1>6, <4>1 DEF DeltaParts, NoDelta
        <4> QED
          BY <2>1, <4>1, <4>2
      <3> QED
        BY <2>3, <3>1, <3>2, <3>3 DEF ScriptNext, MarkOldTree, MarkNewTree, ComputeWeakMove,
                                     DetectUpdate, AddAttributeOperations, DeletesMade
    <2>4. ASSUME InsertsMade'
          PROVE  BringsNot(delta'.inserts, x)
      <3>1. CASE ConstructInsertScript
        <4>1. pass' \notin {"exception", "undefined"}
          BY <2>4 DEF InsertsMade
        <4> QED
          BY <1>4, <1>6, <1>9, <3>1, <4>1, NotBroughtByDelta
      <3>2. CASE AddRenameRoot
        <4>1. InsertsMade /\ (delta' = delta \/ \E a : delta' = [delta EXCEPT !.renameRoot = a])
          BY <3>2 DEF InsertsMade, AddRenameRoot
        <4>2. delta'.inserts = delta.inserts
          BY <1>6, <4>1 DEF DeltaParts, NoDelta
        <4> QED
          BY <2>1, <4>1, <4>2
      <3> QED
        BY <2>4, <3>1, <3>2 DEF ScriptNext, MarkOldTree, MarkNewTree, ComputeWeakMove, DetectUpdate,
                                AddAttributeOperations, ConstructDeleteScript, InsertsMade
    <2> QED
      BY <1>1, <1>2, <1>3, <1>5, <1>7, <1>9, <2>1, <2>2, <2>3, <2>4 DEF WrongRootsInv
  <1> QED
    BY <1>8, <1>9

(* When the delta is read, the node is in the document, and its operation is found. *)
LEMMA WrongRootsRead ==
  ASSUME WrongRootsInv, ~RootsMatch, ReadDelta
  PROVE  WrongRootsInv'
PROOF
  <1>1. /\ pass = "written" /\ UNCHANGED scriptVars
        /\ Apply!Begin(TreeOf(v0, v0xid), v0xid[Root(v0)], v0.n + 1, delta)
    BY DEF ReadDelta
  <1>2. UNCHANGED matched /\ GivenDocuments' /\ XidsGiven'
    BY NothingMatches, XidsStayGiven DEF WrongRootsInv, Next
  <1>3. PICK x : x = NewRoot
    OBVIOUS
  <1>4. x # Root(v0)
    BY <1>1, <1>3 DEF WrongRootsInv, NewMarked
  <1>5. /\ x \in Nodes(v0) /\ v0event[x] = "strongmove"
        /\ MovesOut(delta.deletes, x) /\ BringsNot(delta.inserts, x)
    BY <1>1, <1>3, <1>4, WrongRoots DEF WrongRootsInv, OldMarked, DeletesMade, InsertsMade
  <1>6. Walked(Apply!Unroll(TreeOf(v0, v0xid), v0xid[Root(v0)]), Nodes(v0), TreeOf(v0, v0xid))
    <2> DEFINE id == DefaultXids(v0)
               t == TreeOf(v0, id)
    <2>1. IsDocument(v0) /\ v0xid = id
      BY DEF WrongRootsInv, GivenDocuments, XidsGiven
    <2>2. \A i \in Nodes(v0) : id[i] = i
      BY DEF DefaultXids
    <2>3. IsNumbering(v0, id, id)
      BY <2>2 DEF IsNumbering
    <2>4. v0.n \in Nat /\ Root(v0) \in Nodes(v0) /\ \A i \in Nodes(v0) : i \in Subtree(v0, Root(v0))
      BY <2>1, DocumentFacts, SubtreeFacts
    <2>5. t = TreeOf(v0, id)
      OBVIOUS
    <2> HIDE DEF id, t
    <2>6. IsForest(t, id, v0.n) /\ Apply!Below(t, id[Root(v0)]) = Named(id, Subtree(v0, Root(v0)))
      BY <2>1, <2>3, <2>4, <2>5, TreeIsForest
    <2>7. Subtree(v0, Root(v0)) = Nodes(v0)
      BY <2>1, <2>4, SubtreeFacts
    <2>8. Named(id, Nodes(v0)) = Nodes(v0)
      BY <2>2 DEF Named
    <2>9. id[Root(v0)] \in DOMAIN t
      <3>1. DOMAIN t = Named(id, Nodes(v0))
        BY <2>1, <2>3, <2>5, TreeOfNodes
      <3> QED
        BY <2>2, <2>4, <2>8, <3>1
    <2>10. Walked(Apply!Unroll(t, id[Root(v0)]), Nodes(v0), t)
      BY <2>6, <2>7, <2>8, <2>9, UnrollWalks
    <2> QED
      BY <2>1, <2>5, <2>10
  <1>7. MovesOut(deleteList', x)
    <2>1. deleteList' = Apply!SortDeletes(delta.deletes, TreeOf(v0, v0xid), v0xid[Root(v0)])
      BY <1>1 DEF Apply!Begin
    <2>2. IsList(delta.deletes)
      BY <1>5 DEF MovesOut
    <2> QED
      BY <1>5, <1>6, <2>1, <2>2, DeletesMet
  <1>8. StaysOut(x)'
    BY <1>1, <1>5, <1>7 DEF Apply!Begin, StaysOut
  <1>9. /\ NewRoot' = x /\ v0' = v0 /\ v0event' = v0event /\ delta' = delta /\ DeltaParts'
    BY <1>1, <1>3 DEF scriptVars, NewRoot, WrongRootsInv, DeltaParts
  <1> QED
    BY <1>2, <1>4, <1>5, <1>8, <1>9 DEF WrongRootsInv

(* An operation that is done leaves the node out. *)
LEMMA DeletingStaysOut ==
  ASSUME NEW x, StaysOut(x), Apply!ApplyDelete
  PROVE  StaysOut(x)'
PROOF
  <1> DEFINE op == Head(deleteList)
  <1>1. /\ stage = "deletes" /\ deleteList # <<>>
        /\ IF op.move THEN Apply!MoveFrom(op.xid) ELSE Apply!Delete({n.xid : n \in op.content})
    BY DEF Apply!ApplyDelete
  <1>2. BringsNot(todo.inserts, x) /\ count = 1 /\ (x \in parked \/ MovesOut(deleteList, x))
    BY <1>1 DEF StaysOut
  <1>3. UNCHANGED <<todo, count>>
    BY <1>1 DEF Apply!MoveFrom, Apply!Delete, Apply!Throw
  <1>4. CASE stage' = "exception"
    BY <1>2, <1>3, <1>4 DEF StaysOut
  <1>5. CASE stage' # "exception"
    <2>1. /\ stage' = "deletes" /\ deleteList' = Tail(deleteList)
          /\ parked' = IF op.move THEN parked \cup {op.xid} ELSE parked
      BY <1>1, <1>5 DEF Apply!MoveFrom, Apply!Delete, Apply!Throw
    <2>2. CASE x \in parked
      BY <1>2, <1>3, <2>1, <2>2 DEF StaysOut
    <2>3. CASE MovesOut(deleteList, x)
      <3>1. /\ IsList(deleteList) /\ \A k \in DOMAIN deleteList :
                                       deleteList[k].xid = x => deleteList[k].move
        BY <2>3 DEF MovesOut
      <3>2. PICK h \in DOMAIN deleteList : deleteList[h].xid = x
        BY <2>3 DEF MovesOut
      <3>3. /\ DOMAIN deleteList = 1 .. Len(deleteList) /\ Len(deleteList) \in Nat
            /\ Len(deleteList) # 0 /\ 1 \in DOMAIN deleteList /\ op = deleteList[1]
        BY <1>1, <3>1, ListDomain
      <3>4. CASE h = 1
        BY <1>2, <1>3, <2>1, <3>1, <3>2, <3>3, <3>4 DEF StaysOut
      <3>5. CASE h # 1
        <4> DEFINE R == {deleteList[k] : k \in DOMAIN deleteList}
                   rest == Tail(deleteList)
        <4>1. deleteList \in Seq(R)
          BY <3>1 DEF IsList
        <4> HIDE DEF R
        <4>2. /\ rest \in Seq(R) /\ DOMAIN rest = 1 .. (Len(deleteList) - 1)
              /\ \A k \in 1 .. (Len(deleteList) - 1) : rest[k] = deleteList[k + 1]
          BY <1>1, <3>3, <4>1
        <4> HIDE DEF rest
        <4>3. IsList(rest)
          BY <4>2, OwnList
        <4>4. h - 1 \in DOMAIN rest /\ rest[h - 1].xid = x
          BY <3>2, <3>3, <3>5, <4>2
        <4>5. \A k \in DOMAIN rest : rest[k].xid = x => rest[k].move
          BY <3>1, <3>3, <4>2
        <4>6. MovesOut(rest, x)
          BY <4>3, <4>4, <4>5 DEF MovesOut
        <4> QED
          BY <1>2, <1>3, <2>1, <4>6 DEF StaysOut, rest
      <3> QED
        BY <3>4, <3>5
    <2> QED
      BY <1>2, <2>2, <2>3
  <1> QED
    BY <1>4, <1>5

(* The list of lists without one operation, or without the list it empties. *)
LEMMA PoppedLists ==
  ASSUME NEW R, insertLists \in Seq(Seq(R) \ {<<>>}), NEW l \in 1 .. Len(insertLists)
  PROVE  Apply!Pop(l) \in Seq(Seq(R) \ {<<>>})
PROOF
  <1> DEFINE Q == Seq(R) \ {<<>>}
  <1>1. /\ insertLists \in Seq(Q) /\ l \in 1 .. Len(insertLists) /\ Len(insertLists) \in Nat
        /\ insertLists[l] \in Q
    OBVIOUS
  <1>2. CASE Len(insertLists[l]) = 1
    <2> HIDE DEF Q
    <2>1. SubSeq(insertLists, 1, l - 1) \in Seq(Q)
          /\ SubSeq(insertLists, l + 1, Len(insertLists)) \in Seq(Q)
      BY <1>1
    <2>2. SubSeq(insertLists, 1, l - 1) \o SubSeq(insertLists, l + 1, Len(insertLists)) \in Seq(Q)
      BY <2>1
    <2> QED
      BY <1>2, <2>2 DEF Apply!Pop, Apply!RemoveAt, Q
  <1>3. CASE Len(insertLists[l]) # 1
    <2>1. ASSUME NEW u \in Seq(R), u # <<>>, Len(u) # 1
          PROVE  Tail(u) \in Seq(R) /\ Tail(u) # <<>>
      <3>1. Len(u) \in Nat /\ Len(u) # 0
        BY <2>1
      <3>2. Tail(u) \in Seq(R) /\ Len(Tail(u)) = Len(u) - 1
        BY <2>1
      <3>3. Len(Tail(u)) # 0
        BY <2>1, <3>1, <3>2
      <3>4. Len(<<>>) = 0
        OBVIOUS
      <3>5. Tail(u) # <<>>
        BY <3>3, <3>4
      <3> QED
        BY <3>2, <3>5
    <2>4. Tail(insertLists[l]) \in Q
      BY <1>1, <1>3, <2>1
    <2> HIDE DEF Q
    <2>5. [insertLists EXCEPT ![l] = Tail(insertLists[l])] \in Seq(Q)
      BY <1>1, <2>4
    <2> QED
      BY <1>3, <2>5 DEF Apply!Pop, Q
  <1> QED
    BY <1>2, <1>3

(* An insert operation brings some other node. *)
LEMMA InsertingStaysOut ==
  ASSUME NEW x, StaysOut(x), Apply!ApplyInsert
  PROVE  StaysOut(x)'
PROOF
  <1>1. /\ stage = "inserts" /\ insertLists # <<>>
        /\ BringsNot(todo.inserts, x) /\ x \in parked /\ count \in Nat \ {0}
        /\ insertLists \in Seq(Seq(Given) \ {<<>>})
    BY DEF StaysOut, Apply!ApplyInsert
  <1>2. todo' = todo /\ Given' = Given
    BY DEF Apply!ApplyInsert, Apply!Insert, Apply!SkipMove, Apply!Throw, Apply!Undefined, Given
  <1>3. CASE stage' \in {"exception", "undefined"}
    BY <1>1, <1>2, <1>3 DEF StaysOut
  <1>4. CASE stage' \notin {"exception", "undefined"}
    <2>1. PICK l, op : /\ l \in 1 .. Len(insertLists) /\ op = Head(insertLists[l])
                       /\ \/ Apply!SkipMove(l)
                          \/ \E nodes : Apply!Insert(op, nodes, l)
      <3>1. \E k \in Apply!Ready :
              LET l  == Apply!InTurn(k)
                  op == Head(insertLists[l])
              IN \/ Apply!SkipMove(l)
                 \/ \E nodes : Apply!Insert(op, nodes, l)
        BY <1>4 DEF Apply!ApplyInsert, Apply!Throw, Apply!Undefined
      <3>2. PICK k \in Apply!Ready : LET l  == Apply!InTurn(k)
                                         op == Head(insertLists[l])
                                     IN \/ Apply!SkipMove(l)
                                        \/ \E nodes : Apply!Insert(op, nodes, l)
        BY <3>1
      <3>3. Len(insertLists) \in Nat /\ Len(insertLists) # 0 /\ k \in Int
        BY <1>1 DEF Apply!Ready
      <3>4. (count - 1 + k) % Len(insertLists) \in 0 .. (Len(insertLists) - 1)
        BY <1>1, <3>3
      <3>5. Apply!InTurn(k) \in 1 .. Len(insertLists)
        BY <3>3, <3>4 DEF Apply!InTurn
      <3> QED
        BY <3>2, <3>5
    <2>2. op \in Given
      BY <1>1, <2>1
    <2>3. op.xid # x
      BY <1>1, <2>2 DEF Given, BringsNot
    <2>4. /\ stage' = "inserts" /\ insertLists' = Apply!Pop(l) /\ count' = l
          /\ parked' \in {parked, parked \ {op.xid}}
      BY <1>1, <1>4, <2>1 DEF Apply!SkipMove, Apply!Insert, Apply!Throw
    <2>5. insertLists' \in Seq(Seq(Given) \ {<<>>})
      BY <1>1, <2>1, <2>4, PoppedLists
    <2>6. x \in parked' /\ count' \in Nat \ {0}
      BY <1>1, <2>1, <2>3, <2>4
    <2> QED
      BY <1>1, <1>2, <2>4, <2>5, <2>6 DEF StaysOut
  <1> QED
    BY <1>3, <1>4

(* No step of the engine brings the node back, and the check finds it. *)
LEMMA ApplyingStaysOut ==
  ASSUME NEW x, StaysOut(x), Apply!ApplyNext
  PROVE  StaysOut(x)'
PROOF
  <1>1. CASE Apply!StartInserts
    <2>1. /\ stage = "deletes" /\ deleteList = <<>> /\ stage' = "inserts"
          /\ insertLists' = Apply!SortInserts(todo.inserts)
          /\ UNCHANGED <<todo, parked, count>>
      BY <1>1 DEF Apply!StartInserts
    <2>2. ~MovesOut(deleteList, x)
      BY <2>1 DEF MovesOut
    <2>3. BringsNot(todo.inserts, x) /\ x \in parked /\ count = 1
      BY <2>1, <2>2 DEF StaysOut
    <2>4. insertLists' \in Seq(Seq(Given) \ {<<>>})
      BY <2>1, <2>3, InsertsGrouped DEF Given
    <2>5. Given' = Given
      BY <2>1 DEF Given
    <2> QED
      BY <2>1, <2>3, <2>4, <2>5 DEF StaysOut
  <1>2. CASE \/ Apply!StartOthers \/ Apply!ApplyAttributes \/ Apply!ApplyUpdates
             \/ Apply!ApplyRenameRoot
    <2>1. /\ BringsNot(todo.inserts, x) /\ x \in parked
          /\ stage' \in {"exception", "attributes", "updates", "renameRoot", "check"}
          /\ UNCHANGED <<todo, parked>>
      BY <1>2 DEF StaysOut, Apply!StartOthers, Apply!ApplyAttributes, Apply!ApplyUpdates,
                  Apply!ApplyRenameRoot, Apply!Throw
    <2> QED
      BY <2>1 DEF StaysOut
  <1>3. CASE Apply!CheckMoveDocument
    <2>1. BringsNot(todo.inserts, x) /\ x \in parked /\ stage' = "exception" /\ todo' = todo
      BY <1>3 DEF StaysOut, Apply!CheckMoveDocument
    <2> QED
      BY <2>1 DEF StaysOut
  <1> QED
    BY <1>1, <1>2, <1>3, DeletingStaysOut, InsertingStaysOut DEF Apply!ApplyNext

(* A step of either tool keeps the invariant. *)
LEMMA WrongRootsStep ==
  ASSUME WrongRootsInv, ~RootsMatch, [Next]_vars
  PROVE  WrongRootsInv'
PROOF
  <1>1. ASSUME UNCHANGED scriptVars
        PROVE  /\ GivenDocuments' /\ XidsGiven' /\ DeltaParts'
               /\ NewRoot' = NewRoot /\ v0' = v0 /\ pass' = pass /\ v0event' = v0event
               /\ delta' = delta
    <2>1. GivenDocuments' /\ XidsGiven'
      BY XidsStayGiven DEF WrongRootsInv
    <2> QED
      BY <1>1, <2>1 DEF scriptVars, NewRoot, WrongRootsInv, DeltaParts
  <1>2. CASE UNCHANGED scriptVars /\ Apply!ApplyNext
    <2>1. stage \notin {"waiting"}
      BY <1>2 DEF Apply!ApplyNext, Apply!ApplyDelete, Apply!StartInserts, Apply!ApplyInsert,
                  Apply!StartOthers, Apply!ApplyAttributes, Apply!ApplyUpdates,
                  Apply!ApplyRenameRoot, Apply!CheckMoveDocument
    <2>2. PICK x : x = NewRoot
      OBVIOUS
    <2>3. x # Root(v0) /\ StaysOut(x)
      BY <2>1, <2>2 DEF WrongRootsInv
    <2>4. StaysOut(x)'
      BY <1>2, <2>3, ApplyingStaysOut
    <2> QED
      BY <1>1, <1>2, <2>2, <2>3, <2>4 DEF WrongRootsInv, OldMarked, DeletesMade, InsertsMade
  <1>3. CASE UNCHANGED vars
    <2>1. UNCHANGED scriptVars /\ stage' = stage
      BY <1>3 DEF vars, applyVars
    <2>2. PICK x : x = NewRoot
      OBVIOUS
    <2>3. StaysOut(x) => StaysOut(x)'
      BY <1>3 DEF vars, applyVars, StaysOut, Given
    <2> QED
      BY <1>1, <2>1, <2>2, <2>3 DEF WrongRootsInv, OldMarked, NewMarked, DeletesMade, InsertsMade
  <1> QED
    BY <1>2, <1>3, WrongRootsScripted, WrongRootsRead DEF Next

(* When the roots are not matched with each other, this goes wrong from the start. *)
LEMMA WrongRootsBegin ==
  ASSUME Init
  PROVE  WrongRootsInv
PROOF
  <1>1. /\ pass = "markOldTree" /\ stage = "waiting" /\ delta = NoDelta
        /\ v0xid = DefaultXids(v0) /\ firstAvailable = v0.n + 1
    BY DEF Init, ScriptInit, ApplyInit
  <1>2. GivenDocuments /\ XidsGiven /\ DeltaParts
    BY <1>1, InitIsGiven DEF XidsGiven, NewMarked, DeltaParts
  <1> QED
    BY <1>1, <1>2 DEF WrongRootsInv, OldMarked, NewMarked, DeletesMade, InsertsMade

(***************************************************************************)
(* It stays so: whatever the tools do then, what has gone wrong is not     *)
(* made good.                                                              *)
(***************************************************************************)
THEOREM WrongRootsInvariance == Spec => [](~RootsMatch => WrongRootsInv)
PROOF
  <1>1. Init => (~RootsMatch => WrongRootsInv)
    BY WrongRootsBegin
  <1>2. (~RootsMatch => WrongRootsInv) /\ [Next]_vars => (~RootsMatch => WrongRootsInv)'
    BY RootsStay, WrongRootsStep
  <1> QED
    BY <1>1, <1>2, PTL DEF Spec

(***************************************************************************)
(* When the roots are not matched with each other, the second document is  *)
(* never handed out: one of the two tools throws before.                   *)
(***************************************************************************)
THEOREM OnlyMatchedRootsArrive == Spec => []WrongRootsAreNoticed
PROOF
  <1>1. (~RootsMatch => WrongRootsInv) => WrongRootsAreNoticed
    BY DEF WrongRootsInv, StaysOut, WrongRootsAreNoticed
  <1> QED
    BY <1>1, WrongRootsInvariance, PTL

-----------------------------------------------------------------------------
(* The attributes of node x after these changes, and its label after these. *)
ChangedAttr(attr, changes, x) ==
  [n \in DOMAIN attr |->
     IF \E a \in changes : a.xid = x /\ a.attr = n
     THEN (CHOOSE a \in changes : a.xid = x /\ a.attr = n).value
     ELSE attr[n]]

ChangedLabel(label, values, x) ==
  IF \E u \in values : u.xid = x THEN (CHOOSE u \in values : u.xid = x).value ELSE label

IsOutcomeNode(e, d, r, x) ==
  /\ r[x] = Node(r[x], r[x].kids) /\ r[x].kids = e.new[x].kids
  /\ r[x].kind = e.was[x].kind
  /\ r[x].attr = ChangedAttr(e.was[x].attr, d.attributes, x)
  /\ r[x].label = IF d.renameRoot.to # None /\ x = e.top THEN d.renameRoot.to
                  ELSE ChangedLabel(e.was[x].label, d.updates, x)

(***************************************************************************)
(* The nodes of the tree after all operations.                             *)
(***************************************************************************)
LEMMA OutcomeNodes ==
  ASSUME NEW e, NEW d, NEW r, r = Outcome(e, d)
  PROVE  DOMAIN r = DOMAIN e.new /\ \A x \in DOMAIN r : IsOutcomeNode(e, d, r, x)
PROOF
  <1> DEFINE t == Rebuilt(e)
             a == WithAttributes(t, d.attributes)
             v == WithValues(a, d.updates)
  <1>1. r = WithName(v, e.top, d.renameRoot.to)
    BY DEF Outcome
  <1>2. DOMAIN t = DOMAIN e.new /\ \A x \in DOMAIN t : t[x] = Node(e.was[x], e.new[x].kids)
    BY RebuiltNodes
  <1> HIDE DEF t
  <1>3. /\ DOMAIN a = DOMAIN t
        /\ \A x \in DOMAIN t :
             a[x] = [t[x] EXCEPT !.attr = ChangedAttr(t[x].attr, d.attributes, x)]
    BY DEF WithAttributes, ChangedAttr
  <1> HIDE DEF a
  <1>4. /\ DOMAIN v = DOMAIN a
        /\ \A x \in DOMAIN a :
             v[x] = [a[x] EXCEPT !.label = ChangedLabel(a[x].label, d.updates, x)]
    BY DEF WithValues, ChangedLabel
  <1> HIDE DEF v
  <1>5. /\ DOMAIN r = DOMAIN v
        /\ \A x \in DOMAIN v :
             \/ r[x] = v[x] /\ ~(d.renameRoot.to # None /\ x = e.top)
             \/ r[x] = [v[x] EXCEPT !.label = d.renameRoot.to]
                /\ d.renameRoot.to # None /\ x = e.top
    BY <1>1 DEF WithName
  <1>6. DOMAIN r = DOMAIN e.new
    BY <1>2, <1>3, <1>4, <1>5
  <1>7. ASSUME NEW x \in DOMAIN r
        PROVE  IsOutcomeNode(e, d, r, x)
    <2>1. x \in DOMAIN t /\ x \in DOMAIN a /\ x \in DOMAIN v
      BY <1>3, <1>4, <1>5
    <2> DEFINE w == e.was[x]
               newAttr == ChangedAttr(w.attr, d.attributes, x)
               newLabel == ChangedLabel(w.label, d.updates, x)
               name == d.renameRoot.to
               kids == e.new[x].kids
    <2>2. t[x] = [kind |-> w.kind, label |-> w.label, attr |-> w.attr, kids |-> kids]
      BY <1>2, <2>1 DEF Node
    <2>3. a[x] = [t[x] EXCEPT !.attr = ChangedAttr(t[x].attr, d.attributes, x)]
      BY <1>3, <2>1
    <2>4. t[x].attr = w.attr
      BY <2>2
    <2>5. a[x] = [t[x] EXCEPT !.attr = newAttr]
      BY <2>3, <2>4
    <2> HIDE DEF newAttr
    <2>6. a[x] = [kind |-> w.kind, label |-> w.label, attr |-> newAttr, kids |-> kids]
      BY <2>2, <2>5
    <2>7. v[x] = [a[x] EXCEPT !.label = ChangedLabel(a[x].label, d.updates, x)]
      BY <1>4, <2>1
    <2>8. a[x].label = w.label
      BY <2>6
    <2>9. v[x] = [a[x] EXCEPT !.label = newLabel]
      BY <2>7, <2>8
    <2> HIDE DEF newLabel
    <2>10. v[x] = [kind |-> w.kind, label |-> newLabel, attr |-> newAttr, kids |-> kids]
      BY <2>6, <2>9
    <2>11. \/ r[x] = v[x] /\ ~(name # None /\ x = e.top)
           \/ r[x] = [v[x] EXCEPT !.label = name] /\ name # None /\ x = e.top
      BY <1>5, <2>1
    <2>12. PICK label : r[x] = [kind |-> w.kind, label |-> label, attr |-> newAttr, kids |-> kids]
                        /\ label = IF name # None /\ x = e.top THEN name ELSE newLabel
      <3>1. CASE name # None /\ x = e.top
        <4>1. r[x] = [v[x] EXCEPT !.label = name]
          BY <2>11, <3>1
        <4>2. r[x] = [kind |-> w.kind, label |-> name, attr |-> newAttr, kids |-> kids]
          BY <2>10, <4>1
        <4> QED
          BY <3>1, <4>2
      <3>2. CASE ~(name # None /\ x = e.top)
        <4>1. r[x] = v[x]
          BY <2>11, <3>2
        <4>2. r[x] = [kind |-> w.kind, label |-> newLabel, attr |-> newAttr, kids |-> kids]
          BY <2>10, <4>1
        <4> QED
          BY <3>2, <4>2
      <3> QED
        BY <3>1, <3>2
    <2>13. /\ r[x].kind = w.kind /\ r[x].label = label /\ r[x].attr = newAttr /\ r[x].kids = kids
           /\ r[x] = Node(r[x], r[x].kids)
      BY <2>12 DEF Node
    <2> QED
      BY <2>12, <2>13 DEF IsOutcomeNode, newAttr, newLabel
  <1> QED
    BY <1>6, <1>7

(***************************************************************************)
(* The engine's tree at the end lists the nodes of v1 in their order.      *)
(***************************************************************************)
LEMMA ResultIsListed ==
  ASSUME DeltaIsWritten, NEW e, IsNamedForth(e), IsCutForth(e), IsEdit(e),
         NEW d, NEW r, r = Outcome(e, d)
  PROVE  /\ Len(Postfix(r, e.top)) = v1.n
         /\ \A j \in Nodes(v1) : Postfix(r, e.top)[j] = FinalXids[j]
PROOF
  <1> DEFINE s == Postfix(r, e.top)
             w == [j \in 1 .. v1.n |-> FinalXids[j]]
             A == DOMAIN e.new
  <1>1. DOMAIN r = A /\ \A x \in DOMAIN r : r[x].kids = e.new[x].kids
    BY OutcomeNodes DEF IsOutcomeNode
  <1>2. IsWhole(r, e.top, e.newNum, e.n)
    BY <1>1, NewShapeIsWhole
  <1>3. Lists(s, A, e.newNum)
    <2>1. Lists(s, DOMAIN r, e.newNum)
      BY <1>2, WholeIsListed
    <2> QED
      BY <1>1, <2>1
  <1>4. v1.n \in Nat /\ Nodes(v1) = 1 .. v1.n
    BY FinalMarks, DocumentFacts
  <1>5. /\ A = {FinalXids[j] : j \in Nodes(v1)}
        /\ \A j \in Nodes(v1) : FinalXids[j] \in A /\ e.newNum[FinalXids[j]] = j
    BY DEF IsNamedForth, Named
  <1>6. w \in [1 .. v1.n -> A]
    BY <1>4, <1>5
  <1> HIDE DEF A
  <1>7. w \in Seq(A) /\ DOMAIN w = 1 .. v1.n /\ Len(w) = v1.n
    BY <1>4, <1>6
  <1>8. \A a \in A : e.newNum[a] \in Int /\ \E k \in DOMAIN w : w[k] = a
    BY <1>4, <1>5, <1>7
  <1>9. \A k \in DOMAIN w : e.newNum[w[k]] = k
    BY <1>4, <1>5, <1>7
  <1>10. \A k, l \in DOMAIN w : k < l => e.newNum[w[k]] < e.newNum[w[l]]
    BY <1>9
  <1> HIDE DEF w, s
  <1>11. Lists(w, A, e.newNum)
    BY <1>7, <1>8, <1>10 DEF Lists
  <1>12. s = w
    BY <1>3, <1>11, ListedOnce
  <1>13. Len(s) = v1.n /\ \A j \in Nodes(v1) : s[j] = FinalXids[j]
    BY <1>4, <1>7, <1>12 DEF w
  <1> QED
    BY <1>13 DEF s

(***************************************************************************)
(* A change of an attribute is about a node that both documents have.      *)
(***************************************************************************)
LEMMA ChangeFacts ==
  ASSUME DeltaIsWritten, NEW j \in Nodes(v1), NEW x, x = FinalXids[j],
         NEW a \in AttributeChanges
  PROVE  a.xid = x => /\ v1Assigned(j) /\ v1.kind[j] = "element" /\ a.attr \in AttrName
                      /\ a.old = v0.attr[x][a.attr] /\ a.value = v1.attr[j][a.attr]
                      /\ a.old # a.value
PROOF
  <1> SUFFICES ASSUME a.xid = x
               PROVE  /\ v1Assigned(j) /\ v1.kind[j] = "element" /\ a.attr \in AttrName
                      /\ a.old = v0.attr[x][a.attr] /\ a.value = v1.attr[j][a.attr]
                      /\ a.old # a.value
    OBVIOUS
  <1>1. PICK k \in Nodes(v1), n \in AttrName :
          /\ v1Assigned(k) /\ v1.kind[k] = "element"
          /\ v1.attr[k][n] # v0.attr[v1match[k]][n]
          /\ a = [xid |-> v1xid[k], attr |-> n,
                  old |-> v0.attr[v1match[k]][n], value |-> v1.attr[k][n]]
    <2>1. PICK p \in Nodes(v1) \X AttrName :
            /\ v1Assigned(p[1]) /\ v1.kind[p[1]] = "element"
            /\ v1.attr[p[1]][p[2]] # v0.attr[v1match[p[1]]][p[2]]
            /\ a = [xid |-> v1xid[p[1]], attr |-> p[2],
                    old |-> v0.attr[v1match[p[1]]][p[2]], value |-> v1.attr[p[1]][p[2]]]
      BY DEF AttributeChanges
    <2>2. p[1] \in Nodes(v1) /\ p[2] \in AttrName
      BY <2>1
    <2> QED
      BY <2>1, <2>2
  <1>2. v1event[k] # "updateNew"
    BY <1>1, FinalMarks
  <1>3. FinalXids[k] = v1xid[k]
    BY <1>2 DEF FinalXids
  <1>4. k = j
    BY <1>1, <1>3, NamesDiffer
  <1>5. x = v1match[j]
    BY <1>1, <1>4, NameFacts
  <1> QED
    BY <1>1, <1>4, <1>5

(* A new value is given to the text it was written for. *)
LEMMA ValueFacts ==
  ASSUME DeltaIsWritten, NEW j \in Nodes(v1), NEW x, x = FinalXids[j]
  PROVE  /\ \A u \in NewValues : u.xid = x =>
              v1event[j] = "updateNew" /\ u.value = v1.label[j]
         /\ v1event[j] = "updateNew" => \E u \in NewValues : u.xid = x
PROOF
  <1>1. MatchedDocuments
    BY FinalMarks
  <1>2. \A u \in NewValues : \E p \in Updates : u.xid = p[1] /\ u.value = v1.label[p[2]]
    BY DEF NewValues
  <1>3. ASSUME NEW p \in Updates
        PROVE  \E u \in NewValues : u.xid = p[1]
    <2> DEFINE u == [xid |-> p[1], par |-> v0.parent[p[1]], value |-> v1.label[p[2]]]
    <2>1. u \in NewValues
      BY DEF NewValues
    <2>2. u.xid = p[1]
      OBVIOUS
    <2> QED
      BY <2>1, <2>2
  <1>4. ASSUME NEW u \in NewValues, u.xid = x
        PROVE  v1event[j] = "updateNew" /\ u.value = v1.label[j]
    <2>1. PICK p \in Updates : x = p[1] /\ u.value = v1.label[p[2]]
      BY <1>2, <1>4
    <2>2. x \in Nodes(v0) /\ v0event[x] = "updateOld"
      BY <1>1, <2>1, UpdatesAreOneToOne, FinalMarks
    <2>3. v1event[j] = "updateNew" /\ <<x, j>> \in Updates
      BY <2>2, NameFacts
    <2>4. PICK q \in Updates : q = <<x, j>>
      BY <2>3
    <2>5. q[1] = p[1] /\ q[2] = j
      BY <2>1, <2>4
    <2>6. p[2] = j
      BY <1>1, <2>5, UpdatesAreOneToOne
    <2> QED
      BY <2>1, <2>3, <2>6
  <1>5. ASSUME v1event[j] = "updateNew"
        PROVE  \E u \in NewValues : u.xid = x
    <2>1. <<x, j>> \in Updates
      BY <1>5, NameFacts
    <2>2. PICK q \in Updates : q = <<x, j>>
      BY <2>1
    <2>3. q[1] = x
      BY <2>2
    <2> QED
      BY <1>3, <2>3
  <1> QED
    BY <1>4, <1>5

-----------------------------------------------------------------------------
(* What a node of the second document was in the document it comes from. *)
LEMMA WhatNodesWere ==
  ASSUME DeltaIsWritten, NEW e, IsNamedForth(e), IsCutForth(e),
         NEW j \in Nodes(v1), NEW x, x = FinalXids[j], NEW w, w = e.was[x]
  PROVE  /\ v1event[j] = "inserted" =>
              w.kind = v1.kind[j] /\ w.label = v1.label[j] /\ w.attr = v1.attr[j]
         /\ v1event[j] # "inserted" =>
              /\ x \in Nodes(v0)
              /\ w.kind = v0.kind[x] /\ w.label = v0.label[x] /\ w.attr = v0.attr[x]
PROOF
  <1>1. IsDocument(v0) /\ IsDocument(v1)
    BY FinalMarks
  <1>2. /\ e.old = TreeOf(v0, DefaultXids(v0)) /\ e.new = TreeOf(v1, FinalXids)
        /\ IsNumbering(v0, DefaultXids(v0), e.oldNum) /\ IsNumbering(v1, FinalXids, e.newNum)
        /\ x \in DOMAIN e.new /\ DOMAIN e.old = Nodes(v0)
        /\ x \in DOMAIN e.old <=> v1event[j] # "inserted"
    BY DEF IsNamedForth
  <1>3. \A i \in Nodes(v0) : DefaultXids(v0)[i] = i
    BY DEF DefaultXids
  <1>4. CASE v1event[j] = "inserted"
    <2>1. w = e.new[x]
      BY <1>2, <1>4 DEF IsCutForth
    <2>2. /\ e.new[x].kind = v1.kind[j] /\ e.new[x].label = v1.label[j]
          /\ e.new[x].attr = v1.attr[j]
      BY <1>1, <1>2, TreeOfNodes
    <2> QED
      BY <1>4, <2>1, <2>2
  <1>5. CASE v1event[j] # "inserted"
    <2> DEFINE id == DefaultXids(v0)
    <2>1. x \in Nodes(v0) /\ w = e.old[x] /\ id[x] = x
      BY <1>2, <1>3, <1>5 DEF IsCutForth
    <2>2. IsNumbering(v0, id, e.oldNum) /\ e.old = TreeOf(v0, id)
      BY <1>2
    <2> HIDE DEF id
    <2>3. /\ e.old[id[x]].kind = v0.kind[x] /\ e.old[id[x]].label = v0.label[x]
          /\ e.old[id[x]].attr = v0.attr[x]
      BY <1>1, <2>1, <2>2, TreeOfNodes
    <2> QED
      BY <1>5, <2>1, <2>3
  <1> QED
    BY <1>4, <1>5

(***************************************************************************)
(* The node of the first document that becomes node j of the second is of  *)
(* its kind, and of its label unless that is changed.                      *)
(***************************************************************************)
LEMMA PartnersAgree ==
  ASSUME DeltaIsWritten, NEW j \in Nodes(v1), v1event[j] # "inserted",
         NEW x, x = FinalXids[j]
  PROVE  /\ x \in Nodes(v0) /\ v0.kind[x] = v1.kind[j]
         /\ j # Root(v1) /\ v1event[j] # "updateNew" /\ v1.kind[j] # "comment" =>
              v0.label[x] = v1.label[j]
         /\ v1event[j] = "updateNew" => v1.kind[j] = "text"
PROOF
  <1>1. MatchedDocuments /\ IsDocument(v0) /\ IsDocument(v1)
    BY FinalMarks
  <1>2. x \in Nodes(v0)
    BY NameFacts
  <1>3. CASE v1event[j] = "updateNew"
    <2>1. <<x, j>> \in Updates
      BY <1>3, NameFacts
    <2>2. PICK q \in Updates : q = <<x, j>>
      BY <2>1
    <2>3. q[1] = x /\ q[2] = j
      BY <2>2
    <2>4. v0.kind[x] = "text" /\ v1.kind[j] = "text"
      BY <1>1, <2>3, UpdatedTexts
    <2> QED
      BY <1>2, <1>3, <2>4
  <1>4. CASE v1event[j] # "updateNew"
    <2>1. v1Assigned(j)
      BY <1>4, FinalMarks
    <2>2. v1match[j] = x /\ v1match[j] # 0
      BY <2>1, NameFacts DEF v1Assigned
    <2>3. CASE j = Root(v1)
      <3>1. x = Root(v0)
        BY <1>1, <2>2, <2>3, MatchingFacts
      <3>2. v0.kind[x] = "element" /\ v1.kind[j] = "element"
        BY <1>1, <2>3, <3>1, DocumentFacts DEF IsDocument, IsXml
      <3> QED
        BY <1>2, <1>4, <2>3, <3>2
    <2>4. CASE j # Root(v1)
      <3>1. Alike(v0, x, v1, j)
        BY <1>1, <2>2, <2>4 DEF MatchedDocuments, GivenDocuments, IsMatching
      <3>2. /\ v0.kind[x] = v1.kind[j] /\ OwnHash(v0, x) = OwnHash(v1, j)
            /\ v1.kind[j] = "text" => v0.label[x] = v1.label[j]
        BY <3>1 DEF Alike
      <3>3. v1.kind[j] \in {"element", "text", "comment"}
        BY <1>1 DEF IsDocument, IsContent, Kinds
      <3>4. ASSUME v1.kind[j] = "element"
            PROVE  v0.label[x] = v1.label[j]
        <4>1. <<v0.label[x], Key(v0, x)>> = <<v1.label[j], Key(v1, j)>>
          BY <3>2, <3>4 DEF OwnHash
        <4> QED
          BY <4>1
      <3> QED
        BY <1>2, <1>4, <3>2, <3>3, <3>4
    <2> QED
      BY <2>3, <2>4
  <1> QED
    BY <1>3, <1>4

(***************************************************************************)
(* The operations on attributes leave a node with the attributes it has in *)
(* the second document.                                                    *)
(***************************************************************************)
LEMMA ResultAttributes ==
  ASSUME DeltaIsWritten, NEW e, IsNamedForth(e), IsCutForth(e),
         NEW j \in Nodes(v1), NEW x, x = FinalXids[j], NEW w, w = e.was[x].attr
  PROVE  ChangedAttr(w, AttributeChanges, x) = v1.attr[j]
PROOF
  <1>1. IsDocument(v0) /\ IsDocument(v1)
    BY FinalMarks
  <1>2. v1.attr[j] \in [AttrName -> Value \cup {None}]
    BY <1>1 DEF IsDocument, IsContent, Attributes
  <1>3. w \in [AttrName -> Value \cup {None}]
    <2>1. CASE v1event[j] = "inserted"
      BY <1>2, <2>1, WhatNodesWere
    <2>2. CASE v1event[j] # "inserted"
      <3>1. x \in Nodes(v0) /\ w = v0.attr[x]
        BY <2>2, WhatNodesWere
      <3> QED
        BY <1>1, <3>1 DEF IsDocument, IsContent, Attributes
    <2> QED
      BY <2>1, <2>2
  <1> DEFINE C == AttributeChanges
             c == ChangedAttr(w, C, x)
  <1>4. \A a \in C : a.xid = x => /\ v1Assigned(j) /\ v1.kind[j] = "element"
                                  /\ a.value = v1.attr[j][a.attr]
    BY ChangeFacts
  <1>5. ASSUME NEW n \in AttrName, \A a \in C : ~(a.xid = x /\ a.attr = n)
        PROVE  w[n] = v1.attr[j][n]
    <2>1. CASE v1event[j] = "inserted"
      BY <2>1, WhatNodesWere
    <2>2. CASE v1event[j] # "inserted"
      <3>1. x \in Nodes(v0) /\ w = v0.attr[x] /\ v0.kind[x] = v1.kind[j]
        BY <2>2, WhatNodesWere, PartnersAgree
      <3>2. CASE v1.kind[j] # "element"
        <4>1. v0.attr[x] = [b \in AttrName |-> None] /\ v1.attr[j] = [b \in AttrName |-> None]
          BY <1>1, <3>1, <3>2 DEF IsDocument, IsXml
        <4> QED
          BY <3>1, <4>1
      <3>3. CASE v1.kind[j] = "element"
        <4>1. v1event[j] # "updateNew"
          BY <2>2, <3>3, PartnersAgree
        <4>2. v1Assigned(j) /\ v1match[j] = x /\ v1xid[j] = x
          BY <2>2, <4>1, FinalMarks, NameFacts DEF FinalXids
        <4>3. SUFFICES ASSUME w[n] # v1.attr[j][n]
                       PROVE  FALSE
          OBVIOUS
        <4> DEFINE q == <<j, n>>
                   a == [xid |-> v1xid[q[1]], attr |-> q[2],
                         old |-> v0.attr[v1match[q[1]]][q[2]], value |-> v1.attr[q[1]][q[2]]]
        <4>4. q \in Nodes(v1) \X AttrName /\ q[1] = j /\ q[2] = n
          OBVIOUS
        <4>5. /\ v1Assigned(q[1]) /\ v1.kind[q[1]] = "element"
              /\ v1.attr[q[1]][q[2]] # v0.attr[v1match[q[1]]][q[2]]
          BY <3>1, <3>3, <4>2, <4>3, <4>4
        <4>6. a \in C
          BY <4>4, <4>5 DEF AttributeChanges
        <4>7. a.xid = x /\ a.attr = n
          BY <4>2, <4>4
        <4> QED
          BY <1>5, <4>6, <4>7
      <3> QED
        BY <3>2, <3>3
    <2> QED
      BY <2>1, <2>2
  <1> HIDE DEF C
  <1>6. c = [n \in AttrName |->
               IF \E a \in C : a.xid = x /\ a.attr = n
               THEN (CHOOSE a \in C : a.xid = x /\ a.attr = n).value
               ELSE w[n]]
    BY <1>3 DEF ChangedAttr
  <1>7. ASSUME NEW n \in AttrName
        PROVE  c[n] = v1.attr[j][n]
    <2>1. CASE \E a \in C : a.xid = x /\ a.attr = n
      <3> DEFINE b == CHOOSE a \in C : a.xid = x /\ a.attr = n
      <3>1. b \in C /\ b.xid = x /\ b.attr = n
        BY <2>1
      <3>2. c[n] = b.value
        BY <1>6, <2>1
      <3> HIDE DEF b, c
      <3> QED
        BY <1>4, <3>1, <3>2
    <2>2. CASE ~\E a \in C : a.xid = x /\ a.attr = n
      <3>1. c[n] = w[n]
        BY <1>6, <2>2
      <3>2. w[n] = v1.attr[j][n]
        BY <1>5, <2>2
      <3> QED
        BY <3>1, <3>2
    <2> QED
      BY <2>1, <2>2
  <1>8. c = [n \in AttrName |-> c[n]]
    BY <1>6
  <1> HIDE DEF c
  <1>9. c = v1.attr[j]
    BY <1>2, <1>7, <1>8
  <1> QED
    BY <1>9 DEF c, C

(***************************************************************************)
(* A node of the second document has as many children there as the node of *)
(* its XID has in the tree.                                                *)
(***************************************************************************)
LEMMA ResultKids ==
  ASSUME DeltaIsWritten, NEW e, IsNamedForth(e), NEW j \in Nodes(v1), NEW x, x = FinalXids[j]
  PROVE  Len(e.new[x].kids) = Cardinality(Children(v1, j))
PROOF
  <1> DEFINE S == Children(v1, j)
             T == Named(FinalXids, S)
             f == [c \in S |-> FinalXids[c]]
  <1>1. IsDocument(v1)
    BY FinalMarks
  <1>2. S \subseteq Nodes(v1) /\ IsFiniteSet(S)
    BY <1>1, DocumentNodes, DocumentFacts, FS_Subset
  <1>3. Lists(e.new[x].kids, T, e.newNum)
    BY <1>1, TreeOfNodes DEF IsNamedForth
  <1>4. Cardinality(T) = Len(e.new[x].kids)
    BY <1>3, ListedPlaces
  <1>5. f \in [S -> T] /\ \A t \in T : \E a \in S : f[a] = t
    BY DEF Named
  <1>6. \A a, b \in S : f[a] = f[b] => a = b
    BY <1>2, NamesDiffer
  <1>7. Cardinality(S) = Cardinality(T)
    <2> HIDE DEF f, S, T
    <2> QED
      BY <1>2, <1>5, <1>6, SameSize
  <1> QED
    BY <1>4, <1>7

(***************************************************************************)
(* Its label: a new one when it is an updated text or the renamed root,    *)
(* else the one it had.                                                    *)
(***************************************************************************)
LEMMA ResultLabels ==
  ASSUME DeltaIsWritten, NEW e, IsNamedForth(e), IsCutForth(e),
         NEW j \in Nodes(v1), NEW x, x = FinalXids[j], NEW w, w = e.was[x].label,
         v1.kind[j] # "comment"
  PROVE  (IF RootChange.to # None /\ x = e.top THEN RootChange.to
          ELSE ChangedLabel(w, NewValues, x)) = v1.label[j]
PROOF
  <1>1. MatchedDocuments /\ IsDocument(v0) /\ IsDocument(v1)
    BY FinalMarks
  <1>2. v1.label[j] \in Label /\ None \notin Label
    BY <1>1, DocumentAssumption DEF IsDocument, IsContent
  <1>3. e.top = Root(v0) /\ Root(v0) \in Nodes(v0) /\ Root(v1) \in Nodes(v1)
    BY <1>1, DocumentFacts DEF IsNamedForth
  <1>4. x = e.top <=> j = Root(v1)
    <2>1. CASE x \in Nodes(v0)
      BY <1>3, <2>1, StaysBelow
    <2>2. CASE x \notin Nodes(v0)
      <3>1. FinalXids[Root(v1)] = Root(v0)
        BY RootsNotScripted
      <3> QED
        BY <1>3, <2>2, <3>1
    <2> QED
      BY <2>1, <2>2
  <1> DEFINE c == ChangedLabel(w, NewValues, x)
  <1>5. CASE v1event[j] = "updateNew"
    <2>1. \E u \in NewValues : u.xid = x
      BY <1>5, ValueFacts
    <2>2. \A u \in NewValues : u.xid = x => u.value = v1.label[j]
      BY ValueFacts
    <2>3. c = v1.label[j]
      BY <2>1, <2>2 DEF ChangedLabel
    <2>4. j # Root(v1)
      BY <1>5, FinalMarks
    <2> QED
      BY <1>4, <2>3, <2>4
  <1>6. CASE v1event[j] # "updateNew"
    <2>1. \A u \in NewValues : u.xid # x
      BY <1>6, ValueFacts
    <2>2. c = w
      BY <2>1 DEF ChangedLabel
    <2> HIDE DEF c
    <2>3. CASE v1event[j] = "inserted"
      <3>1. w = v1.label[j] /\ j # Root(v1)
        BY <2>3, WhatNodesWere, FinalMarks
      <3> QED
        BY <1>4, <2>2, <3>1 DEF c
    <2>4. CASE v1event[j] # "inserted"
      <3>1. x \in Nodes(v0) /\ w = v0.label[x]
        BY <2>4, WhatNodesWere
      <3>2. CASE j # Root(v1)
        <4>1. w = v1.label[j]
          BY <1>6, <2>4, <3>1, <3>2, PartnersAgree
        <4> QED
          BY <1>4, <2>2, <3>2, <4>1 DEF c
      <3>3. CASE j = Root(v1)
        <4>1. x = Root(v0) /\ x = e.top
          BY <1>3, <1>4, <3>3
        <4>2. CASE v0.label[Root(v0)] = v1.label[Root(v1)]
          <5>1. RootChange.to = None
            BY <4>2 DEF RootChange
          <5> QED
            BY <2>2, <3>1, <3>3, <4>1, <4>2, <5>1 DEF c
        <4>3. CASE v0.label[Root(v0)] # v1.label[Root(v1)]
          <5>1. RootChange.to = v1.label[Root(v1)]
            BY <4>3 DEF RootChange
          <5> QED
            BY <1>2, <3>3, <4>1, <5>1
        <4> QED
          BY <4>2, <4>3
      <3> QED
        BY <3>2, <3>3
    <2> QED
      BY <2>3, <2>4
  <1> QED
    BY <1>5, <1>6

-----------------------------------------------------------------------------
(* What a delta that is written holds beside its delete and insert operations. *)
LEMMA WrittenParts ==
  ASSUME DeltaIsWritten
  PROVE  /\ delta.attributes = AttributeChanges /\ delta.updates = NewValues
         /\ delta.renameRoot = RootChange
BY DEF DeltaIsWritten, DeltaInv, AttributesWritten, AttributesMade, ValuesWritten, InsertsMade,
       RootWritten

(***************************************************************************)
(* The tree at the end is the second document, node by node, under the     *)
(* XIDs that follow the nodes.                                             *)
(***************************************************************************)
LEMMA InvariantReconstructs ==
  ASSUME RoundTripInv
  PROVE  ReconstructsSecond /\ XidsFollowNodes
PROOF
  <1>1. CASE stage # "done"
    BY <1>1 DEF ReconstructsSecond, XidsFollowNodes
  <1>2. CASE stage = "done"
    <2>1. PICK e : e = ForthEdit
      OBVIOUS
    <2>2. PICK d : d = delta
      OBVIOUS
    <2>3. /\ DeltaIsWritten /\ IsJob(e, d) /\ IsNamedForth(e) /\ IsCutForth(e)
          /\ Applying(e, d)
      BY <1>2, <2>1, <2>2, ForthIsUnderWay
    <2>4. tree = Outcome(e, d) /\ top = e.top /\ IsEdit(e)
      BY <1>2, <2>3 DEF Applying, IsJob
    <2> DEFINE result == Postfix(tree, top)
    <2>5. Len(result) = v1.n /\ \A j \in Nodes(v1) : result[j] = FinalXids[j]
      BY <2>3, <2>4, ResultIsListed
    <2>6. /\ d.attributes = AttributeChanges /\ d.updates = NewValues
          /\ d.renameRoot = RootChange
      BY <2>2, <2>3, WrittenParts
    <2> HIDE DEF result
    <2>7. ASSUME NEW j \in Nodes(v1)
          PROVE  /\ tree[result[j]].kind = v1.kind[j]
                 /\ v1.kind[j] # "comment" => tree[result[j]].label = v1.label[j]
                 /\ tree[result[j]].attr = v1.attr[j]
                 /\ Len(tree[result[j]].kids) = Cardinality(Children(v1, j))
      <3> DEFINE x == FinalXids[j]
                 w == e.was[x]
      <3>1. result[j] = x /\ x \in DOMAIN e.new
        BY <2>3, <2>5 DEF IsNamedForth
      <3>2. w.kind = v1.kind[j]
        <4>1. CASE v1event[j] = "inserted"
          BY <2>3, <4>1, WhatNodesWere
        <4>2. CASE v1event[j] # "inserted"
          BY <2>3, <4>2, WhatNodesWere, PartnersAgree
        <4> QED
          BY <4>1, <4>2
      <3>3. ChangedAttr(w.attr, AttributeChanges, x) = v1.attr[j]
        BY <2>3, ResultAttributes
      <3>4. v1.kind[j] # "comment" =>
              (IF RootChange.to # None /\ x = e.top THEN RootChange.to
               ELSE ChangedLabel(w.label, NewValues, x)) = v1.label[j]
        BY <2>3, ResultLabels
      <3>5. Len(e.new[x].kids) = Cardinality(Children(v1, j))
        BY <2>3, ResultKids
      <3> HIDE DEF x
      <3>6. IsOutcomeNode(e, d, tree, x)
        BY <2>4, <3>1, OutcomeNodes
      <3>7. /\ tree[x].kind = w.kind /\ tree[x].kids = e.new[x].kids
            /\ tree[x].attr = ChangedAttr(w.attr, AttributeChanges, x)
            /\ tree[x].label = IF RootChange.to # None /\ x = e.top THEN RootChange.to
                               ELSE ChangedLabel(w.label, NewValues, x)
        BY <2>6, <3>6 DEF IsOutcomeNode
      <3> QED
        BY <3>1, <3>2, <3>3, <3>4, <3>5, <3>7
    <2>8. ReconstructsSecond
      BY <2>5, <2>7 DEF ReconstructsSecond, result
    <2>9. ASSUME NEW j \in Nodes(v1), v1event[j] # "updateNew"
          PROVE  Postfix(tree, top)[j] = v1xid[j]
      BY <2>5, <2>9 DEF FinalXids, result
    <2> QED
      BY <2>8, <2>9 DEF XidsFollowNodes
  <1> QED
    BY <1>1, <1>2

(***************************************************************************)
(* README: xydelta applies the delta to the first document and             *)
(* reconstructs the second.  For any two documents and whatever nodes the  *)
(* heuristics have matched, it does when it comes to its end.              *)
(***************************************************************************)
THEOREM DeltaRebuildsSecond == Spec => []ReconstructsSecond
PROOF
  <1>1. WrongRootsAreNoticed /\ (RootsMatch => RoundTripInv) => ReconstructsSecond
    BY InvariantReconstructs DEF WrongRootsAreNoticed, ReconstructsSecond
  <1> QED
    BY <1>1, OnlyMatchedRootsArrive, RoundTripInvariance, PTL

(***************************************************************************)
(* The nodes of the result have the XIDs xydiff has saved for the second   *)
(* document, but for the texts that were updated.                          *)
(***************************************************************************)
THEOREM XidsGoAlong == Spec => []XidsFollowNodes
PROOF
  <1>1. WrongRootsAreNoticed /\ (RootsMatch => RoundTripInv) => XidsFollowNodes
    BY InvariantReconstructs DEF WrongRootsAreNoticed, XidsFollowNodes
  <1> QED
    BY <1>1, OnlyMatchedRootsArrive, RoundTripInvariance, PTL
===============================================================================
