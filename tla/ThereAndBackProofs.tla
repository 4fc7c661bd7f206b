-------------------------- MODULE ThereAndBackProofs --------------------------
(***************************************************************************)
(* Theorems about the two ways of a delta, for all documents, matchings    *)
(* and headers: forth it rebuilds the second document, back the first.     *)
(***************************************************************************)
EXTENDS DeltaApplyProofs, ThereAndBack

-----------------------------------------------------------------------------
(* Deltas made of these operations, attribute names, values and tags. *)
Deltas(Operation, Update, Xid, Attr, Val, Tag) ==
  [deletes    : Seq(Operation),
   inserts    : Seq(Operation),
   updates    : SUBSET Update,
   attributes : SUBSET [xid : Xid, attr : Attr, old : Val, value : Val],
   renameRoot : [from : Tag, to : Tag]]

(* Each operation before the precedent one, twice. *)
LEMMA BeforePrecedentTwice ==
  ASSUME NEW S, NEW ops \in Seq(S)
  PROVE  /\ Back!BeforePrecedent(ops) \in Seq(S)
         /\ Back!BeforePrecedent(Back!BeforePrecedent(ops)) = ops
PROOF
  <1> DEFINE n == Len(ops)
             back == Back!BeforePrecedent(ops)
  <1>1. n \in Nat /\ ops \in [1 .. n -> S]
    OBVIOUS
  <1>2. \A i \in 1 .. n : (n - i) + 1 \in 1 .. n /\ (n - ((n - i) + 1)) + 1 = i
    BY <1>1
  <1>3. back = [i \in 1 .. n |-> ops[(n - i) + 1]]
    BY DEF Back!BeforePrecedent, Back!Reverse
  <1>4. back \in Seq(S) /\ Len(back) = n
    <2>1. back \in [1 .. n -> S]
      BY <1>1, <1>2, <1>3
    <2> QED
      BY <1>1, <2>1
  <1>5. Back!BeforePrecedent(back) = [i \in 1 .. n |-> back[(n - i) + 1]]
    BY <1>4 DEF Back!BeforePrecedent, Back!Reverse
  <1>6. \A i \in 1 .. n : back[(n - i) + 1] = ops[i]
    BY <1>2, <1>3
  <1>7. Back!BeforePrecedent(back) = [i \in 1 .. n |-> ops[i]]
    BY <1>5, <1>6
  <1>8. ops = [i \in 1 .. n |-> ops[i]]
    BY <1>1
  <1> QED
    BY <1>4, <1>7, <1>8

(* The values of an attribute change places, twice. *)
LEMMA SwapValuesTwice ==
  ASSUME NEW Xid, NEW Attr, NEW Val,
         NEW a \in [xid : Xid, attr : Attr, old : Val, value : Val]
  PROVE  /\ Back!SwapValues(a) \in [xid : Xid, attr : Attr, old : Val, value : Val]
         /\ Back!SwapValues(Back!SwapValues(a)) = a
PROOF
  <1>1. Back!SwapValues(a) = [xid |-> a.xid, attr |-> a.attr, old |-> a.value, value |-> a.old]
    BY DEF Back!SwapValues
  <1>2. a = [xid |-> a.xid, attr |-> a.attr, old |-> a.old, value |-> a.value]
    OBVIOUS
  <1>3. Back!SwapValues(Back!SwapValues(a))
          = [xid |-> a.xid, attr |-> a.attr, old |-> a.old, value |-> a.value]
    BY <1>1 DEF Back!SwapValues
  <1> QED
    BY <1>1, <1>2, <1>3

(***************************************************************************)
(* DeltaReverse undoes itself: the delta that leads back, reversed again,  *)
(* is the delta that led there, operation by operation and in its order.   *)
(***************************************************************************)
THEOREM ReversedTwice ==
  ASSUME NEW Operation, NEW Update, NEW Xid, NEW Attr, NEW Val, NEW Tag,
         NEW d \in Deltas(Operation, Update, Xid, Attr, Val, Tag)
  PROVE  Back!ReverseDelta(Back!ReverseDelta(d)) = d
PROOF
  <1> DEFINE Attrs   == [xid : Xid, attr : Attr, old : Val, value : Val]
             swapped == {Back!SwapValues(a) : a \in d.attributes}
             back    == [deletes    |-> Back!BeforePrecedent(d.inserts),
                         inserts    |-> Back!BeforePrecedent(d.deletes),
                         updates    |-> d.updates,
                         attributes |-> swapped,
                         renameRoot |-> [from |-> d.renameRoot.to,
                                         to   |-> d.renameRoot.from]]
  <1>1. /\ d.deletes \in Seq(Operation) /\ d.inserts \in Seq(Operation)
        /\ d.attributes \subseteq Attrs
        /\ d.renameRoot \in [from : Tag, to : Tag]
        /\ d = [deletes    |-> d.deletes,
                    inserts    |-> d.inserts,
                    updates    |-> d.updates,
                    attributes |-> d.attributes,
                    renameRoot |-> d.renameRoot]
    BY DEF Deltas
  <1>2. Back!ReverseDelta(d) = back
    BY <1>1 DEF Back!ReverseDelta
  <1>3. Back!ReverseDelta(back)
          = [deletes    |-> Back!BeforePrecedent(Back!BeforePrecedent(d.deletes)),
             inserts    |-> Back!BeforePrecedent(Back!BeforePrecedent(d.inserts)),
             updates    |-> d.updates,
             attributes |-> {Back!SwapValues(a) : a \in swapped},
             renameRoot |-> [from |-> d.renameRoot.from, to |-> d.renameRoot.to]]
    BY DEF Back!ReverseDelta
  <1>4. {Back!SwapValues(a) : a \in swapped} = d.attributes
    <2>1. \A a \in Attrs : Back!SwapValues(Back!SwapValues(a)) = a
      BY SwapValuesTwice
    <2>2. \A a \in d.attributes : Back!SwapValues(Back!SwapValues(a)) = a
      BY <1>1, <2>1
    <2>3. ASSUME NEW b PROVE b \in {Back!SwapValues(a) : a \in swapped} <=> b \in d.attributes
      BY <2>2
    <2> QED
      BY <2>3
  <1>5. d.renameRoot = [from |-> d.renameRoot.from, to |-> d.renameRoot.to]
    BY <1>1
  <1>6. /\ Back!BeforePrecedent(Back!BeforePrecedent(d.deletes)) = d.deletes
        /\ Back!BeforePrecedent(Back!BeforePrecedent(d.inserts)) = d.inserts
    BY <1>1, BeforePrecedentTwice
  <1>7. Back!ReverseDelta(back) = d
    BY <1>1, <1>3, <1>4, <1>5, <1>6, Zenon
  <1> QED
    BY <1>2, <1>7, Zenon

-----------------------------------------------------------------------------
(***************************************************************************)
(* The way back of an edit whose delta is d: from what d has made of e.new *)
(* to e.old, with the same nodes cut.  A node that both trees have is      *)
(* still what d has made of it when all nodes are back in their places.    *)
(***************************************************************************)
BackOf(e, d) ==
  [old    |-> Outcome(e, d),
   new    |-> e.old,
   top    |-> e.top,
   oldNum |-> e.newNum,
   newNum |-> e.oldNum,
   n      |-> e.n,
   cut    |-> e.cut,
   home   |-> e.home,
   was    |-> [x \in Either(e) |-> IF x \in DOMAIN e.new THEN Outcome(e, d)[x] ELSE e.old[x]]]

IsBack(b, e, d) ==
  /\ b.old = Outcome(e, d) /\ b.new = e.old /\ b.top = e.top
  /\ b.oldNum = e.newNum /\ b.newNum = e.oldNum /\ b.n = e.n
  /\ b.cut = e.cut /\ b.home = e.home
  /\ DOMAIN b.old = DOMAIN e.new
  /\ \A x \in DOMAIN e.new : b.old[x].kids = e.new[x].kids /\ b.was[x] = b.old[x]
  /\ \A x \in DOMAIN e.old \ DOMAIN e.new : b.was[x] = e.old[x]

(* The parts of the way back. *)
LEMMA BackParts ==
  ASSUME NEW e, NEW d, NEW b, b = BackOf(e, d)
  PROVE  IsBack(b, e, d)
PROOF
  <1> DEFINE r == Outcome(e, d)
  <1>1. DOMAIN r = DOMAIN e.new /\ \A x \in DOMAIN r : r[x].kids = e.new[x].kids
    BY OutcomeNodes DEF IsOutcomeNode
  <1>2. /\ b.old = r /\ b.new = e.old /\ b.top = e.top
        /\ b.oldNum = e.newNum /\ b.newNum = e.oldNum /\ b.n = e.n
        /\ b.cut = e.cut /\ b.home = e.home
        /\ b.was = [x \in Either(e) |-> IF x \in DOMAIN e.new THEN r[x] ELSE e.old[x]]
    BY DEF BackOf
  <1> HIDE DEF r
  <1>3. /\ \A x \in DOMAIN e.new : b.was[x] = r[x]
        /\ \A x \in DOMAIN e.old \ DOMAIN e.new : b.was[x] = e.old[x]
    BY <1>2 DEF Either
  <1> QED
    BY <1>1, <1>2, <1>3 DEF IsBack, r

(* What makes a side of a tree is its shape. *)
LEMMA SameShapeSide ==
  ASSUME NEW e, NEW t, NEW num, IsSide(e, t, num), NEW u, DOMAIN u = DOMAIN t,
         \A x \in DOMAIN t : u[x].kids = t[x].kids, IsForest(u, num, e.n),
         NEW b, b.n = e.n, b.top = e.top, b.cut = e.cut, b.home = e.home
  PROVE  IsSide(b, u, num)
PROOF
  <1>1. \A x \in DOMAIN t : Apply!Kids(u, x) = Apply!Kids(t, x)
    BY DEF Apply!Kids
  <1>2. IsRooted(t, e.top)
    BY DEF IsSide
  <1>3. IsRooted(u, b.top)
    BY <1>1, <1>2 DEF IsRooted
  <1> QED
    BY <1>1, <1>3 DEF IsSide

(***************************************************************************)
(* The way back is an edit too.                                            *)
(***************************************************************************)
LEMMA BackIsEdit ==
  ASSUME NEW e, IsEdit(e), NEW d, NEW b, IsBack(b, e, d)
  PROVE  IsEdit(b)
PROOF
  <1>1. /\ IsSide(e, e.old, e.oldNum) /\ IsSide(e, e.new, e.newNum)
        /\ e.cut \subseteq Either(e)
        /\ \A x \in DOMAIN e.old : x \in DOMAIN e.new <=> e.home[x] \in DOMAIN e.new
        /\ \A x \in DOMAIN e.new : x \in DOMAIN e.old <=> e.home[x] \in DOMAIN e.old
        /\ KeptAlike(e)
    BY DEF IsEdit
  <1>2. /\ b.new = e.old /\ b.top = e.top
        /\ b.oldNum = e.newNum /\ b.newNum = e.oldNum /\ b.n = e.n
        /\ b.cut = e.cut /\ b.home = e.home
        /\ DOMAIN b.old = DOMAIN e.new
        /\ \A x \in DOMAIN e.new : b.old[x].kids = e.new[x].kids
    BY DEF IsBack
  <1>3. IsForest(b.old, e.newNum, e.n)
    <2>1. PICK r : r = b.old
      OBVIOUS
    <2>2. DOMAIN r = DOMAIN e.new /\ \A x \in DOMAIN r : r[x].kids = e.new[x].kids
      BY <1>2, <2>1
    <2>3. IsWhole(r, e.top, e.newNum, e.n)
      BY <2>2, NewShapeIsWhole
    <2> QED
      BY <2>1, <2>3 DEF IsWhole
  <1>4. IsForest(e.old, e.oldNum, e.n) /\ IsForest(e.new, e.newNum, e.n)
    BY <1>1 DEF IsSide
  <1>5. IsSide(b, b.old, b.oldNum)
    BY <1>1, <1>2, <1>3, SameShapeSide
  <1>6. IsSide(b, b.new, b.newNum)
    BY <1>1, <1>2, <1>4, SameShapeSide
  <1>7. Either(b) = Either(e) /\ Both(b) = Both(e)
    BY <1>2 DEF Either, Both
  <1>8. \A x \in DOMAIN e.new : Apply!Kids(b.old, x) = Apply!Kids(e.new, x)
    BY <1>2 DEF Apply!Kids
  <1>9. ASSUME NEW x \in Both(e)
        PROVE  /\ Apply!Kids(b.old, x) \ e.cut = Apply!Kids(e.old, x) \ e.cut
               /\ \A c, k \in Apply!Kids(b.old, x) \ e.cut :
                    e.newNum[c] < e.newNum[k] => e.oldNum[c] < e.oldNum[k]
    <2>1. x \in DOMAIN e.new /\ x \in DOMAIN e.old
      BY DEF Both
    <2>2. /\ Apply!Kids(e.old, x) \ e.cut = Apply!Kids(e.new, x) \ e.cut
          /\ \A c, k \in Apply!Kids(e.old, x) \ e.cut :
               e.oldNum[c] < e.oldNum[k] => e.newNum[c] < e.newNum[k]
      BY <1>1 DEF KeptAlike
    <2>3. Apply!Kids(b.old, x) \ e.cut = Apply!Kids(e.old, x) \ e.cut
      BY <1>8, <2>1, <2>2
    <2>4. ASSUME NEW c \in Apply!Kids(e.old, x) \ e.cut, NEW k \in Apply!Kids(e.old, x) \ e.cut,
                 e.newNum[c] < e.newNum[k]
          PROVE  e.oldNum[c] < e.oldNum[k]
      <3>1. c \in DOMAIN e.old /\ k \in DOMAIN e.old
        BY <1>4, <2>1 DEF IsForest, Grows
      <3>2. c \in DOMAIN e.new /\ k \in DOMAIN e.new
        BY <1>4, <2>1, <2>2 DEF IsForest, Grows
      <3>3. /\ e.oldNum[c] \in Nat /\ e.oldNum[k] \in Nat
            /\ e.oldNum[c] = e.oldNum[k] => c = k
        BY <1>4, <3>1 DEF IsForest, Grows
      <3>4. e.newNum[c] \in Nat /\ e.newNum[k] \in Nat
        BY <1>4, <3>2 DEF IsForest, Grows
      <3>5. c # k
        BY <2>4, <3>4
      <3>6. ~(e.oldNum[k] < e.oldNum[c])
        BY <2>2, <2>4, <3>4
      <3> QED
        BY <3>3, <3>5, <3>6
    <2> QED
      BY <2>3, <2>4
  <1>10. KeptAlike(b)
    BY <1>2, <1>7, <1>9 DEF KeptAlike
  <1> QED
    BY <1>1, <1>2, <1>5, <1>6, <1>7, <1>10 DEF IsEdit

(***************************************************************************)
(* Operations in the opposite order.                                       *)
(***************************************************************************)
LEMMA ReversedList ==
  ASSUME NEW s, IsList(s), NEW w, w = Back!BeforePrecedent(s)
  PROVE  /\ IsList(w) /\ Len(w) = Len(s) /\ DOMAIN w = DOMAIN s
         /\ Len(s) \in Nat /\ DOMAIN s = 1 .. Len(s)
         /\ w = [k \in DOMAIN w |-> w[k]]
         /\ \A k \in DOMAIN s : /\ (Len(s) - k) + 1 \in DOMAIN s
                                /\ w[k] = s[(Len(s) - k) + 1] /\ w[(Len(s) - k) + 1] = s[k]
PROOF
  <1> DEFINE n == Len(s)
             R == {s[k] : k \in DOMAIN s}
  <1>1. n \in Nat /\ DOMAIN s = 1 .. n
    BY ListDomain
  <1>2. w = [k \in 1 .. n |-> s[(n - k) + 1]]
    BY DEF Back!BeforePrecedent, Back!Reverse
  <1>3. \A k \in 1 .. n : (n - k) + 1 \in 1 .. n /\ (n - ((n - k) + 1)) + 1 = k
    BY <1>1
  <1>4. \A k \in 1 .. n : s[(n - k) + 1] \in R
    BY <1>1, <1>3
  <1> HIDE DEF R
  <1>5. w \in [1 .. n -> R]
    BY <1>2, <1>4
  <1>6. w \in Seq(R) /\ Len(w) = n /\ DOMAIN w = 1 .. n
    BY <1>1, <1>5
  <1>7. \A k \in 1 .. n : w[k] = s[(n - k) + 1] /\ w[(n - k) + 1] = s[k]
    BY <1>2, <1>3
  <1>8. IsList(w) /\ w = [k \in DOMAIN w |-> w[k]]
    BY <1>6, OwnList
  <1> QED
    BY <1>1, <1>3, <1>6, <1>7, <1>8

-----------------------------------------------------------------------------
(* A script read from its end is one for another edit of the same nodes. *)
LEMMA ReversedScript ==
  ASSUME NEW e, NEW t, NEW num, NEW u, NEW ops, IsScript(e, t, num, u, ops),
         NEW b, b.cut = e.cut, NEW r, DOMAIN r = DOMAIN t, NEW v,
         \A k \in DOMAIN ops : IsOp(b, r, num, v, ops[k]),
         NEW w, w = Back!BeforePrecedent(ops)
  PROVE  IsScript(b, r, num, v, w)
PROOF
  <1>1. /\ IsList(ops)
        /\ \A k, l \in DOMAIN ops : ops[k].xid = ops[l].xid => k = l
        /\ \A z \in e.cut \cap DOMAIN t : \E k \in DOMAIN ops : ops[k].xid = z
    BY DEF IsScript
  <1> DEFINE n == Len(ops)
             At(k) == (n - k) + 1
  <1>2. /\ IsList(w) /\ DOMAIN w = DOMAIN ops /\ n \in Nat /\ DOMAIN ops = 1 .. n
        /\ \A k \in DOMAIN ops : At(k) \in DOMAIN ops /\ w[k] = ops[At(k)] /\ w[At(k)] = ops[k]
    BY <1>1, ReversedList
  <1>3. \A k, l \in DOMAIN ops : At(k) = At(l) => k = l
    BY <1>2
  <1> HIDE DEF At
  <1>4. \A k, l \in DOMAIN w : w[k].xid = w[l].xid => k = l
    BY <1>1, <1>2, <1>3
  <1>5. ASSUME NEW z \in b.cut \cap DOMAIN r
        PROVE  \E k \in DOMAIN w : w[k].xid = z
    <2>1. PICK k \in DOMAIN ops : ops[k].xid = z
      BY <1>1
    <2>2. At(k) \in DOMAIN w /\ w[At(k)].xid = z
      BY <1>2, <2>1
    <2> QED
      BY <2>2
  <1>6. \A k \in DOMAIN w : IsOp(b, r, num, v, w[k])
    BY <1>2
  <1> QED
    BY <1>2, <1>4, <1>5, <1>6 DEF IsScript

(* An insert operation read as a delete operation. *)
LEMMA InsertReadBackwards ==
  ASSUME NEW e, IsEdit(e), NEW d, NEW b, IsBack(b, e, d),
         NEW op, IsOp(e, e.new, e.newNum, e.old, op),
         \A x \in DOMAIN e.new \ DOMAIN e.old :
           /\ b.old[x].kind = e.was[x].kind /\ b.old[x].label = e.was[x].label
           /\ b.old[x].attr = e.was[x].attr
  PROVE  IsOp(b, b.old, b.oldNum, b.new, op)
PROOF
  <1>1. /\ b.new = e.old /\ b.oldNum = e.newNum /\ b.cut = e.cut /\ b.home = e.home
        /\ DOMAIN b.old = DOMAIN e.new
        /\ \A x \in DOMAIN e.new : b.old[x].kids = e.new[x].kids /\ b.was[x] = b.old[x]
    BY DEF IsBack
  <1>2. \A x \in DOMAIN e.new : Apply!Kids(b.old, x) = Apply!Kids(e.new, x)
    BY <1>1 DEF Apply!Kids
  <1>3. \A x \in DOMAIN e.new : x \in DOMAIN e.old <=> e.home[x] \in DOMAIN e.old
    BY DEF IsEdit
  <1>4. Travellers(b, b.old, op.xid) = Travellers(e, e.new, op.xid)
    BY <1>1 DEF Travellers
  <1>5. /\ op.xid \in e.cut \cap DOMAIN e.new
        /\ op.par \in DOMAIN e.new /\ op.pos \in DOMAIN e.new[op.par].kids
        /\ e.new[op.par].kids[op.pos] = op.xid
        /\ op.move \in BOOLEAN /\ (op.move <=> op.xid \in DOMAIN e.old)
        /\ ~op.move =>
             /\ {m.xid : m \in op.content} = Travellers(e, e.new, op.xid)
             /\ \A m \in op.content : IsPart(e, e.new, e.newNum, m)
             /\ \A m, o \in op.content : m.xid = o.xid => m = o
    BY DEF IsOp
  <1>6. ASSUME ~op.move, NEW m \in op.content
        PROVE  IsPart(b, b.old, b.oldNum, m)
    <2>1. m.xid \in Travellers(e, e.new, op.xid) /\ IsPart(e, e.new, e.newNum, m)
      BY <1>5, <1>6
    <2>2. m.xid \in DOMAIN e.new \ DOMAIN e.old
      BY <1>3, <1>5, <1>6, <2>1 DEF Travellers
    <2> QED
      BY <1>1, <1>2, <2>1, <2>2 DEF IsPart
  <1>7. /\ op.pos \in DOMAIN b.old[op.par].kids /\ b.old[op.par].kids[op.pos] = op.xid
        /\ op.par \in DOMAIN b.old
    BY <1>1, <1>5
  <1> QED
    BY <1>1, <1>4, <1>5, <1>6, <1>7 DEF IsOp

(* A delete operation read as an insert operation. *)
LEMMA DeleteReadBackwards ==
  ASSUME NEW e, IsEdit(e), NEW d, NEW b, IsBack(b, e, d),
         NEW op, IsOp(e, e.old, e.oldNum, e.new, op),
         \A x \in DOMAIN e.old \ DOMAIN e.new : e.was[x] = e.old[x]
  PROVE  IsOp(b, b.new, b.newNum, b.old, op)
PROOF
  <1>1. /\ b.new = e.old /\ b.newNum = e.oldNum /\ b.cut = e.cut /\ b.home = e.home
        /\ DOMAIN b.old = DOMAIN e.new
        /\ \A x \in DOMAIN e.old \ DOMAIN e.new : b.was[x] = e.old[x]
    BY DEF IsBack
  <1>2. \A x \in DOMAIN e.old : x \in DOMAIN e.new <=> e.home[x] \in DOMAIN e.new
    BY DEF IsEdit
  <1>3. Travellers(b, b.new, op.xid) = Travellers(e, e.old, op.xid)
    BY <1>1 DEF Travellers
  <1>4. /\ op.xid \in e.cut \cap DOMAIN e.old
        /\ op.par \in DOMAIN e.old /\ op.pos \in DOMAIN e.old[op.par].kids
        /\ e.old[op.par].kids[op.pos] = op.xid
        /\ op.move \in BOOLEAN /\ (op.move <=> op.xid \in DOMAIN e.new)
        /\ ~op.move =>
             /\ {m.xid : m \in op.content} = Travellers(e, e.old, op.xid)
             /\ \A m \in op.content : IsPart(e, e.old, e.oldNum, m)
             /\ \A m, o \in op.content : m.xid = o.xid => m = o
    BY DEF IsOp
  <1>5. ASSUME ~op.move, NEW m \in op.content
        PROVE  IsPart(b, b.new, b.newNum, m)
    <2>1. m.xid \in Travellers(e, e.old, op.xid) /\ IsPart(e, e.old, e.oldNum, m)
      BY <1>4, <1>5
    <2>2. m.xid \in DOMAIN e.old \ DOMAIN e.new
      BY <1>2, <1>4, <1>5, <2>1 DEF Travellers
    <2> QED
      BY <1>1, <2>1, <2>2 DEF IsPart
  <1> QED
    BY <1>1, <1>3, <1>4, <1>5 DEF IsOp

(***************************************************************************)
(* The order of a delete script, read from its end, is that of an insert   *)
(* script: a node before what hangs below it.                              *)
(***************************************************************************)
LEMMA ReversedOrder ==
  ASSUME NEW d, NEW C, C \subseteq Nodes(d), NEW order, Lists(order, C, LastToFirst(d)),
         IsDocument(d), NEW w, w = Back!BeforePrecedent(order)
  PROVE  IsList(order) /\ Lists(w, C, FirstToLast(d))
PROOF
  <1> DEFINE n == Len(order)
             At(k) == (n - k) + 1
  <1>1. /\ order \in Seq(C) /\ n \in Nat /\ DOMAIN order = 1 .. n
        /\ \A k \in 1 .. n : order[k] \in C
        /\ \A a \in C : \E k \in 1 .. n : order[k] = a
        /\ \A k, l \in 1 .. n : k < l => LastToFirst(d)[order[k]] < LastToFirst(d)[order[l]]
    BY ListFacts
  <1>2. IsList(order)
    BY <1>1, OwnList
  <1>3. /\ w = [k \in DOMAIN w |-> w[k]] /\ DOMAIN w = 1 .. n
        /\ \A k \in 1 .. n : At(k) \in 1 .. n /\ w[k] = order[At(k)] /\ w[At(k)] = order[k]
    BY <1>1, <1>2, ReversedList
  <1>4. \A k, l \in 1 .. n : k < l => At(l) < At(k)
    BY <1>1
  <1> HIDE DEF At
  <1>5. \A a \in C : /\ PrefixRank(d, a) \in Nat /\ FirstToLast(d)[a] = PrefixRank(d, a)
                     /\ LastToFirst(d)[a] = -PrefixRank(d, a)
    BY PrefixOrder DEF FirstToLast, LastToFirst
  <1>6. w \in Seq(C)
    <2>1. w \in [1 .. n -> C]
      BY <1>1, <1>3
    <2> QED
      BY <1>1, <2>1
  <1>7. \A a \in C : FirstToLast(d)[a] \in Int /\ \E k \in DOMAIN w : w[k] = a
    BY <1>1, <1>3, <1>5
  <1>8. ASSUME NEW k \in DOMAIN w, NEW l \in DOMAIN w, k < l
        PROVE  FirstToLast(d)[w[k]] < FirstToLast(d)[w[l]]
    <2>1. /\ At(k) \in 1 .. n /\ At(l) \in 1 .. n /\ At(l) < At(k)
          /\ w[k] = order[At(k)] /\ w[l] = order[At(l)]
      BY <1>3, <1>4, <1>8
    <2>2. LastToFirst(d)[w[l]] < LastToFirst(d)[w[k]] /\ w[k] \in C /\ w[l] \in C
      BY <1>1, <2>1
    <2> QED
      BY <1>5, <2>2
  <1> QED
    BY <1>2, <1>6, <1>7, <1>8 DEF Lists

-----------------------------------------------------------------------------
(* What the delta has inserted is still as it was inserted. *)
LEMMA InsertedAsWritten ==
  ASSUME DeltaIsWritten, NEW e, IsNamedForth(e), IsCutForth(e),
         NEW d, d = delta, d.updates = {}, NEW b, IsBack(b, e, d),
         NEW x \in DOMAIN e.new \ DOMAIN e.old
  PROVE  /\ b.old[x].kind = e.was[x].kind /\ b.old[x].label = e.was[x].label
         /\ b.old[x].attr = e.was[x].attr
PROOF
  <1> DEFINE w == e.was[x]
             r == Outcome(e, d)
  <1>1. PICK j \in Nodes(v1) : x = FinalXids[j]
    BY DEF IsNamedForth, Named
  <1>2. v1event[j] = "inserted"
    BY <1>1 DEF IsNamedForth
  <1>3. e.top \in DOMAIN e.old
    BY FinalMarks, DocumentFacts DEF IsNamedForth
  <1>4. d.attributes = AttributeChanges
    BY WrittenParts
  <1>5. IsOutcomeNode(e, d, r, x)
    BY OutcomeNodes
  <1>6. /\ r[x].kind = w.kind
        /\ r[x].attr = ChangedAttr(w.attr, AttributeChanges, x)
        /\ r[x].label = ChangedLabel(w.label, d.updates, x)
    BY <1>3, <1>4, <1>5 DEF IsOutcomeNode
  <1>7. ChangedLabel(w.label, d.updates, x) = w.label
    BY DEF ChangedLabel
  <1>8. ChangedAttr(w.attr, AttributeChanges, x) = v1.attr[j]
    BY <1>1, ResultAttributes
  <1>9. w.attr = v1.attr[j]
    BY <1>1, <1>2, WhatNodesWere
  <1>10. b.old[x] = r[x]
    BY DEF IsBack
  <1> QED
    BY <1>6, <1>7, <1>8, <1>9, <1>10

(***************************************************************************)
(* The reversed delete script brings a parent before what goes below it.   *)
(***************************************************************************)
LEMMA BackIsTopDown ==
  ASSUME DeltaIsWritten, NEW e, IsNamedForth(e), IsCutForth(e),
         NEW ops, ops = Back!BeforePrecedent(delta.deletes)
  PROVE  TopDown(e, ops)
PROOF
  <1> DEFINE id == DefaultXids(v0)
  <1>1. PICK order : /\ Lists(order, OldScripted, LastToFirst(v0))
                     /\ delta.deletes = [k \in DOMAIN order |-> DeleteOperation(order[k])]
    BY DEF DeltaIsWritten, DeltaInv, DeletesWritten, DeletesMade
  <1>2. PICK w : w = Back!BeforePrecedent(order)
    OBVIOUS
  <1>3. IsDocument(v0) /\ OldScripted \subseteq Nodes(v0)
    BY FinalMarks DEF OldScripted
  <1>4. IsList(order) /\ Lists(w, OldScripted, FirstToLast(v0))
    BY <1>1, <1>2, <1>3, ReversedOrder
  <1> DEFINE n == Len(order)
             At(k) == (n - k) + 1
  <1>5. /\ DOMAIN w = DOMAIN order /\ n \in Nat /\ DOMAIN order = 1 .. n
        /\ \A k \in DOMAIN order : At(k) \in DOMAIN order /\ w[k] = order[At(k)]
    BY <1>2, <1>4, ReversedList
  <1>6. PICK s : s = delta.deletes
    OBVIOUS
  <1>7. s = [k \in 1 .. n |-> DeleteOperation(order[k])]
    BY <1>1, <1>5, <1>6
  <1>8. DOMAIN s = 1 .. n /\ Len(s) = n
    BY <1>5, <1>7
  <1>9. ops = [k \in 1 .. n |-> s[At(k)]]
    BY <1>6, <1>8 DEF Back!BeforePrecedent, Back!Reverse
  <1> HIDE DEF At
  <1>10. \A k \in DOMAIN w : ops[k] = DeleteOperation(w[k]) /\ w[k] \in OldScripted
    <2> TAKE k \in DOMAIN w
    <2>1. At(k) \in 1 .. n /\ w[k] = order[At(k)] /\ k \in 1 .. n
      BY <1>5
    <2>2. ops[k] = s[At(k)]
      BY <1>9, <2>1
    <2>3. s[At(k)] = DeleteOperation(order[At(k)])
      BY <1>7, <2>1
    <2>4. w[k] \in OldScripted
      BY <1>1, <1>5, <2>1, ListFacts
    <2> QED
      BY <2>1, <2>2, <2>3, <2>4
  <1>11. \A k \in DOMAIN w : ops[k].xid = id[w[k]] /\ ops[k].par = id[v0.parent[w[k]]]
    BY <1>10, DeletesAreOps
  <1>12. ops = [k \in DOMAIN w |-> ops[k]]
    BY <1>5, <1>9
  <1>13. IsWrittenInOrder(v0, id, w, ops)
    BY <1>11, <1>12 DEF IsWrittenInOrder
  <1>14. IsCutDocument(e, v0, id, e.oldNum, e.old, OldScripted)
    BY ForthIsCut
  <1> HIDE DEF id
  <1> QED
    BY <1>4, <1>13, <1>14, WrittenTopDown

(***************************************************************************)
(* The reversed delta is a job for the engine, on the way back.            *)
(***************************************************************************)
LEMMA BackIsJob ==
  ASSUME DeltaIsWritten, NEW e, IsNamedForth(e), IsCutForth(e), NEW d, d = delta,
         IsJob(e, d), d.updates = {}, NEW b, IsBack(b, e, d),
         NEW rd, rd = Back!ReverseDelta(d)
  PROVE  IsJob(b, rd)
PROOF
  <1>1. IsEdit(e) /\ LeadsOver(e, d) /\ \E n \in Nat : Either(e) \subseteq 0 .. n
    BY DEF IsJob
  <1>2. /\ b.new = e.old /\ b.oldNum = e.newNum /\ b.newNum = e.oldNum
        /\ b.cut = e.cut /\ b.home = e.home /\ DOMAIN b.old = DOMAIN e.new
    BY DEF IsBack
  <1>3. /\ rd.deletes = Back!BeforePrecedent(d.inserts)
        /\ rd.inserts = Back!BeforePrecedent(d.deletes)
        /\ rd.updates = {} /\ rd.attributes = {Back!SwapValues(a) : a \in d.attributes}
    BY DEF Back!ReverseDelta
  <1>4. IsEdit(b)
    BY <1>1, BackIsEdit
  <1>5. /\ IsScript(e, e.old, e.oldNum, e.new, d.deletes)
        /\ IsScript(e, e.new, e.newNum, e.old, d.inserts)
    BY <1>1 DEF LeadsOver
  <1>6. \A x \in DOMAIN e.new \ DOMAIN e.old :
          /\ b.old[x].kind = e.was[x].kind /\ b.old[x].label = e.was[x].label
          /\ b.old[x].attr = e.was[x].attr
    BY InsertedAsWritten
  <1>7. \A x \in DOMAIN e.old \ DOMAIN e.new : e.was[x] = e.old[x]
    BY DEF IsNamedForth, IsCutForth
  <1>8. \A k \in DOMAIN d.inserts : IsOp(b, b.old, b.oldNum, b.new, d.inserts[k])
    <2>1. \A k \in DOMAIN d.inserts : IsOp(e, e.new, e.newNum, e.old, d.inserts[k])
      BY <1>5 DEF IsScript
    <2> QED
      BY <1>1, <1>6, <2>1, InsertReadBackwards
  <1>9. \A k \in DOMAIN d.deletes : IsOp(b, b.new, b.newNum, b.old, d.deletes[k])
    <2>1. \A k \in DOMAIN d.deletes : IsOp(e, e.old, e.oldNum, e.new, d.deletes[k])
      BY <1>5 DEF IsScript
    <2> QED
      BY <1>1, <1>7, <2>1, DeleteReadBackwards
  <1>10. IsScript(b, b.old, b.oldNum, b.new, rd.deletes)
    BY <1>2, <1>3, <1>5, <1>8, ReversedScript
  <1>11. IsScript(b, b.new, b.newNum, b.old, rd.inserts)
    BY <1>2, <1>3, <1>5, <1>9, ReversedScript
  <1>12. TopDown(b, rd.inserts)
    <2>1. TopDown(e, rd.inserts)
      BY <1>3, BackIsTopDown
    <2> QED
      BY <1>2, <2>1 DEF TopDown
  <1>13. \A a \in rd.attributes : a.xid \in DOMAIN b.new
    <2> TAKE s \in rd.attributes
    <2>1. PICK a \in AttributeChanges : s = Back!SwapValues(a)
      BY <1>3, WrittenParts
    <2>2. s.xid = a.xid
      BY <2>1 DEF Back!SwapValues
    <2>3. PICK j \in Nodes(v1) : v1Assigned(j) /\ a.xid = v1xid[j]
      BY DEF AttributeChanges
    <2>4. a.xid \in Nodes(v0)
      BY <2>3, FinalMarks, MatchingFacts
    <2> QED
      BY <1>2, <2>2, <2>4 DEF IsNamedForth
  <1>14. Either(b) = Either(e)
    BY <1>2 DEF Either
  <1> QED
    BY <1>1, <1>3, <1>4, <1>10, <1>11, <1>12, <1>13, <1>14 DEF IsJob, LeadsOver

-----------------------------------------------------------------------------
(* What the engine is given for the way back. *)
LEMMA BackStarts ==
  ASSUME NEW e, NEW d, NEW b, IsBack(b, e, d)
  PROVE  b.old = [x \in DOMAIN b.old |-> Node(b.was[x], b.old[x].kids)]
PROOF
  <1> DEFINE t == Rebuilt(e)
             a == WithAttributes(t, d.attributes)
             v == WithValues(a, d.updates)
  <1>1. PICK r : r = b.old
    OBVIOUS
  <1>2. r = WithName(v, e.top, d.renameRoot.to) /\ r = Outcome(e, d)
    BY <1>1 DEF IsBack, Outcome
  <1>3. v = [x \in DOMAIN v |-> v[x]]
    BY DEF WithValues
  <1> HIDE DEF v
  <1>4. r = [x \in DOMAIN r |-> r[x]]
    BY <1>2, <1>3 DEF WithName
  <1>5. \A x \in DOMAIN r : r[x] = Node(r[x], r[x].kids) /\ b.was[x] = r[x]
    BY <1>1, <1>2, OutcomeNodes DEF IsOutcomeNode, IsBack
  <1>6. \A x \in DOMAIN r : r[x] = Node(b.was[x], r[x].kids)
    BY <1>5
  <1>7. r = [x \in DOMAIN r |-> Node(b.was[x], r[x].kids)]
    BY <1>4, <1>6
  <1> QED
    BY <1>1, <1>7

(***************************************************************************)
(* Changing an attribute and changing it back.                             *)
(***************************************************************************)
LEMMA AttributesChangeBack ==
  ASSUME DeltaIsWritten, NEW j \in Nodes(v1), NEW x, x = FinalXids[j], x \in Nodes(v0),
         NEW w, w = ChangedAttr(v0.attr[x], AttributeChanges, x),
         NEW swapped, swapped = {Back!SwapValues(a) : a \in AttributeChanges}
  PROVE  ChangedAttr(w, swapped, x) = v0.attr[x]
PROOF
  <1> DEFINE C == AttributeChanges
             c == ChangedAttr(w, swapped, x)
             old == v0.attr[x]
  <1>1. old \in [AttrName -> Value \cup {None}]
    BY FinalMarks DEF IsDocument, IsContent, Attributes
  <1>2. \A a \in C : a.xid = x => a.old = old[a.attr]
    BY ChangeFacts
  <1>3. /\ \A a \in C : \E s \in swapped : s.xid = a.xid /\ s.attr = a.attr
        /\ \A s \in swapped : \E a \in C : s.xid = a.xid /\ s.attr = a.attr /\ s.value = a.old
    <2>1. ASSUME NEW a \in C
          PROVE  /\ Back!SwapValues(a) \in swapped
                 /\ Back!SwapValues(a).xid = a.xid /\ Back!SwapValues(a).attr = a.attr
      BY DEF Back!SwapValues
    <2>2. ASSUME NEW s \in swapped
          PROVE  \E a \in C : s.xid = a.xid /\ s.attr = a.attr /\ s.value = a.old
      <3>1. PICK a \in C : s = Back!SwapValues(a)
        OBVIOUS
      <3>2. s.xid = a.xid /\ s.attr = a.attr /\ s.value = a.old
        BY <3>1 DEF Back!SwapValues
      <3> QED
        BY <3>2
    <2> QED
      BY <2>1, <2>2
  <1> HIDE DEF C, old
  <1>4. w = [n \in AttrName |->
               IF \E a \in C : a.xid = x /\ a.attr = n
               THEN (CHOOSE a \in C : a.xid = x /\ a.attr = n).value
               ELSE old[n]]
    BY <1>1 DEF ChangedAttr, C, old
  <1>5. c = [n \in AttrName |->
               IF \E s \in swapped : s.xid = x /\ s.attr = n
               THEN (CHOOSE s \in swapped : s.xid = x /\ s.attr = n).value
               ELSE w[n]]
    BY <1>4 DEF ChangedAttr
  <1>6. ASSUME NEW n \in AttrName
        PROVE  c[n] = old[n]
    <2>1. CASE \E s \in swapped : s.xid = x /\ s.attr = n
      <3> DEFINE s == CHOOSE k \in swapped : k.xid = x /\ k.attr = n
      <3>1. s \in swapped /\ s.xid = x /\ s.attr = n
        BY <2>1
      <3>2. c[n] = s.value
        BY <1>5, <2>1
      <3> HIDE DEF s, c
      <3>3. PICK a \in C : s.xid = a.xid /\ s.attr = a.attr /\ s.value = a.old
        BY <1>3, <3>1
      <3> QED
        BY <1>2, <3>1, <3>2, <3>3
    <2>2. CASE ~\E s \in swapped : s.xid = x /\ s.attr = n
      <3>1. c[n] = w[n]
        BY <1>5, <2>2
      <3>2. ~\E a \in C : a.xid = x /\ a.attr = n
        BY <1>3, <2>2
      <3>3. w[n] = old[n]
        BY <1>4, <3>2
      <3> QED
        BY <3>1, <3>3
    <2> QED
      BY <2>1, <2>2
  <1>7. c = [n \in AttrName |-> c[n]]
    BY <1>5
  <1> HIDE DEF c
  <1>8. c = old
    BY <1>1, <1>6, <1>7
  <1> QED
    BY <1>8 DEF c, old

(***************************************************************************)
(* The way back ends where the way forth began.                            *)
(***************************************************************************)
LEMMA BackRebuilds ==
  ASSUME DeltaIsWritten, NEW e, IsNamedForth(e), IsCutForth(e), NEW d, d = delta,
         d.updates = {}, NEW b, IsBack(b, e, d),
         NEW rd, rd = Back!ReverseDelta(d)
  PROVE  Outcome(b, rd) = TreeOf(v0, v0xid)
PROOF
  <1> DEFINE id == DefaultXids(v0)
             changes == AttributeChanges
             swapped == {Back!SwapValues(a) : a \in changes}
             forth == RootChange
  <1>1. PICK r : r = b.old
    OBVIOUS
  <1>2. PICK u : u = Outcome(b, rd)
    OBVIOUS
  <1>3. /\ d.attributes = changes /\ d.renameRoot = forth
    BY WrittenParts
  <1>4. /\ rd.updates = {} /\ rd.attributes = swapped
        /\ rd.renameRoot = [from |-> forth.to, to |-> forth.from]
    BY <1>3 DEF Back!ReverseDelta
  <1>5. /\ IsDocument(v0) /\ IsDocument(v1)
    BY FinalMarks
  <1>6. /\ e.old = TreeOf(v0, id) /\ IsNumbering(v0, id, e.oldNum) /\ DOMAIN e.old = Nodes(v0)
        /\ e.top = Root(v0) /\ Root(v0) \in Nodes(v0)
        /\ \A i \in Nodes(v0) : e.was[i] = e.old[i] /\ id[i] = i
        /\ \A x \in DOMAIN e.new : \E j \in Nodes(v1) : x = FinalXids[j]
        /\ FinalXids[Root(v1)] = Root(v0)
    BY <1>5, DocumentFacts, RootsNotScripted DEF IsNamedForth, IsCutForth, DefaultXids, Named
  <1>7. /\ r = Outcome(e, d) /\ b.new = e.old /\ b.top = e.top /\ DOMAIN r = DOMAIN e.new
        /\ \A x \in DOMAIN e.new : b.was[x] = r[x]
        /\ \A x \in DOMAIN e.old \ DOMAIN e.new : b.was[x] = e.old[x]
    BY <1>1 DEF IsBack
  <1>8. v0xid = id
    BY DEF DeltaIsWritten, ScriptInv, XidsGiven
  <1> HIDE DEF id
  <1>9. /\ e.old = [x \in DOMAIN e.old |-> e.old[x]]
        /\ \A i \in Nodes(v0) : /\ e.old[i].label = v0.label[i] /\ e.old[i].attr = v0.attr[i]
                                /\ e.old[i] = Node(e.old[i], e.old[i].kids)
    <2> DEFINE t == e.old
    <2>1. t = TreeOf(v0, id) /\ IsNumbering(v0, id, e.oldNum)
      BY <1>6
    <2> HIDE DEF t
    <2>2. /\ t = [x \in DOMAIN t |-> t[x]]
          /\ \A i \in Nodes(v0) : /\ t[id[i]].label = v0.label[i] /\ t[id[i]].attr = v0.attr[i]
                                  /\ t[id[i]] = Node(t[id[i]], t[id[i]].kids)
      BY <1>5, <2>1, TreeOfNodes
    <2>3. \A i \in Nodes(v0) : id[i] = i
      BY <1>6
    <2> QED
      BY <2>2, <2>3 DEF t
  <1>10. \/ forth.to = None /\ forth.from = None
         \/ /\ forth.from = v0.label[Root(v0)] /\ forth.to # None /\ forth.from # None
    <2>1. v0.label[Root(v0)] # None /\ v1.label[Root(v1)] # None
      BY <1>5, DocumentAssumption, DocumentFacts DEF IsDocument, IsContent
    <2> QED
      BY <2>1 DEF RootChange
  <1>11. DOMAIN u = Nodes(v0) /\ \A x \in Nodes(v0) : IsOutcomeNode(b, rd, u, x)
    BY <1>2, <1>6, <1>7, OutcomeNodes
  <1> HIDE DEF changes, swapped, forth
  <1>12. ASSUME NEW x \in Nodes(v0)
         PROVE  u[x] = e.old[x]
    <2> DEFINE w == b.was[x]
    <2>1. /\ u[x] = Node(u[x], u[x].kids) /\ u[x].kids = e.old[x].kids
          /\ u[x].kind = w.kind
          /\ u[x].attr = ChangedAttr(w.attr, swapped, x)
          /\ u[x].label = IF forth.from # None /\ x = e.top THEN forth.from
                          ELSE ChangedLabel(w.label, {}, x)
      BY <1>4, <1>7, <1>11 DEF IsOutcomeNode
    <2>2. ChangedLabel(w.label, {}, x) = w.label
      BY DEF ChangedLabel
    <2> HIDE DEF w
    <2>3. CASE x \notin DOMAIN e.new
      <3>1. w = e.old[x]
        BY <1>6, <1>7, <2>3 DEF w
      <3>2. x # e.top
        <4>1. Root(v0) \in DOMAIN e.new
          BY DocumentFacts, FinalMarks, RootsNotScripted DEF IsNamedForth
        <4> QED
          BY <1>6, <2>3, <4>1
      <3>3. \A s \in swapped : s.xid # x
        <4> TAKE s \in swapped
        <4>1. PICK a \in changes : s = Back!SwapValues(a)
          BY DEF swapped
        <4>2. s.xid = a.xid
          BY <4>1 DEF Back!SwapValues
        <4>3. PICK j \in Nodes(v1) : v1Assigned(j) /\ a.xid = v1xid[j]
          BY DEF changes, AttributeChanges
        <4>4. FinalXids[j] = a.xid
          BY <4>3, FinalMarks DEF FinalXids
        <4>5. a.xid \in DOMAIN e.new
          BY <4>4 DEF IsNamedForth
        <4> QED
          BY <2>3, <4>2, <4>5
      <3>4. w.attr \in [AttrName -> Value \cup {None}]
        BY <1>5, <1>9, <3>1 DEF IsDocument, IsContent, Attributes
      <3>5. ChangedAttr(w.attr, swapped, x) = w.attr
        BY <3>3, <3>4 DEF ChangedAttr
      <3>6. u[x].kind = e.old[x].kind /\ u[x].label = e.old[x].label
            /\ u[x].attr = e.old[x].attr /\ u[x].kids = e.old[x].kids
        BY <2>1, <2>2, <3>1, <3>2, <3>5
      <3>7. Node(u[x], u[x].kids) = Node(e.old[x], e.old[x].kids)
        BY <3>6 DEF Node
      <3> QED
        BY <1>9, <2>1, <3>7
    <2>4. CASE x \in DOMAIN e.new
      <3>1. w = r[x] /\ e.was[x] = e.old[x] /\ IsOutcomeNode(e, d, r, x)
        BY <1>6, <1>7, <2>4, OutcomeNodes DEF w
      <3>2. /\ r[x].kind = e.old[x].kind
            /\ r[x].attr = ChangedAttr(e.old[x].attr, changes, x)
            /\ r[x].label = IF forth.to # None /\ x = e.top THEN forth.to
                            ELSE ChangedLabel(e.old[x].label, {}, x)
        BY <1>3, <3>1 DEF IsOutcomeNode
      <3>3. ChangedLabel(e.old[x].label, {}, x) = e.old[x].label
        BY DEF ChangedLabel
      <3>4. PICK j \in Nodes(v1) : x = FinalXids[j]
        BY <1>6, <2>4
      <3>5. w.attr = ChangedAttr(v0.attr[x], changes, x)
        BY <1>9, <3>1, <3>2
      <3>6. ChangedAttr(w.attr, swapped, x) = v0.attr[x]
        BY <3>4, <3>5, AttributesChangeBack DEF changes, swapped
      <3>7. u[x].label = e.old[x].label
        BY <1>6, <1>9, <1>10, <2>1, <2>2, <3>1, <3>2, <3>3
      <3>8. u[x].kind = e.old[x].kind /\ u[x].label = e.old[x].label
            /\ u[x].attr = e.old[x].attr /\ u[x].kids = e.old[x].kids
        BY <1>9, <2>1, <3>1, <3>2, <3>6, <3>7
      <3>9. Node(u[x], u[x].kids) = Node(e.old[x], e.old[x].kids)
        BY <3>8 DEF Node
      <3> QED
        BY <1>9, <2>1, <3>9
    <2> QED
      BY <2>3, <2>4
  <1>13. u = [x \in DOMAIN u |-> u[x]]
    <2> DEFINE t == Rebuilt(b)
               a == WithAttributes(t, rd.attributes)
               v == WithValues(a, rd.updates)
    <2>1. u = WithName(v, b.top, rd.renameRoot.to)
      BY <1>2 DEF Outcome
    <2>2. v = [x \in DOMAIN v |-> v[x]]
      BY DEF WithValues
    <2> HIDE DEF v
    <2> QED
      BY <2>1, <2>2 DEF WithName
  <1>14. u = e.old
    BY <1>6, <1>9, <1>11, <1>12, <1>13
  <1> QED
    BY <1>2, <1>6, <1>8, <1>14

-----------------------------------------------------------------------------
(***************************************************************************)
(* The inductive invariant of both ways, for roots that are matched with   *)
(* each other: the engine is on its way to the second document or, if the  *)
(* delta can be reversed, on its way back.                                 *)
(***************************************************************************)
BackEdit == BackOf(ForthEdit, delta)

CanTurnBack == Back!Reversible(header, delta)

TwoWayInv ==
  /\ way \in {"forth", "back"}
  /\ ScriptInv /\ DeltaInv
  /\ way = "forth" => RoundTripInv
  /\ way = "back" => /\ pass = "written"
                     /\ CanTurnBack => Applying(BackEdit, Back!ReverseDelta(delta))
                     /\ ~CanTurnBack => stage = "undefined"

(* The way back is an edit, and the reversed delta leads over it. *)
LEMMA WayBackIsJob ==
  ASSUME DeltaIsWritten, CanTurnBack, NEW CONSTANT e, e = ForthEdit, NEW CONSTANT d, d = delta,
         NEW CONSTANT b, b = BackEdit, NEW CONSTANT rd, rd = Back!ReverseDelta(delta)
  PROVE  /\ IsBack(b, e, d) /\ IsJob(b, rd)
         /\ b.old = [x \in DOMAIN b.old |-> Node(b.was[x], b.old[x].kids)]
         /\ Outcome(b, rd) = TreeOf(v0, v0xid)
PROOF
  <1>1. IsJob(e, d) /\ IsNamedForth(e) /\ IsCutForth(e)
    BY ForthIsJob
  <1>2. d.updates = {}
    BY DEF CanTurnBack, Back!Reversible
  <1>3. b = BackOf(e, d) /\ rd = Back!ReverseDelta(d)
    BY DEF BackEdit
  <1>4. IsBack(b, e, d)
    BY <1>3, BackParts
  <1>5. IsJob(b, rd)
    BY <1>1, <1>2, <1>3, <1>4, BackIsJob
  <1>6. b.old = [x \in DOMAIN b.old |-> Node(b.was[x], b.old[x].kids)]
    BY <1>4, BackStarts
  <1>7. Outcome(b, rd) = TreeOf(v0, v0xid)
    BY <1>1, <1>2, <1>3, <1>4, BackRebuilds
  <1> QED
    BY <1>4, <1>5, <1>6, <1>7

(* The way back does not change while the engine goes it. *)
LEMMA BackStays ==
  ASSUME UNCHANGED scriptVars, UNCHANGED header
  PROVE  /\ BackEdit' = BackEdit /\ delta' = delta /\ pass' = pass
         /\ CanTurnBack' <=> CanTurnBack
BY EditStays DEF BackEdit, CanTurnBack

(* The engine is given what it has made, and the reversed delta. *)
LEMMA TurningBack ==
  ASSUME TwoWayInv, TurnBack
  PROVE  TwoWayInv'
PROOF
  <1>1. /\ way = "forth" /\ stage = "done" /\ way' = "back"
        /\ UNCHANGED scriptVars /\ UNCHANGED header
    BY DEF TurnBack
  <1>2. RoundTripInv /\ ScriptInv /\ DeltaInv
    BY <1>1 DEF TwoWayInv
  <1>3. ScriptInv' /\ DeltaInv'
    BY <1>1, <1>2, ApplyingKeepsScript, ApplyingKeepsDelta
  <1>4. PICK e : e = ForthEdit
    OBVIOUS
  <1>5. PICK d : d = delta
    OBVIOUS
  <1>6. DeltaIsWritten /\ Applying(e, d)
    BY <1>1, <1>2, <1>4, <1>5, ForthIsUnderWay
  <1>7. /\ BackEdit' = BackEdit /\ delta' = delta /\ pass' = pass
        /\ CanTurnBack' <=> CanTurnBack
    BY <1>1, BackStays
  <1>8. pass' = "written"
    BY <1>6, <1>7 DEF DeltaIsWritten
  <1>9. CASE CanTurnBack
    <2>1. PICK b : b = BackEdit
      OBVIOUS
    <2>2. PICK rd : rd = Back!ReverseDelta(delta)
      OBVIOUS
    <2>3. PICK free : free = firstFree
      OBVIOUS
    <2>4. /\ IsBack(b, e, d) /\ IsJob(b, rd)
          /\ b.old = [x \in DOMAIN b.old |-> Node(b.was[x], b.old[x].kids)]
      BY <1>4, <1>5, <1>6, <1>9, <2>1, <2>2, WayBackIsJob
    <2>5. Apply!Begin(tree, top, firstFree, Back!ReverseDelta(delta))
      BY <1>9 DEF TurnBack, CanTurnBack
    <2>6. tree = Outcome(e, d) /\ top = e.top /\ firstFree \in Nat
      BY <1>1, <1>6 DEF Applying
    <2>7. tree = b.old /\ top = b.top
      BY <2>4, <2>6 DEF IsBack
    <2>8. Apply!Begin(b.old, b.top, free, rd) /\ free \in Nat
      BY <2>2, <2>3, <2>5, <2>6, <2>7
    <2>9. Applying(b, rd)'
      BY <2>4, <2>8, EngineBegins
    <2>10. BackEdit' = b /\ Back!ReverseDelta(delta)' = rd
      BY <1>7, <2>1, <2>2
    <2> QED
      BY <1>1, <1>3, <1>7, <1>8, <1>9, <2>9, <2>10 DEF TwoWayInv
  <1>10. CASE ~CanTurnBack
    <2>1. stage' = "undefined"
      BY <1>10 DEF TurnBack, CanTurnBack, Apply!Undefined
    <2> QED
      BY <1>1, <1>3, <1>7, <1>8, <1>10, <2>1 DEF TwoWayInv
  <1> QED
    BY <1>9, <1>10

(* A step of the engine on the way back. *)
LEMMA BackwardStep ==
  ASSUME TwoWayInv, way = "back", Next \/ UNCHANGED vars, UNCHANGED backVars
  PROVE  TwoWayInv'
PROOF
  <1>1. /\ pass = "written" /\ ScriptInv /\ DeltaInv
        /\ CanTurnBack => Applying(BackEdit, Back!ReverseDelta(delta))
        /\ ~CanTurnBack => stage = "undefined"
    BY DEF TwoWayInv
  <1>2. way' = "back" /\ UNCHANGED header
    BY DEF backVars
  <1>3. ~ScriptNext
    BY <1>1 DEF ScriptNext, MarkOldTree, MarkNewTree, ComputeWeakMove, DetectUpdate,
                AddAttributeOperations, ConstructDeleteScript, ConstructInsertScript,
                AddRenameRoot
  <1>4. stage # "waiting"
    BY <1>1 DEF Applying
  <1>5. ~ReadDelta
    BY <1>4 DEF ReadDelta
  <1>6. UNCHANGED scriptVars /\ (Apply!ApplyNext \/ UNCHANGED applyVars)
    BY <1>3, <1>5 DEF Next, vars
  <1>7. /\ BackEdit' = BackEdit /\ delta' = delta /\ pass' = pass
        /\ CanTurnBack' <=> CanTurnBack
    BY <1>2, <1>6, BackStays
  <1>8. ScriptInv' /\ DeltaInv'
    BY <1>1, <1>6, ApplyingKeepsScript, ApplyingKeepsDelta
  <1>9. CASE CanTurnBack
    <2>1. PICK e : e = ForthEdit
      OBVIOUS
    <2>2. PICK d : d = delta
      OBVIOUS
    <2>3. PICK b : b = BackEdit
      OBVIOUS
    <2>4. PICK rd : rd = Back!ReverseDelta(delta)
      OBVIOUS
    <2>5. DeltaIsWritten
      BY <1>1 DEF DeltaIsWritten
    <2>6. IsJob(b, rd) /\ Applying(b, rd)
      BY <1>1, <1>9, <2>1, <2>2, <2>3, <2>4, <2>5, WayBackIsJob
    <2>7. Applying(b, rd)'
      BY <1>6, <2>6, EngineStep, EngineRests
    <2>8. BackEdit' = b /\ Back!ReverseDelta(delta)' = rd
      BY <1>7, <2>3, <2>4
    <2> QED
      BY <1>1, <1>2, <1>7, <1>8, <1>9, <2>7, <2>8 DEF TwoWayInv
  <1>10. CASE ~CanTurnBack
    <2>1. stage = "undefined"
      BY <1>1, <1>10
    <2>2. ~Apply!ApplyNext
      BY <2>1 DEF Apply!ApplyNext, Apply!ApplyDelete, Apply!StartInserts, Apply!ApplyInsert,
                  Apply!StartOthers, Apply!ApplyAttributes, Apply!ApplyUpdates,
                  Apply!ApplyRenameRoot, Apply!CheckMoveDocument
    <2>3. stage' = "undefined"
      BY <1>6, <2>1, <2>2 DEF applyVars
    <2> QED
      BY <1>1, <1>2, <1>7, <1>8, <1>10, <2>3 DEF TwoWayInv
  <1> QED
    BY <1>9, <1>10

(***************************************************************************)
(* With roots that are not matched with each other there is no way back:   *)
(* something has gone wrong on the way forth.                              *)
(***************************************************************************)
NoWayBack == way = "forth" /\ WrongRootsInv

WaysInv ==
  /\ RootsMatch => TwoWayInv
  /\ ~RootsMatch => NoWayBack

(* Nothing comes out, and nothing is turned back. *)
LEMMA NothingTurnsBack ==
  ASSUME ~RootsMatch, NoWayBack
  PROVE  stage # "done" /\ way = "forth"
BY DEF NoWayBack, WrongRootsInv, StaysOut

(* A step forth. *)
LEMMA ForwardStep ==
  ASSUME TwoWayInv, way = "forth", Next \/ UNCHANGED vars, UNCHANGED backVars
  PROVE  TwoWayInv'
PROOF
  <1>1. RoundTripInv
    BY DEF TwoWayInv
  <1>2. RoundTripInv'
    BY <1>1, RoundTripStep
  <1>3. way' = "forth"
    BY DEF backVars
  <1>4. ScriptInv' /\ DeltaInv'
    BY <1>2 DEF RoundTripInv
  <1> QED
    BY <1>2, <1>3, <1>4 DEF TwoWayInv

(* The matching stays, on both ways and at the turn. *)
LEMMA RootsStayBothWays ==
  ASSUME [TwoWayNext]_<<vars, backVars>>
  PROVE  RootsMatch' <=> RootsMatch
PROOF
  <1>1. CASE TurnBack
    <2>1. UNCHANGED matched
      BY <1>1 DEF TurnBack, scriptVars, matched
    <2> QED
      BY <2>1, MatchingStays
  <1>2. CASE [Next]_vars
    BY <1>2, RootsStay
  <1> QED
    BY <1>1, <1>2 DEF TwoWayNext

(***************************************************************************)
(* Forth and back, the engine does not lose the way; and it does not go    *)
(* back from where it has not arrived.                                     *)
(***************************************************************************)
THEOREM TwoWayInvariance == TwoWaySpec => []WaysInv
PROOF
  <1>1. TwoWayInit => WaysInv
    <2> SUFFICES ASSUME TwoWayInit
                 PROVE  WaysInv
      OBVIOUS
    <2>1. Init /\ way = "forth"
      BY DEF TwoWayInit
    <2>2. CASE RootsMatch
      <3>1. RoundTripInv
        BY <2>1, <2>2, RoundTripBegins
      <3> QED
        BY <2>1, <2>2, <3>1 DEF WaysInv, TwoWayInv, RoundTripInv
    <2>3. CASE ~RootsMatch
      BY <2>1, <2>3, WrongRootsBegin DEF WaysInv, NoWayBack
    <2> QED
      BY <2>2, <2>3
  <1>2. WaysInv /\ [TwoWayNext]_<<vars, backVars>> => WaysInv'
    <2> SUFFICES ASSUME WaysInv, [TwoWayNext]_<<vars, backVars>>
                 PROVE  WaysInv'
      OBVIOUS
    <2>1. RootsMatch' <=> RootsMatch
      BY RootsStayBothWays
    <2>2. TurnBack \/ ((Next \/ UNCHANGED vars) /\ UNCHANGED backVars)
      BY DEF TwoWayNext
    <2>3. CASE RootsMatch
      <3>1. TwoWayInv
        BY <2>3 DEF WaysInv
      <3>2. way \in {"forth", "back"}
        BY <3>1 DEF TwoWayInv
      <3>3. TwoWayInv'
        BY <2>2, <3>1, <3>2, TurningBack, ForwardStep, BackwardStep
      <3> QED
        BY <2>1, <2>3, <3>3 DEF WaysInv
    <2>4. CASE ~RootsMatch
      <3>1. NoWayBack /\ stage # "done"
        BY <2>4, NothingTurnsBack DEF WaysInv
      <3>2. (Next \/ UNCHANGED vars) /\ UNCHANGED backVars
        BY <2>2, <3>1 DEF TurnBack
      <3>3. way' = "forth"
        BY <3>1, <3>2 DEF NoWayBack, backVars
      <3>4. WrongRootsInv'
        BY <2>4, <3>1, <3>2, WrongRootsStep DEF NoWayBack
      <3> QED
        BY <2>1, <2>4, <3>3, <3>4 DEF WaysInv, NoWayBack
    <2> QED
      BY <2>3, <2>4
  <1> QED
    BY <1>1, <1>2, PTL DEF TwoWaySpec

(***************************************************************************)
(* The first half is a round trip: it rebuilds the second document.        *)
(***************************************************************************)
THEOREM ForthIsRoundTrip == TwoWaySpec => []ForthRebuildsSecond
PROOF
  <1>1. WaysInv => ForthRebuildsSecond
    <2>1. RootsMatch /\ WaysInv => ForthRebuildsSecond
      BY InvariantReconstructs DEF WaysInv, TwoWayInv, ForthRebuildsSecond
    <2>2. ~RootsMatch /\ WaysInv => ForthRebuildsSecond
      BY NothingTurnsBack DEF WaysInv, ForthRebuildsSecond, ReconstructsSecond
    <2> QED
      BY <2>1, <2>2
  <1> QED
    BY <1>1, TwoWayInvariance, PTL

(* Its nodes have the XIDs saved in the map of the second document. *)
THEOREM ForthXids == TwoWaySpec => []ForthKeepsXids
PROOF
  <1>1. WaysInv => ForthKeepsXids
    <2>1. RootsMatch /\ WaysInv => ForthKeepsXids
      BY InvariantReconstructs DEF WaysInv, TwoWayInv, ForthKeepsXids
    <2>2. ~RootsMatch /\ WaysInv => ForthKeepsXids
      BY NothingTurnsBack DEF WaysInv, ForthKeepsXids, XidsFollowNodes
    <2> QED
      BY <2>1, <2>2
  <1> QED
    BY <1>1, TwoWayInvariance, PTL

(***************************************************************************)
(* The reversed delta makes the first document of the second again, with   *)
(* every node under its old XID.                                           *)
(***************************************************************************)
THEOREM ReverseLeadsBack == TwoWaySpec => []ReverseRebuildsFirst
PROOF
  <1>1. WaysInv => ReverseRebuildsFirst
    <2> SUFFICES ASSUME WaysInv, way = "back", stage = "done"
                 PROVE  tree = TreeOf(v0, v0xid)
      BY DEF ReverseRebuildsFirst
    <2>0. TwoWayInv
      BY NothingTurnsBack DEF WaysInv
    <2>1. PICK e : e = ForthEdit
      OBVIOUS
    <2>2. PICK d : d = delta
      OBVIOUS
    <2>3. PICK b : b = BackEdit
      OBVIOUS
    <2>4. PICK rd : rd = Back!ReverseDelta(delta)
      OBVIOUS
    <2>5. DeltaIsWritten /\ CanTurnBack /\ Applying(b, rd)
      BY <2>0, <2>3, <2>4 DEF TwoWayInv, DeltaIsWritten
    <2>6. Outcome(b, rd) = TreeOf(v0, v0xid)
      BY <2>1, <2>2, <2>3, <2>4, <2>5, WayBackIsJob
    <2> QED
      BY <2>5, <2>6 DEF Applying
  <1> QED
    BY <1>1, TwoWayInvariance, PTL

(***************************************************************************)
(* No operation of a delta that can be reversed fails on the way back.     *)
(***************************************************************************)
THEOREM ReverseIsSafe == TwoWaySpec => []WayBackIsSafe
PROOF
  <1>1. WaysInv => WayBackIsSafe
    <2> SUFFICES ASSUME WaysInv, way = "back", CanTurnBack
                 PROVE  stage \notin {"exception", "undefined"} /\ NextParentIsThere
      BY DEF WayBackIsSafe, CanTurnBack
    <2>0. TwoWayInv
      BY NothingTurnsBack DEF WaysInv
    <2>1. PICK e : e = ForthEdit
      OBVIOUS
    <2>2. PICK d : d = delta
      OBVIOUS
    <2>3. PICK b : b = BackEdit
      OBVIOUS
    <2>4. PICK rd : rd = Back!ReverseDelta(delta)
      OBVIOUS
    <2>5. DeltaIsWritten /\ Applying(b, rd)
      BY <2>0, <2>3, <2>4 DEF TwoWayInv, DeltaIsWritten
    <2>6. IsJob(b, rd)
      BY <2>1, <2>2, <2>3, <2>4, <2>5, WayBackIsJob
    <2>7. stage \notin {"exception", "undefined"} /\ count = 1
      BY <2>5 DEF Applying
    <2>8. NextParentIsThere
      BY <2>5, <2>6, <2>7, EngineIsReady DEF NextParentIsThere
    <2> QED
      BY <2>7, <2>8
  <1> QED
    BY <1>1, TwoWayInvariance, PTL
===============================================================================
