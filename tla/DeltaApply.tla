------------------------------ MODULE DeltaApply ------------------------------
(***************************************************************************)
(* Applying a delta to a document: DeltaApplyEngine::ApplyDeltaElement     *)
(* with its sorting engines.                                               *)
(*                                                                         *)
(* A node of the document and its entry in the XID map come and go         *)
(* together, so a node is known by its XID: tree maps every registered XID *)
(* to the node's kind, label, attributes and list of children.  A delta    *)
(* and the operations in it are as in DeltaScript.                         *)
(***************************************************************************)
EXTENDS Integers, Sequences, SequencesExt, FiniteSets, FiniteSetsExt

CONSTANT None   \* no root to rename to, no attribute value

VARIABLES
  tree,          \* the document and its XID map
  top,           \* the XID of its root element
  firstFree,     \* firstAvailableXID of the document's map
  todo,          \* the delta that is applied
  moveTree,      \* the nodes registered in moveDocument's map
  parked,        \* the children of moveDocument's root
  deleteList,    \* theList of SortDeleteOperationsEngine
  insertLists,   \* insertList: for each parent, its operations by position
  count,         \* the index of the list the engine looks at, from 1
  stage

applyVars == <<tree, top, firstFree, todo, moveTree, parked, deleteList,
               insertLists, count, stage>>

Stages == {"waiting", "deletes", "inserts", "attributes", "updates", "renameRoot",
           "check", "done", "exception", "undefined"}

Kids(t, x) == Range(t[x].kids)

(* The XIDs below x, x included. *)
Below(t, x) ==
  LET below[y \in DOMAIN t] == {y} \cup UNION {below[c] : c \in Kids(t, y)}
  IN below[x]

(* The walks of the children, the last child's first. *)
LastFirst(walk, kids) ==
  LET from[k \in 0 .. Len(kids)] == IF k = 0 THEN <<>> ELSE walk[kids[k]] \o from[k - 1]
  IN from[Len(kids)]

(* A walk that meets a node before its children. *)
UnrollTopDown(t, x) ==
  LET walk[y \in DOMAIN t] == <<y>> \o LastFirst(walk, t[y].kids)
  IN walk[x]

(* The walk of unrollList: last child first, a node after its children. *)
Unroll(t, x) ==
  LET walk[y \in DOMAIN t] == LastFirst(walk, t[y].kids) \o <<y>>
  IN walk[x]

(* The elements of s at these places, in their order. *)
AtPlaces(s, places) ==
  [k \in 1 .. Cardinality(places) |->
     s[CHOOSE p \in places : Cardinality({q \in places : q <= p}) = k]]

(* Two trees with no node in common. *)
Joined(t, nodes) ==
  [y \in DOMAIN t \cup DOMAIN nodes |-> IF y \in DOMAIN t THEN t[y] ELSE nodes[y]]

(* A tree without some nodes, taken out of their parents' lists too. *)
Without(t, xids) ==
  [y \in DOMAIN t \ xids |->
     [t[y] EXCEPT !.kids = AtPlaces(@, {p \in DOMAIN @ : @[p] \notin xids})]]

-----------------------------------------------------------------------------
(***************************************************************************)
(* SortInsertOperationsEngine: one list for each parent, in the order in   *)
(* which the delta first names them, each list by position.                *)
(***************************************************************************)
SortInserts(ops) ==
  LET first == {k \in DOMAIN ops : \A h \in 1 .. (k - 1) : ops[h].par # ops[k].par}
      heads == AtPlaces(ops, first)
      OpsBelow(par) == {k \in DOMAIN ops : ops[k].par = par}
      NotAfter(h, k) == ops[h].pos < ops[k].pos \/ (ops[h].pos = ops[k].pos /\ h <= k)
      List(mine) ==
        [p \in 1 .. Cardinality(mine) |->
           ops[CHOOSE k \in mine : Cardinality({h \in mine : NotAfter(h, k)}) = p]]
  IN [l \in 1 .. Cardinality(first) |-> List(OpsBelow(heads[l].par))]

(***************************************************************************)
(* SortDeleteOperationsEngine: the delete operations in the order in which *)
(* a walk of the document meets the nodes they are about; an operation     *)
(* about a node that is not there is left out.                             *)
(***************************************************************************)
SortDeletes(ops, t, x) ==
  LET walk     == Unroll(t, x)
      About(y) == CHOOSE k \in DOMAIN ops : ops[k].xid = y
      met      == {p \in DOMAIN walk : \E k \in DOMAIN ops : ops[k].xid = walk[p]}
  IN [k \in 1 .. Cardinality(met) |-> ops[About(AtPlaces(walk, met)[k])]]

(* The engine is given a document and a delta. *)
Begin(document, root, free, delta) ==
  /\ tree' = document /\ top' = root /\ firstFree' = free
  /\ todo' = delta
  /\ moveTree' = <<>> /\ parked' = {}
  /\ deleteList' = SortDeletes(delta.deletes, document, root)
  /\ insertLists' = <<>>
  /\ count' = 1
  /\ stage' = "deletes"

Throw ==
  /\ stage' = "exception"
  /\ UNCHANGED <<tree, top, firstFree, todo, moveTree, parked, deleteList,
                 insertLists, count>>

Undefined ==
  /\ stage' = "undefined"
  /\ UNCHANGED <<tree, top, firstFree, todo, moveTree, parked, deleteList,
                 insertLists, count>>

(* What hangs below x without x. *)
CopyOfDescendants(x) == [y \in Below(tree, x) \ {x} |-> tree[y]]

(* The copy of a subtree that is made below moveDocument's root. *)
Copy(x) == [y \in Below(tree, x) |-> tree[y]]

(* The subtree is registered in moveDocument's map, but hung nowhere. *)
MoveFromWithoutParking(x) ==
  IF x \notin DOMAIN tree \/ x = top \/ Below(tree, x) \cap DOMAIN moveTree # {}
  THEN Throw
  ELSE /\ moveTree' = Joined(moveTree, Copy(x))
       /\ tree' = Without(tree, Below(tree, x))
       /\ deleteList' = Tail(deleteList)
       /\ UNCHANGED <<top, firstFree, todo, parked, insertLists, count, stage>>

(***************************************************************************)
(* Subtree_MoveFrom: the subtree is copied below moveDocument's root and   *)
(* registered there, then taken out of the document.                       *)
(***************************************************************************)
MoveFrom(x) ==
  IF x \notin DOMAIN tree \/ x = top \/ Below(tree, x) \cap DOMAIN moveTree # {}
  THEN Throw
  ELSE /\ moveTree' = Joined(moveTree, Copy(x))
       /\ parked' = parked \cup {x}
       /\ tree' = Without(tree, Below(tree, x))
       /\ deleteList' = Tail(deleteList)
       /\ UNCHANGED <<top, firstFree, todo, insertLists, count, stage>>

(* Subtree_Delete: the nodes the map names, and no others. *)
Delete(xids) ==
  IF ~(xids \subseteq DOMAIN tree)
  THEN Throw
  ELSE /\ tree' = Without(tree, xids)
       /\ deleteList' = Tail(deleteList)
       /\ UNCHANGED <<top, firstFree, todo, moveTree, parked, insertLists, count, stage>>

ApplyDelete ==
  /\ stage = "deletes" /\ deleteList # <<>>
  /\ LET op == Head(deleteList)
     IN IF op.move THEN MoveFrom(op.xid) ELSE Delete({n.xid : n \in op.content})

StartInserts ==
  /\ stage = "deletes" /\ deleteList = <<>>
  /\ insertLists' = SortInserts(todo.inserts)
  /\ stage' = "inserts"
  /\ UNCHANGED <<tree, top, firstFree, todo, moveTree, parked, deleteList, count>>

-----------------------------------------------------------------------------
Par(l) == Head(insertLists[l]).par

(* The lists getNextInsertOperation tries, from count on and around. *)
InTurn(k) == 1 + ((count - 1 + k) % Len(insertLists))

(* The first of them whose parent is in the document. *)
Ready ==
  {k \in 0 .. (Len(insertLists) - 1) :
     /\ Par(InTurn(k)) \in DOMAIN tree
     /\ \A h \in 0 .. (k - 1) : Par(InTurn(h)) \notin DOMAIN tree}

(* The operation stays in its list. *)
PopNothing(l) == insertLists

(* The operation leaves its list, an empty list the list of lists. *)
Pop(l) ==
  IF Len(insertLists[l]) = 1 THEN RemoveAt(insertLists, l)
  ELSE [insertLists EXCEPT ![l] = Tail(@)]

(* Subtree_Insert finds the place: after pos - 1 brothers. *)
Fits(par, pos) == pos <= Len(tree[par].kids) + 1

Graft(x, nodes, par, pos) ==
  LET new == Joined(tree, nodes) IN
  [new EXCEPT ![par].kids = InsertAt(@, pos, x)]

(* registerNode moves firstAvailableXID past the XIDs it sees. *)
PastXids(xids) == Max(xids \cup {firstFree - 1}) + 1

Content(op) ==
  [y \in {n.xid : n \in op.content} |->
     LET n == CHOOSE m \in op.content : m.xid = y
     IN [kind |-> n.kind, label |-> n.label, attr |-> n.attr, kids |-> n.kids]]

(* Subtree_Insert, and the operation is done. *)
Insert(op, nodes, l) ==
  IF ~Fits(op.par, op.pos) \/ DOMAIN nodes \cap DOMAIN tree # {}
  THEN Throw
  ELSE /\ tree' = Graft(op.xid, nodes, op.par, op.pos)
       /\ firstFree' = PastXids(DOMAIN nodes)
       /\ parked' = IF op.move THEN parked \ {op.xid} ELSE parked
       /\ insertLists' = Pop(l) /\ count' = l
       /\ UNCHANGED <<top, todo, moveTree, deleteList, stage>>

(* Subtree_MoveTo of a node moveDocument does not know returns quietly. *)
SkipMove(l) ==
  /\ insertLists' = Pop(l) /\ count' = l
  /\ UNCHANGED <<tree, top, firstFree, todo, moveTree, parked, deleteList, stage>>

(***************************************************************************)
(* getNextInsertOperation and the operation it returns.  Removing the list *)
(* at the end leaves count past the end, where the vector has no element.  *)
(***************************************************************************)
ApplyInsert ==
  /\ stage = "inserts" /\ insertLists # <<>>
  /\ IF count > Len(insertLists) THEN Undefined
     ELSE IF Ready = {} THEN Throw
     ELSE \E k \in Ready :
       LET l  == InTurn(k)
           op == Head(insertLists[l])
       IN IF ~op.move THEN Insert(op, Content(op), l)
          ELSE IF op.xid \notin DOMAIN moveTree THEN SkipMove(l)
          ELSE Insert(op, [y \in Below(moveTree, op.xid) |-> moveTree[y]], l)

StartOthers ==
  /\ stage = "inserts" /\ insertLists = <<>>
  /\ stage' = "attributes"
  /\ UNCHANGED <<tree, top, firstFree, todo, moveTree, parked, deleteList,
                 insertLists, count>>

-----------------------------------------------------------------------------
(***************************************************************************)
(* The remaining operations, in the order of the delta: those on           *)
(* attributes, the updates, the new name of the root.  Two of a kind       *)
(* concern different things and are done in one step.                      *)
(***************************************************************************)
ApplyAttributes ==
  /\ stage = "attributes"
  /\ IF \E a \in todo.attributes : a.xid \notin DOMAIN tree
     THEN Throw
     ELSE /\ tree' = [x \in DOMAIN tree |-> [tree[x] EXCEPT !.attr =
               [n \in DOMAIN @ |->
                  IF \E a \in todo.attributes : a.xid = x /\ a.attr = n
                  THEN (CHOOSE a \in todo.attributes : a.xid = x /\ a.attr = n).value
                  ELSE @[n]]]]
          /\ stage' = "updates"
          /\ UNCHANGED <<top, firstFree, todo, moveTree, parked, deleteList,
                         insertLists, count>>

ApplyUpdates ==
  /\ stage = "updates"
  /\ IF \E u \in todo.updates : u.xid \notin DOMAIN tree
     THEN Throw
     ELSE /\ tree' = [x \in DOMAIN tree |-> [tree[x] EXCEPT !.label =
               IF \E u \in todo.updates : u.xid = x
               THEN (CHOOSE u \in todo.updates : u.xid = x).value ELSE @]]
          /\ stage' = "renameRoot"
          /\ UNCHANGED <<top, firstFree, todo, moveTree, parked, deleteList,
                         insertLists, count>>

(* A new root element with the old one's children, attributes and XID. *)
ApplyRenameRoot ==
  /\ stage = "renameRoot"
  /\ tree' = IF todo.renameRoot.to = None THEN tree
             ELSE [tree EXCEPT ![top].label = todo.renameRoot.to]
  /\ stage' = "check"
  /\ UNCHANGED <<top, firstFree, todo, moveTree, parked, deleteList, insertLists, count>>

(* moveDocument's root must have no children left. *)
CheckMoveDocument ==
  /\ stage = "check"
  /\ stage' = IF parked = {} THEN "done" ELSE "exception"
  /\ UNCHANGED <<tree, top, firstFree, todo, moveTree, parked, deleteList,
                 insertLists, count>>

ApplyNext ==
  \/ ApplyDelete \/ StartInserts
  \/ ApplyInsert \/ StartOthers
  \/ ApplyAttributes \/ ApplyUpdates \/ ApplyRenameRoot \/ CheckMoveDocument
=============================================================================
