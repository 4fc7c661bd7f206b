----------------------------- MODULE DeltaScript -----------------------------
(***************************************************************************)
(* From a matching to a delta: DeltaConstructor::constructDeltaDocument    *)
(* with the marking passes of NodesManager that it calls.  Each pass walks *)
(* one whole tree without looking outside what earlier passes left, and is *)
(* one action.                                                             *)
(*                                                                         *)
(* Nodes are named by their XIDs in the script.  An operation of the delta *)
(* is a record; a subtree that travels in an operation is a set of nodes   *)
(* [xid, kind, label, attr, kids].  An i and a d element carry the same:   *)
(* the node, the place it has or had, and the nodes that come or go (xm    *)
(* and the content), or nothing but the node when it is moved.             *)
(***************************************************************************)
EXTENDS Document, CommonSubsequence

CONSTANT LcssLimit   \* sequences with fewer children go to lcss (99 in the code)

VARIABLES
  v0, v1,             \* the registered documents
  v0match, v1match,   \* their myMatchID fields
  v0event, v1event,   \* their myEvent fields
  v0xid, v1xid,       \* the XID maps of the two documents (0: not registered)
  firstAvailable,     \* firstAvailableXID of v0's map
  pass,               \* the next pass of constructDeltaDocument
  delta               \* the delta so far

scriptVars == <<v0, v1, v0match, v1match, v0event, v1event, v0xid, v1xid,
                firstAvailable, pass, delta>>

matched == <<v0, v1, v0match, v1match>>

Passes == {"markOldTree", "markNewTree", "computeWeakMove", "detectUpdate",
           "attributes", "deletes", "inserts", "renameRoot", "written", "exception",
           "undefined"}

Moves == {"strongmove", "weakmove"}

v0Assigned(i) == v0match[i] # 0
v1Assigned(j) == v1match[j] # 0

(* Nodes of one document, by rising rank. *)
Ranked(nodes, Rank(_)) ==
  [k \in 1 .. Cardinality(nodes) |->
     CHOOSE a \in nodes : Cardinality({b \in nodes : Rank(b) <= Rank(a)}) = k]

InOrder(nodes) == Ranked(nodes, LAMBDA a : a)

NoDelta == [deletes |-> <<>>, inserts |-> <<>>, updates |-> {},
            attributes |-> {}, renameRoot |-> [from |-> None, to |-> None]]

(* addXidMap without a map: the XIDs (1-n|n+1). *)
DefaultXids(d) == [i \in Nodes(d) |-> i]

ScriptInit ==
  /\ v0event = [i \in Nodes(v0) |-> "nop"]
  /\ v1event = [j \in Nodes(v1) |-> "nop"]
  /\ v0xid = DefaultXids(v0)
  /\ v1xid = [j \in Nodes(v1) |-> 0]
  /\ firstAvailable = v0.n + 1
  /\ pass = "markOldTree"
  /\ delta = NoDelta

-----------------------------------------------------------------------------
(* A node whose parent is not the match of its match's parent. *)
v0StrongMove(i) ==
  /\ v0.parent[i] # 0
  /\ \/ ~v0Assigned(v0.parent[i])
     \/ v0match[v0.parent[i]] # v1.parent[v0match[i]]

(* A new parent that has no match itself is overlooked. *)
MoveBetweenMatchesOnly(j) ==
  /\ v1.parent[j] # 0 /\ v1Assigned(v1.parent[j])
  /\ v1match[v1.parent[j]] # v0.parent[v1match[j]]

v1StrongMove(j) ==
  /\ v1.parent[j] # 0
  /\ \/ ~v1Assigned(v1.parent[j])
     \/ v1match[v1.parent[j]] # v0.parent[v1match[j]]

MarkOldTree ==
  /\ pass = "markOldTree" /\ pass' = "markNewTree"
  /\ v0event' = [i \in Nodes(v0) |->
       IF ~v0Assigned(i) THEN "deleted"
       ELSE IF v0StrongMove(i) THEN "strongmove" ELSE "nop"]
  /\ UNCHANGED <<matched, v1event, v0xid, v1xid, firstAvailable, delta>>

(* The nodes of v1 that get a new XID, in the order they get it. *)
Inserted == {j \in Nodes(v1) : ~v1Assigned(j)}

(* XIDs of deleted nodes given out again. *)
RecycledXid(j) ==
  LET deleted == {v0xid[i] : i \in {k \in Nodes(v0) : ~v0Assigned(k)}}
      rank    == Cardinality({k \in Inserted : k <= j})
  IN IF rank > Cardinality(deleted) THEN firstAvailable + rank
     ELSE CHOOSE x \in deleted : Cardinality({y \in deleted : y <= x}) = rank

NewXid(j) == firstAvailable + Cardinality({k \in Inserted : k < j})

(***************************************************************************)
(* registerNode throws when an XID is registered a second time: when two   *)
(* nodes of v1 claim one node of v0.                                       *)
(***************************************************************************)
MarkNewTree ==
  /\ pass = "markNewTree"
  /\ v1event' = [j \in Nodes(v1) |->
       IF ~v1Assigned(j) THEN "inserted"
       ELSE IF v1StrongMove(j) THEN "strongmove" ELSE "nop"]
  /\ v1xid' = [j \in Nodes(v1) |->
       IF v1Assigned(j) THEN v0xid[v1match[j]] ELSE NewXid(j)]
  /\ firstAvailable' = firstAvailable + Cardinality(Inserted)
  /\ pass' = IF \E j, k \in Nodes(v1) : j # k /\ v1xid'[j] = v1xid'[k]
             THEN "exception" ELSE "computeWeakMove"
  /\ UNCHANGED <<matched, v0event, v0xid, delta>>

(***************************************************************************)
(* The children of node i of v0 that stay below the match of i, in the old *)
(* and in the new order, under their old numbers.                          *)
(***************************************************************************)
OriginalSequence(i) ==
  LET stay == InOrder({c \in Children(v0, i) : v0event[c] = "nop"})
  IN [k \in DOMAIN stay |-> [data |-> stay[k], weight |-> v0.weight[stay[k]]]]

(* The new order under the new numbers. *)
FinalSequenceOfNewNumbers(i) ==
  LET stay == InOrder({c \in Children(v1, v0match[i]) : v1event[c] = "nop"})
  IN [k \in DOMAIN stay |-> [data |-> stay[k], weight |-> v1.weight[stay[k]]]]

FinalSequence(i) ==
  LET stay == InOrder({c \in Children(v1, v0match[i]) : v1event[c] = "nop"})
  IN [k \in DOMAIN stay |-> [data |-> v1match[stay[k]], weight |-> v1.weight[stay[k]]]]

(* Children that only changed places are not moved. *)
NothingMovesWithin(i) == {c \in Children(v0, i) : v0event[c] = "nop"}

KeptInPlace(i) ==
  IF Len(OriginalSequence(i)) < LcssLimit
  THEN Lcss(OriginalSequence(i), FinalSequence(i))
  ELSE EasyCss(OriginalSequence(i), FinalSequence(i))

WeakMoves ==
  UNION {{c \in Children(v0, i) : v0event[c] = "nop"} \ KeptInPlace(i) :
         i \in {p \in Nodes(v0) : v0Assigned(p) /\ Children(v0, p) # {}}}

ComputeWeakMove ==
  /\ pass = "computeWeakMove" /\ pass' = "detectUpdate"
  /\ v0event' = [i \in Nodes(v0) |-> IF i \in WeakMoves THEN "weakmove" ELSE v0event[i]]
  /\ v1event' = [j \in Nodes(v1) |->
       IF \E i \in WeakMoves : v0match[i] = j THEN "weakmove" ELSE v1event[j]]
  /\ UNCHANGED <<matched, v0xid, v1xid, firstAvailable, delta>>

(* The text that is all a node contains, if it is free. *)
LoneText(d, free, i) ==
  {c \in Children(d, i) : Children(d, i) = {c} /\ d.kind[c] = "text" /\ c \in free}

(* Free lone texts of two matched nodes: an old value and its new value. *)
Updates ==
  UNION {LoneText(v0, {c \in Nodes(v0) : ~v0Assigned(c)}, i)
         \X LoneText(v1, {c \in Nodes(v1) : ~v1Assigned(c)}, v0match[i]) :
         i \in {p \in Nodes(v0) : v0Assigned(p)}}

DetectUpdate ==
  /\ pass = "detectUpdate" /\ pass' = "attributes"
  /\ v0event' = [i \in Nodes(v0) |->
       IF \E u \in Updates : u[1] = i THEN "updateOld" ELSE v0event[i]]
  /\ v1event' = [j \in Nodes(v1) |->
       IF \E u \in Updates : u[2] = j THEN "updateNew" ELSE v1event[j]]
  /\ UNCHANGED <<matched, v0xid, v1xid, firstAvailable, delta>>

-----------------------------------------------------------------------------
(***************************************************************************)
(* The ai, au and ad operations: what has to happen to an attribute of a   *)
(* matched element.  A value None stands for its deletion.                 *)
(***************************************************************************)
AddAttributeOperations ==
  /\ pass = "attributes" /\ pass' = "deletes"
  /\ delta' = [delta EXCEPT !.attributes =
       {[xid |-> v1xid[p[1]], attr |-> p[2],
         old |-> v0.attr[v1match[p[1]]][p[2]], value |-> v1.attr[p[1]][p[2]]] :
        p \in {q \in Nodes(v1) \X AttrName :
                 /\ v1Assigned(q[1]) /\ v1.kind[q[1]] = "element"
                 /\ v1.attr[q[1]][q[2]] # v0.attr[v1match[q[1]]][q[2]]}}]
  /\ UNCHANGED <<matched, v0event, v1event, v0xid, v1xid, firstAvailable>>

(***************************************************************************)
(* The nodes of the subtree of i that are still there when i is reached by *)
(* ConstructDeleteScript: the moved ones have been taken out by then.      *)
(***************************************************************************)
Remaining(i) ==
  {k \in Subtree(v0, i) :
     \A m \in Subtree(v0, i) \ {i} : v0event[m] \in Moves => k \notin Subtree(v0, m)}

(* What goes to another parent is only brought there, not taken away. *)
v0ScriptedUnlessStrong(i) ==
  \/ v0event[i] = "weakmove"
  \/ v0event[i] = "deleted"
     /\ (v0.parent[i] = 0 \/ v0event[v0.parent[i]] # "deleted")

v0Scripted(i) ==
  \/ v0event[i] \in Moves
  \/ v0event[i] = "deleted"
     /\ (v0.parent[i] = 0 \/ v0event[v0.parent[i]] # "deleted")

(* Last children first, a node after its children. *)
DeleteRank(i) == -PrefixRank(v0, i)

(* A node of document d as the part of the operation made of nodes. *)
NodeIn(d, xid, i, nodes) ==
  LET kids == InOrder(Children(d, i) \cap nodes) IN
  [xid |-> xid[i], kind |-> d.kind[i], label |-> d.label[i], attr |-> d.attr[i],
   kids |-> [k \in DOMAIN kids |-> xid[kids[k]]]]

DeleteOperation(i) ==
  [move    |-> v0event[i] \in Moves,
   xid     |-> v0xid[i],
   par     |-> v0xid[v0.parent[i]],
   pos     |-> Position(v0, i),
   content |-> IF v0event[i] \in Moves THEN {}
               ELSE {NodeIn(v0, v0xid, k, Remaining(i)) : k \in Remaining(i)}]

(***************************************************************************)
(* ConstructDeleteScript.  The par attribute of an operation is the XID of *)
(* the node's parent; the document above the root has none, so an          *)
(* operation on the root throws.                                           *)
(***************************************************************************)
ConstructDeleteScript ==
  /\ pass = "deletes"
  /\ IF v0Scripted(Root(v0))
     THEN pass' = "exception" /\ UNCHANGED delta
     ELSE /\ pass' = "inserts"
          /\ delta' = [delta EXCEPT
               !.deletes =
                 LET order == Ranked({i \in Nodes(v0) : v0Scripted(i)}, DeleteRank)
                 IN [k \in DOMAIN order |-> DeleteOperation(order[k])],
               !.updates =
                 {[xid |-> v0xid[i], par |-> v0xid[v0.parent[i]], value |-> v0.label[i]] :
                  i \in {k \in Nodes(v0) : v0event[k] = "updateOld"}}]
  /\ UNCHANGED <<matched, v0event, v1event, v0xid, v1xid, firstAvailable>>

(* deltaDoc_ImportInsertTree: the new nodes below j reached through new ones. *)
Imported(j) ==
  {k \in Subtree(v1, j) :
     \A m \in Subtree(v1, j) : k \in Subtree(v1, m) => v1event[m] \in {"inserted", "updateNew"}}

v1Scripted(j) ==
  \/ v1event[j] \in Moves
  \/ v1event[j] = "inserted"
     /\ (v1.parent[j] = 0 \/ v1event[v1.parent[j]] # "inserted")

(* Children before the node they go below. *)
InsertRankBottomUp(j) == j

(* A node before its children, first children first. *)
InsertRank(j) == PrefixRank(v1, j)

InsertOperation(j) ==
  [move    |-> v1event[j] \in Moves,
   xid     |-> v1xid[j],
   par     |-> v1xid[v1.parent[j]],
   pos     |-> Position(v1, j),
   content |-> IF v1event[j] \in Moves THEN {}
               ELSE {NodeIn(v1, v1xid, k, Imported(j)) : k \in Imported(j)}]

(* The u element a new text belongs to is found by its parent's XID. *)
UpdateOf(j) == {u \in delta.updates : u.par = v1xid[v1.parent[j]]}

NewTexts == {j \in Nodes(v1) : v1event[j] = "updateNew"}

(***************************************************************************)
(* ConstructInsertScript: a node before its children, first children       *)
(* first.  A new text completes the u element of the old one.  The code    *)
(* throws when there is no u element at all and uses a pointer it has not  *)
(* set when there are only others.                                         *)
(* constructDeltaDocument then throws when a move or an update has only    *)
(* one end.                                                                *)
(***************************************************************************)
ConstructInsertScript ==
  /\ pass = "inserts"
  /\ IF v1Scripted(Root(v1)) \/ (NewTexts # {} /\ delta.updates = {})
     THEN pass' = "exception" /\ UNCHANGED delta
     ELSE IF \E j \in NewTexts : UpdateOf(j) = {}
     THEN pass' = "undefined" /\ UNCHANGED delta
     ELSE /\ delta' = [delta EXCEPT
               !.inserts =
                 LET order == Ranked({j \in Nodes(v1) : v1Scripted(j)}, InsertRank)
                 IN [k \in DOMAIN order |-> InsertOperation(order[k])],
               !.updates =
                 {[p[1] EXCEPT !.value = v1.label[p[2]]] :
                  p \in {q \in delta.updates \X NewTexts : q[1] \in UpdateOf(q[2])}}]
          /\ pass' = IF /\ Cardinality({i \in Nodes(v0) : v0event[i] \in Moves})
                           = Cardinality({j \in Nodes(v1) : v1event[j] \in Moves})
                        /\ Cardinality(delta.updates) = Cardinality(NewTexts)
                     THEN "renameRoot" ELSE "exception"
  /\ UNCHANGED <<matched, v0event, v1event, v0xid, v1xid, firstAvailable>>

AddRenameRoot ==
  /\ pass = "renameRoot" /\ pass' = "written"
  /\ delta' = IF v0.label[Root(v0)] = v1.label[Root(v1)] THEN delta
              ELSE [delta EXCEPT !.renameRoot =
                      [from |-> v0.label[Root(v0)], to |-> v1.label[Root(v1)]]]
  /\ UNCHANGED <<matched, v0event, v1event, v0xid, v1xid, firstAvailable>>

ScriptNext ==
  \/ MarkOldTree \/ MarkNewTree \/ ComputeWeakMove \/ DetectUpdate
  \/ AddAttributeOperations \/ ConstructDeleteScript \/ ConstructInsertScript
  \/ AddRenameRoot
=============================================================================
