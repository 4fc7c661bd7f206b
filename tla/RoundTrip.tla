------------------------------ MODULE RoundTrip ------------------------------
(***************************************************************************)
(* xydiff then xydelta: a delta is constructed from a matching of v0 and   *)
(* v1 and applied to v0.  The matching is any one with the properties that *)
(* Matching leaves it with (IsMatching): whatever the heuristics choose,   *)
(* the delta must lead from the first document to the second.  NodesManager*)
(* may leave the roots matched with other nodes than each other.  Then one *)
(* of the two tools fails, and a property that says that they do not has   *)
(* RootsMatch as its premise.                                              *)
(***************************************************************************)
EXTENDS DeltaScript, Sequences, SequencesExt

CONSTANT Inputs   \* the pairs of documents xydiff may be given

ASSUME InputsAssumption ==
  \A docs \in Inputs : IsDocument(docs[1]) /\ IsDocument(docs[2])

VARIABLES
  tree, top, firstFree, todo, moveTree, parked, deleteList, insertLists, count, stage

Apply == INSTANCE DeltaApply

applyVars == <<tree, top, firstFree, todo, moveTree, parked, deleteList,
               insertLists, count, stage>>
vars == <<scriptVars, applyVars>>

(* The two roots are matched with each other, and with nothing else. *)
RootsMatch == \A j \in Nodes(v1) : v1match[j] = Root(v0) <=> j = Root(v1)

(* The other end of a match; topdownMatch matches the roots after others. *)
PartnerOf(i) ==
  LET claims == {j \in Nodes(v1) : v1match[j] = i} IN
  IF claims = {} THEN 0
  ELSE IF Root(v1) \in claims THEN Root(v1) ELSE CHOOSE j \in claims : TRUE

ApplyInit ==
  /\ tree = <<>> /\ top = 0 /\ firstFree = 0
  /\ todo = NoDelta
  /\ moveTree = <<>> /\ parked = {}
  /\ deleteList = <<>> /\ insertLists = <<>>
  /\ count = 1
  /\ stage = "waiting"

Init ==
  /\ \E docs \in Inputs : v0 = docs[1] /\ v1 = docs[2]
  /\ v1match \in [Nodes(v1) -> 0 .. v0.n]
  /\ v0match = [i \in Nodes(v0) |-> PartnerOf(i)]
  /\ IsMatching(v0, v1, v0match, v1match)
  /\ ScriptInit
  /\ ApplyInit

(* A document as the XID-keyed tree DeltaApply works on. *)
TreeOf(d, xid) ==
  [x \in {xid[i] : i \in Nodes(d)} |->
     LET i    == CHOOSE k \in Nodes(d) : xid[k] = x
         kids == InOrder(Children(d, i))
     IN [kind |-> d.kind[i], label |-> d.label[i], attr |-> d.attr[i],
         kids |-> [k \in DOMAIN kids |-> xid[kids[k]]]]]

(***************************************************************************)
(* xydelta reads the first document again, with the XID map xydiff has     *)
(* saved beside it: nothing of v0's DOM tree that xydiff took apart.       *)
(***************************************************************************)
ReadDelta ==
  /\ pass = "written" /\ stage = "waiting"
  /\ Apply!Begin(TreeOf(v0, v0xid), v0xid[Root(v0)], v0.n + 1, delta)
  /\ UNCHANGED scriptVars

Next ==
  \/ ScriptNext /\ UNCHANGED applyVars
  \/ ReadDelta
  \/ Apply!ApplyNext /\ UNCHANGED scriptVars

Spec == Init /\ [][Next]_vars

FairSpec == Spec /\ WF_vars(Next)

-----------------------------------------------------------------------------
(* The walks of the children, the first child's first. *)
FirstLast(walk, kids) ==
  LET upTo[k \in 0 .. Len(kids)] == IF k = 0 THEN <<>> ELSE upTo[k - 1] \o walk[kids[k]]
  IN upTo[Len(kids)]

(* The nodes of a tree in postfix order. *)
Postfix(t, x) ==
  LET walk[y \in DOMAIN t] == FirstLast(walk, t[y].kids) \o <<y>>
  IN walk[x]

TypeOK ==
  /\ pass \in Passes
  /\ stage \in Apply!Stages
  /\ v1xid \in [Nodes(v1) -> Nat]
  /\ \A x \in DOMAIN tree : Apply!Kids(tree, x) \subseteq Nat
  /\ parked \subseteq DOMAIN moveTree
  /\ count \in 1 .. (Len(insertLists) + 1)
  /\ firstAvailable \in Nat /\ firstFree \in Nat

(***************************************************************************)
(* README: xydelta "can apply that delta to the first document in order to *)
(* reconstruct the second".  The two trees have the same shape, tags,      *)
(* texts and attributes; the text of a comment is not looked at.           *)
(***************************************************************************)
ReconstructsSecond ==
  stage = "done" =>
    LET result == Postfix(tree, top) IN
    /\ Len(result) = v1.n
    /\ \A j \in Nodes(v1) :
         /\ tree[result[j]].kind = v1.kind[j]
         /\ v1.kind[j] # "comment" => tree[result[j]].label = v1.label[j]
         /\ tree[result[j]].attr = v1.attr[j]
         /\ Len(tree[result[j]].kids) = Cardinality(Children(v1, j))

(***************************************************************************)
(* A node has the XID in the result that xydiff has saved for it in the    *)
(* map of the second document; a text that was updated keeps its old XID.  *)
(***************************************************************************)
XidsFollowNodes ==
  stage = "done" =>
    \A j \in Nodes(v1) :
      v1event[j] # "updateNew" => Postfix(tree, top)[j] = v1xid[j]

(* Constructing a delta never throws nor does what has no defined result. *)
ConstructionSucceeds == RootsMatch => pass \notin {"exception", "undefined"}

Failed == {pass, stage} \cap {"exception", "undefined"} # {}

(***************************************************************************)
(* When the roots are matched with each other, the delta can be            *)
(* constructed and applied: no step throws or goes where the code's        *)
(* behaviour is undefined.                                                 *)
(***************************************************************************)
NoException == RootsMatch => ~Failed

(***************************************************************************)
(* When they are not, no document comes out: two nodes claim one XID, a    *)
(* root would have to be moved or deleted, or xydelta takes out the node   *)
(* whose match is the new root and nothing brings it back.                 *)
(***************************************************************************)
WrongRootsAreNoticed == stage = "done" => RootsMatch

(***************************************************************************)
(* getNextInsertOperation never has to look for an operation whose parent  *)
(* exists and never indexes a list that was erased: the delta names a      *)
(* parent only after the operation that brings it.                         *)
(***************************************************************************)
NextParentIsThere ==
  stage = "inserts" /\ insertLists # <<>> => count = 1 /\ Apply!Par(1) \in DOMAIN tree

ParentsComeFirst == RootsMatch => NextParentIsThere

(***************************************************************************)
(* A node that has a match is at every moment in the document or below a   *)
(* node that is parked in moveDocument: no delete operation takes it.      *)
(***************************************************************************)
MatchedNodeNeverLost ==
  stage \notin {"waiting", "exception"} =>
    \A i \in Nodes(v0) : v0match[i] # 0 =>
      \/ v0xid[i] \in DOMAIN tree
      \/ \E x \in parked : v0xid[i] \in Apply!Below(moveTree, x)

(***************************************************************************)
(* lcss "computes the heaviest common subsequence, e.g. the heaviest set   *)
(* of elements that can be enumerated in the same order": of the children  *)
(* a matched node keeps, no set that is in one order in both documents     *)
(* weighs more than those that are not moved.                              *)
(***************************************************************************)
HeaviestStay ==
  LET Weight(C) == MapThenSumSet(LAMBDA c : v0.weight[c] + v1.weight[v0match[c]], C) IN
  pass = "detectUpdate" =>
    \A i \in {p \in Nodes(v0) : v0match[p] # 0} :
      LET kept == {c \in Children(v0, i) : v0event[c] \in {"nop", "weakmove"}} IN
      Cardinality(kept) < LcssLimit =>
        \A C \in SUBSET kept :
          (\A c, e \in C : c < e => v0match[c] < v0match[e]) =>
            Weight(C) <= Weight({c \in kept : v0event[c] = "nop"})

(***************************************************************************)
(* After every operation the XID map holds exactly the nodes of the        *)
(* document, each once: nothing is registered that hangs nowhere.          *)
(***************************************************************************)
MapIsTheDocument ==
  stage \notin {"waiting", "exception"} =>
    LET nodes == Postfix(tree, top) IN
    ToSet(nodes) = DOMAIN tree /\ Len(nodes) = Cardinality(DOMAIN tree)

(***************************************************************************)
(* An XID never comes back for another node: what the delta inserts has    *)
(* XIDs no node of the first document had, two by two different.           *)
(***************************************************************************)
InsertedXidsAreNew ==
  pass = "written" =>
    \A j \in Nodes(v1) : v1match[j] = 0 =>
      /\ \A i \in Nodes(v0) : v0xid[i] # v1xid[j]
      /\ \A k \in Nodes(v1) \ {j} : v1xid[k] # v1xid[j]
      /\ v1xid[j] < firstAvailable

(***************************************************************************)
(* DetectUpdate: "even if a text node is updated, a new XID will be        *)
(* allocated", and constructDeltaDocument saves the second document's map  *)
(* accordingly; the document xydelta produces then has that map.           *)
(***************************************************************************)
SavedMapDescribesResult ==
  stage = "done" => \A j \in Nodes(v1) : Postfix(tree, top)[j] = v1xid[j]

(***************************************************************************)
(* Both tools come to an end: with the second document when the roots are  *)
(* matched with each other, and with a failure when they are not.          *)
(***************************************************************************)
Termination == <>(IF RootsMatch THEN stage = "done" ELSE Failed)
=============================================================================
