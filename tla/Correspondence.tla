--------------------------- MODULE Correspondence ---------------------------
(***************************************************************************)
(* What the delta construction relies on in a matching, however it comes   *)
(* about: pairs of an old and a new node are only ever added, between      *)
(* nodes that are free and between which no operation is needed.  The      *)
(* roots are the one exception: v1's root may take v0's root unasked.      *)
(***************************************************************************)
EXTENDS Document

CONSTANT Inputs   \* the pairs of documents that may be compared

VARIABLES
  v0, v1,   \* the two documents
  pairs,    \* the pairs of a v0 and a v1 node found so far
  done      \* no more will come

vars == <<v0, v1, pairs, done>>

Init ==
  /\ \E docs \in Inputs : v0 = docs[1] /\ v1 = docs[2]
  /\ pairs = {}
  /\ done = FALSE

(* One tag and one identifier, one kind, and for texts one value. *)
MayPair(i, j) ==
  /\ OwnHash(v0, i) = OwnHash(v1, j)
  /\ v0.kind[i] = v1.kind[j]
  /\ v1.kind[j] = "text" => v0.label[i] = v1.label[j]

(* Any number of pairs at once, none of which shares a node with another. *)
Claim ==
  /\ pairs \subseteq pairs' /\ pairs' \subseteq Nodes(v0) \X Nodes(v1)
  /\ \A p \in pairs' \ pairs :
       /\ MayPair(p[1], p[2])
       /\ \A q \in pairs' \ {p} : q[1] # p[1] /\ q[2] # p[2]

ClaimRoots ==
  /\ \A p \in pairs : p[2] # Root(v1)
  /\ pairs' = pairs \cup {<<Root(v0), Root(v1)>>}

(* At the end v1's root has a match: v0's root or one of an earlier claim. *)
Next ==
  /\ ~done
  /\ Claim \/ ClaimRoots
  /\ done' \in BOOLEAN
  /\ done' => \E p \in pairs' : p[2] = Root(v1)
  /\ UNCHANGED <<v0, v1>>

Spec == Init /\ [][Next]_vars
=============================================================================
