---------------------------- MODULE DeltaReverse ----------------------------
(***************************************************************************)
(* DeltaReverse: from a delta the delta that leads back.  The code walks   *)
(* the operations and inserts each reversed one before the precedent one,  *)
(* so the reversed delta names them in the opposite order: a delete script *)
(* that takes children before parents becomes an insert script that brings *)
(* parents before children.                                                *)
(*                                                                         *)
(* A delta and its operations are as in DeltaScript.                       *)
(***************************************************************************)
EXTENDS Sequences, SequencesExt

(* Every operation at the end, after the one it followed. *)
InGivenOrder(ops) == ops

(* Every operation before the precedent one. *)
BeforePrecedent(ops) == Reverse(ops)

(* ov and nv written where they came from. *)
SameValues(a) == a

(* au: ov and nv change places; ai becomes ad and ad becomes ai. *)
SwapValues(a) ==
  [xid |-> a.xid, attr |-> a.attr, old |-> a.value, value |-> a.old]

(***************************************************************************)
(* d becomes i and i becomes d, with their par, pos, xm, move and content. *)
(***************************************************************************)
ReverseDelta(delta) ==
  [deletes    |-> BeforePrecedent(delta.inserts),
   inserts    |-> BeforePrecedent(delta.deletes),
   updates    |-> delta.updates,
   attributes |-> {SwapValues(a) : a \in delta.attributes},
   renameRoot |-> [from |-> delta.renameRoot.to, to |-> delta.renameRoot.from]]

(***************************************************************************)
(* What the code dereferences without a test: from and to of the t         *)
(* element, each XID map's counterpart when there is one, and the xid of a *)
(* u element, which the u elements of constructDeltaDocument do not have.  *)
(***************************************************************************)
Reversible(header, delta) ==
  /\ {"from", "to"} \subseteq header
  /\ "fromXidMap" \in header <=> "toXidMap" \in header
  /\ delta.updates = {}
=============================================================================
