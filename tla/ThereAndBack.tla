----------------------------- MODULE ThereAndBack -----------------------------
(***************************************************************************)
(* xydelta forth, then DeltaApplyEngine::ApplyDelta(delta, 1) back: the    *)
(* delta of RoundTrip is applied to the first document, reversed, and the  *)
(* reversed one applied to what came out.                                  *)
(***************************************************************************)
EXTENDS RoundTrip

CONSTANT Headers   \* sets of attributes the t element of a delta may carry

VARIABLES
  header,   \* the attributes of the delta's t element
  way       \* "forth" or "back"

Back == INSTANCE DeltaReverse

backVars == <<header, way>>

TwoWayInit ==
  /\ Init
  /\ header \in Headers
  /\ way = "forth"

(***************************************************************************)
(* The last unit of the delta file is reversed and given to an engine that *)
(* has a move document of its own and the document as it now is.           *)
(***************************************************************************)
TurnBack ==
  /\ way = "forth" /\ stage = "done"
  /\ way' = "back"
  /\ IF Back!Reversible(header, delta)
     THEN Apply!Begin(tree, top, firstFree, Back!ReverseDelta(delta))
     ELSE Apply!Undefined
  /\ UNCHANGED <<scriptVars, header>>

TwoWayNext ==
  \/ Next /\ UNCHANGED backVars
  \/ TurnBack

TwoWaySpec == TwoWayInit /\ [][TwoWayNext]_<<vars, backVars>>

FairTwoWaySpec == TwoWaySpec /\ WF_<<vars, backVars>>(TwoWayNext)

-----------------------------------------------------------------------------
(***************************************************************************)
(* The first half: README, "apply that delta to the first document in      *)
(* order to reconstruct the second".                                       *)
(***************************************************************************)
ForthRebuildsSecond == way = "forth" => ReconstructsSecond

(***************************************************************************)
(* Its nodes then have the XIDs the delta and the map that xydiff saved    *)
(* gave them, the text of an update its old one.                           *)
(***************************************************************************)
ForthKeepsXids == way = "forth" => XidsFollowNodes

(***************************************************************************)
(* The delta describes both directions: the reversed delta rebuilds the    *)
(* first document, and every node has its old XID again, the deleted ones  *)
(* included.                                                               *)
(***************************************************************************)
ReverseRebuildsFirst ==
  way = "back" /\ stage = "done" => tree = TreeOf(v0, v0xid)

(***************************************************************************)
(* A delta that can be reversed can be applied backwards: no operation of  *)
(* the reversed delta throws, and its insert operations come in an order   *)
(* in which every parent is there.                                         *)
(***************************************************************************)
WayBackIsSafe ==
  way = "back" /\ Back!Reversible(header, delta) =>
    stage \notin {"exception", "undefined"} /\ NextParentIsThere

(***************************************************************************)
(* The way back is gone to its end: getNextInsertOperation runs out of     *)
(* operations there too.                                                   *)
(***************************************************************************)
WayBackEnds ==
  (way = "forth" /\ stage = "done" /\ Back!Reversible(header, delta))
    ~> (way = "back" /\ stage = "done")
===============================================================================
