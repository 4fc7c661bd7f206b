---------------------------- MODULE MCThereAndBack ----------------------------
(***************************************************************************)
(* ThereAndBack on the small documents of MCRoundTrip.                     *)
(***************************************************************************)
EXTENDS MCRoundTrip, ThereAndBack

(* What constructDeltaDocument writes, and what CreateRandomScript writes. *)
MCHeaders == {{"fromXidMap"}, {"from", "to"}}
=============================================================================
