----------------------------- MODULE MCXidFiles -----------------------------
(***************************************************************************)
(* XidFiles on a few files.                                                *)
(***************************************************************************)
EXTENDS XidFiles

FileSymmetry == Permutations(File)
=============================================================================
