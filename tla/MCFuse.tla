------------------------------- MODULE MCFuse -------------------------------
(***************************************************************************)
(* FuseAdapter for TLC.  Names, contents and handles are interchangeable:  *)
(* only invariants are checked.                                            *)
(***************************************************************************)
EXTENDS FuseAdapter, TLC

Symmetry == Permutations(Uri) \cup Permutations(Content) \cup Permutations(Handle)
=============================================================================
