---------------------------- MODULE MCLogFiles ----------------------------
(***************************************************************************)
(* Instances of LogFiles for TLC.                                          *)
(***************************************************************************)
EXTENDS LogFiles, TLC

Symmetry == Permutations(Writers) \cup Permutations(Handles)
=============================================================================
