---------------------------- MODULE MCCalmEditing ----------------------------
(***************************************************************************)
(* Instances of CalmEditing for TLC.                                       *)
(***************************************************************************)
EXTENDS CalmEditing, TLC

CONSTANTS h1, h2, p1, p2, c1, c2, c3

DistinctFiles == [p \in Paths |-> p]

Symmetry == Permutations(Handlers) \cup Permutations(Contents)
=============================================================================
