--------------------------- MODULE MCFileRevisions ---------------------------
(***************************************************************************)
(* Instances of FileRevisions for TLC.                                     *)
(***************************************************************************)
EXTENDS FileRevisions, TLC

CONSTANTS h1, h2, p1, p2, c1, c2

\* One file id per path, as on a file system that ignores case.
DistinctFiles == [p \in Paths |-> p]

Symmetry == Permutations(Handlers) \cup Permutations(Contents)
=============================================================================
