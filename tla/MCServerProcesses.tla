-------------------------- MODULE MCServerProcesses --------------------------
(***************************************************************************)
(* Instances of ServerProcesses for TLC.                                   *)
(***************************************************************************)
EXTENDS ServerProcesses, TLC

CONSTANTS r1, r2, a, b, k1, k2

\* Every path names a program of its own.
DistinctBinaries == [p \in Paths |-> p]

NoRows == <<>>
TwoRows == <<[path |-> a, port |-> TRUE], [path |-> b, port |-> FALSE]>>

\* Starting while the table is edited, and stopping while it is edited.
Sequencing ==
  { [kinds |-> {"startAll", "start", "update", "reorder"}, alone |-> {},
     faults |-> {"scan", "file", "spawn", "slow", "db", "crash"}],
    [kinds |-> {"stopAll", "stop", "update", "delete"}, alone |-> {},
     faults |-> {"scan", "kill", "wait", "db", "die", "crash"}] }

\* Registering one by one, with reordering and without.
Registering ==
  { [kinds |-> {"create", "update", "delete", "reorder"}, alone |-> {"create", "update"},
     faults |-> {"file", "db", "crash"}],
    [kinds |-> {"create", "update", "delete", "stopAll"}, alone |-> {"create", "update"},
     faults |-> {"file", "db", "wait", "crash"}] }

\* Starting one by one, beside updates and deletions or not.
Starting ==
  { [kinds |-> {"startAll", "stop", "update"}, alone |-> {"startAll"},
     faults |-> {"slow", "die", "crash"}] }
Deleting ==
  { [kinds |-> {"start", "stop", "update", "delete"}, alone |-> {"start", "update", "delete"},
     faults |-> {"slow", "wait", "crash"}] }

\* Starting, stopping and updating one by one, with any other request beside.
Recording ==
  { [kinds |-> {"startAll", "stopAll", "update", "delete"},
     alone |-> {"startAll", "stopAll", "update"},
     faults |-> {"scan", "slow", "kill", "wait", "db", "crash"}] }

AllSettings == Sequencing \cup Registering \cup Starting \cup Deleting \cup Recording

\* Two sequences at once.
TwoSequences ==
  { [kinds |-> {"startAll", "stopAll"}, alone |-> {}, faults |-> {"slow", "kill", "wait", "die"}] }

\* For ServerFindings: requests of these kinds, without other faults.
Creating == { [kinds |-> {"create"}, alone |-> {}, faults |-> {}] }
StartAndDelete == { [kinds |-> {"start", "delete"}, alone |-> {}, faults |-> {}] }
SlowStart == { [kinds |-> {"start", "stop"}, alone |-> {"start", "stop"}, faults |-> {"slow"}] }

Symmetry == Permutations(Requests) \cup Permutations(Pids)
=============================================================================
