--------------------------- MODULE ServerFindings ---------------------------
(***************************************************************************)
(* What the documentation says of server processes, checked against what   *)
(* the handlers do.  Each property fails in the configuration that names   *)
(* it.                                                                     *)
(***************************************************************************)
EXTENDS MCServerProcesses

\* "Duplicate path prevention": no two rows have one path.  It fails when two
\* requests look for the path before either inserts its row.
NoDuplicatePath ==
  \A i, j \in Ids : rows[i].path = rows[j].path => i = j

\* "Please stop the process first": a process that runs keeps its row.  It
\* fails when the process is started after the delete has found it stopped.
RunningHasRow ==
  \A p \in Pids : procs[p] # None => \E i \in Ids : Binary[rows[i].path] = procs[p]

\* Rows nobody is working on.
Settled(i) == \A r \in Requests : i \notin {row.id : row \in Rows(r)}

\* "current uptime for running processes": the start_time it is counted from
\* is that of this run.  It fails after a health check that timed out, which
\* leaves the process running and the start_time of the run before.
CurrentUptimeIsOfThisRun ==
  \A i \in Ids : Settled(i) /\ Running(Binary[rows[i].path]) =>
    rows[i].times = <<>> \/ LastTime(rows[i]) = "start"
=============================================================================
