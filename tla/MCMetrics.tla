----------------------------- MODULE MCMetrics -----------------------------
(***************************************************************************)
(* Metrics for TLC.  A machine of two cores is followed through its first  *)
(* second, one of a single core for longer.                                *)
(***************************************************************************)
EXTENDS Metrics, TLC

CONSTANTS r1, r2

Symmetry == Permutations(Rounds)

\* The seconds of which a core's point was dropped: a statement failed, another
\* round inserted the row first or stored another usage for that core, or the
\* agent died.  With a single core there is nothing else at that second to be
\* told apart from, and it is not recorded.
VARIABLE lost

Shares(r)    == {i \in DOMAIN work[r].todo : work[r].todo[i].metric = "cpu"}
SecondsOf(r) == {work[r].todo[i].ts : i \in Shares(r)}

\* The point that is filed, if it is not refused for one of another usage.
Stored(r) ==
  LET p == Head(work[r].todo)
  IN  InsertSample(r) /\ samples'[<<SeriesOf(r), p.ts>>].usage = p.usage

LostBy(r) ==
  IF \/ cores = 1
     \/ Len(work'[r].todo) >= Len(work[r].todo)
     \/ Head(work[r].todo).metric # "cpu" \/ Stored(r)
  THEN {} ELSE {Head(work[r].todo).ts}

MCInit == Init /\ lost = {}

\* The machine keeps its cores over a restart.
LostNext ==
  \/ (Tick \/ CleanUp) /\ UNCHANGED lost
  \/ Restart /\ cores' = cores
     /\ lost' = IF cores = 1 THEN {} ELSE lost \cup UNION {SecondsOf(r) : r \in Rounds}
  \/ \E r \in Rounds : \/ StartRound(r) /\ UNCHANGED lost
                       \/ Step(r) /\ lost' = lost \cup LostBy(r)
  \/ \E cutoff \in cutoffs : (DeleteOld(cutoff) \/ DeleteFails(cutoff)) /\ UNCHANGED lost

LostSpec == MCInit /\ [][LostNext]_<<vars, lost>>

\* Bounds: time passes on a machine of a single core only, and a round measures
\* one usage, named after it, whenever it runs.
MCNext ==
  /\ LostNext
  /\ now' # now => cores = 1
  /\ \A r \in Rounds : \A i \in DOMAIN work'[r].todo : work'[r].todo[i].usage = r
MCSpec == MCInit /\ [][MCNext]_<<vars, lost>>

\* A second that the CPU chart may show in part, or mixed from two rounds: it is
\* past retention and may be half deleted, a point of it was dropped or refused,
\* or a round is still filing it.
InDoubt(ts) ==
  \/ ts < now - Retention \/ ts \in lost
  \/ \E r \in Rounds : ts \in SecondsOf(r)

\* All shares of one usage.
Whole(n, usage) ==
  [m \in CoreCounts |-> [u \in Usages |-> IF m = n /\ u = usage THEN n ELSE 0]]

\* A point of the CPU chart is what one round measured, all of it and nothing
\* else, although its shares are filed one by one and another round may file
\* those of the same second in between, unless the second is in doubt; no usage
\* counts more than once.  The RAM chart has one point a second.
ChartsAddUp ==
  \A start \in Starts : LET chart == CpuChart(start) IN
    /\ \A ts \in DOMAIN chart :
         /\ \A n \in CoreCounts, u \in Usages : chart[ts][n][u] <= n
         /\ InDoubt(ts) \/ \E n \in CoreCounts, u \in Usages : chart[ts] = Whole(n, u)
    /\ \A j, k \in RamChart(start) : j[2] = k[2] => j = k
=============================================================================
