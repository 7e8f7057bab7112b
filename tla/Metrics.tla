------------------------------ MODULE Metrics ------------------------------
(***************************************************************************)
(* The metrics collector and its tables.                                   *)
(*                                                                         *)
(* A cron job measures the CPU and the memory and files every point in the *)
(* tables of names, labels, series, links and samples, with one statement  *)
(* of its own per look-up, row and link.  The cron starts a job whether or *)
(* not the last one has ended, and the agent's start runs one more, so the *)
(* rounds overlap.  A second job deletes the samples past retention.       *)
(*                                                                         *)
(* A measured percentage is abstracted to the usage it is a share of and   *)
(* the number of shares: the usage of the CPU is reported as an equal      *)
(* share for each core, and the usages of two rounds may differ.           *)
(***************************************************************************)
EXTENDS Integers, Sequences, FiniteSets

CONSTANTS
  Rounds,       \* the collection jobs that can be under way at once
  CoreCounts,   \* the numbers of cores the machine may have at a start
  Usages,       \* what a collector may measure
  Retention,    \* for how long a sample is kept
  MaxTime,      \* bound: the last second
  Faults        \* what may go wrong: "busy", "link", "crash"

ASSUME CoreAssumption ==
  /\ CoreCounts \subseteq Nat \ {0}
  /\ Retention \in Nat /\ MaxTime \in Nat
  /\ Faults \subseteq {"busy", "link", "crash"}

VARIABLES
  now,       \* the clock
  cores,     \* runtime.NumCPU()
  names,     \* table metric_names
  labels,    \* table labels: the cores that have a row
  series,    \* table metric_series, by id
  links,     \* table series_labels
  samples,   \* table metric_samples: by series and timestamp, the point stored
  pc,        \* the step each round is at
  work,      \* its locals: the collectors it waits for, the points, the series
  cutoffs    \* the cut-offs of the clean-ups under way

tables == <<names, labels, series, links, samples>>
vars   == <<now, cores, tables, pc, work, cutoffs>>

-----------------------------------------------------------------------------
(* Points.  A core is the label of a CPU point; 0 stands for no label.     *)

Metrics == {"cpu", "ram"}
Labels  == UNION {1..n : n \in CoreCounts}
Hashes  == Labels \cup {0}
Points  == [metric : Metrics, core : Hashes, ts : 0..MaxTime,
            usage : Usages, shares : CoreCounts \cup {1}]

Point(metric, core, usage, shares) ==
  [metric |-> metric, core |-> core, ts |-> now, usage |-> usage, shares |-> shares]

Measured(metric, usage) ==
  IF metric = "cpu" THEN [i \in 1..cores |-> Point("cpu", i, usage, cores)]
                    ELSE <<Point("ram", 0, usage, 1)>>

Kind(p) == [metric |-> p.metric, hash |-> p.core]
Known(kind) == \E i \in DOMAIN series : series[i] = kind
IdOf(kind)  == CHOOSE i \in DOMAIN series : series[i] = kind

-----------------------------------------------------------------------------

With(waiting, points) == [waiting |-> waiting, todo |-> points, id |-> 0]
Idle == With({}, <<>>)
Goto(r, step) == pc' = [pc EXCEPT ![r] = step]

\* The next point of the round, or its end.
NextPoint(r) ==
  IF Len(work[r].todo) = 1
  THEN Goto(r, "off") /\ work' = [work EXCEPT ![r] = Idle]
  ELSE Goto(r, "name") /\ work' = [work EXCEPT ![r] = With({}, Tail(work[r].todo))]

Init ==
  /\ now = 0 /\ cores \in CoreCounts
  /\ names = {} /\ labels = {} /\ series = <<>> /\ links = {} /\ samples = <<>>
  /\ pc = [r \in Rounds |-> "off"] /\ work = [r \in Rounds |-> Idle]
  /\ cutoffs = {}

Tick ==
  /\ now < MaxTime /\ now' = now + 1
  /\ UNCHANGED <<cores, tables, pc, work, cutoffs>>

\* A tick of the cron, or the round of the agent's start.
StartRound(r) ==
  /\ pc[r] = "off" /\ Goto(r, "collect")
  /\ work' = [work EXCEPT ![r] = With(Metrics, <<>>)]
  /\ UNCHANGED <<now, cores, tables, cutoffs>>

\* One collector's goroutine; the last one ends the wait.
Collect(r) ==
  /\ pc[r] = "collect"
  /\ \E metric \in work[r].waiting, usage \in Usages :
       /\ work' = [work EXCEPT ![r] =
                     With(@.waiting \ {metric}, @.todo \o Measured(metric, usage))]
       /\ IF work[r].waiting = {metric} THEN Goto(r, "name") ELSE UNCHANGED pc
  /\ UNCHANGED <<now, cores, tables, cutoffs>>

-----------------------------------------------------------------------------
(* InsertMetric.                                                           *)

AfterName(p) == IF p.core = 0 THEN "series" ELSE "label"

FindName(r) ==
  LET p == Head(work[r].todo) IN
  /\ pc[r] = "name"
  /\ Goto(r, IF p.metric \in names THEN AfterName(p) ELSE "newname")
  /\ UNCHANGED <<now, cores, tables, work, cutoffs>>

\* A name that came up meanwhile is an error, and the point is dropped.
NewName(r) ==
  LET p == Head(work[r].todo) IN
  /\ pc[r] = "newname"
  /\ names' = names \cup {p.metric}
  /\ IF p.metric \in names THEN NextPoint(r) ELSE Goto(r, AfterName(p)) /\ UNCHANGED work
  /\ UNCHANGED <<now, cores, labels, series, links, samples, cutoffs>>

FindLabel(r) ==
  /\ pc[r] = "label"
  /\ Goto(r, IF Head(work[r].todo).core \in labels THEN "series" ELSE "newlabel")
  /\ UNCHANGED <<now, cores, tables, work, cutoffs>>

NewLabel(r) ==
  LET p == Head(work[r].todo) IN
  /\ pc[r] = "newlabel"
  /\ labels' = labels \cup {p.core}
  /\ IF p.core \in labels THEN NextPoint(r) ELSE Goto(r, "series") /\ UNCHANGED work
  /\ UNCHANGED <<now, cores, names, series, links, samples, cutoffs>>

\* A series that is found is not linked to its label again.
FindSeries(r) ==
  LET kind == Kind(Head(work[r].todo)) IN
  /\ pc[r] = "series"
  /\ IF Known(kind)
     THEN Goto(r, "sample") /\ work' = [work EXCEPT ![r].id = IdOf(kind)]
     ELSE Goto(r, "newseries") /\ UNCHANGED work
  /\ UNCHANGED <<now, cores, tables, cutoffs>>

\* Mutant: the table has no UNIQUE (metric_id, label_hash).
NewSeriesAnyway(r) ==
  LET p == Head(work[r].todo) IN
  /\ pc[r] = "newseries"
  /\ series' = Append(series, Kind(p))
  /\ Goto(r, IF p.core = 0 THEN "sample" ELSE "link")
  /\ work' = [work EXCEPT ![r].id = Len(series')]
  /\ UNCHANGED <<now, cores, names, labels, links, samples, cutoffs>>

NewSeries(r) ==
  LET p == Head(work[r].todo) IN
  /\ pc[r] = "newseries"
  /\ IF Known(Kind(p))
     THEN NextPoint(r) /\ UNCHANGED series
     ELSE /\ series' = Append(series, Kind(p))
          /\ Goto(r, IF p.core = 0 THEN "sample" ELSE "link")
          /\ work' = [work EXCEPT ![r].id = Len(series')]
  /\ UNCHANGED <<now, cores, names, labels, links, samples, cutoffs>>

Link(r) ==
  /\ pc[r] = "link" /\ Goto(r, "sample")
  /\ links' = links \cup {<<work[r].id, Head(work[r].todo).core>>}
  /\ UNCHANGED <<now, cores, names, labels, series, samples, work, cutoffs>>

\* Mutant: the last series created is taken for the point's own.
SeriesCreatedLast(r) == Len(series)

SeriesOf(r) == work[r].id

\* Mutant: a second sample of a series in one second replaces the first one.
StoreReplacing(key, p) ==
  samples' = [k \in DOMAIN samples \cup {key} |-> IF k = key THEN p ELSE samples[k]]

\* A second sample of a series in one second is an error.
Store(key, p) ==
  samples' = [k \in DOMAIN samples \cup {key} |-> IF k \in DOMAIN samples THEN samples[k] ELSE p]

InsertSample(r) ==
  LET p == Head(work[r].todo) IN
  /\ pc[r] = "sample" /\ NextPoint(r)
  /\ Store(<<SeriesOf(r), p.ts>>, p)
  /\ UNCHANGED <<now, cores, names, labels, series, links, cutoffs>>

\* A statement fails: the point is dropped, what was written for it stays.
StatementFails(r) ==
  /\ pc[r] \notin {"off", "collect"}
  /\ IF pc[r] = "link" THEN "link" \in Faults ELSE "busy" \in Faults
  /\ NextPoint(r) /\ UNCHANGED <<now, cores, tables, cutoffs>>

Step(r) ==
  \/ Collect(r) \/ FindName(r) \/ NewName(r) \/ FindLabel(r) \/ NewLabel(r)
  \/ FindSeries(r) \/ NewSeries(r) \/ Link(r) \/ InsertSample(r) \/ StatementFails(r)

-----------------------------------------------------------------------------
(* The clean-up, and a restart.                                            *)

CleanUp ==
  /\ cutoffs' = cutoffs \cup {now - Retention}
  /\ UNCHANGED <<now, cores, tables, pc, work>>

\* Mutant: the sample of the cut-off itself is deleted too.
ExpiredInclusive(key, cutoff) == key[2] <= cutoff

Expired(key, cutoff) == key[2] < cutoff

DeleteOld(cutoff) ==
  /\ cutoff \in cutoffs /\ cutoffs' = cutoffs \ {cutoff}
  /\ samples' = [k \in {j \in DOMAIN samples : ~Expired(j, cutoff)} |-> samples[k]]
  /\ UNCHANGED <<now, cores, names, labels, series, links, pc, work>>

DeleteFails(cutoff) ==
  /\ "busy" \in Faults /\ cutoff \in cutoffs /\ cutoffs' = cutoffs \ {cutoff}
  /\ UNCHANGED <<now, cores, tables, pc, work>>

\* The agent dies, and starts on a machine with perhaps another number of cores.
Restart ==
  /\ "crash" \in Faults /\ cores' \in CoreCounts
  /\ pc' = [r \in Rounds |-> "off"] /\ work' = [r \in Rounds |-> Idle]
  /\ cutoffs' = {} /\ UNCHANGED <<now, tables>>

Next ==
  \/ Tick \/ CleanUp \/ Restart
  \/ \E r \in Rounds : StartRound(r) \/ Step(r)
  \/ \E cutoff \in cutoffs : DeleteOld(cutoff) \/ DeleteFails(cutoff)

Spec == Init /\ [][Next]_vars

\* The cron starts the clean-up for ever, and deletions do not fail for ever.
FairSpec ==
  /\ Spec
  /\ WF_vars(CleanUp)
  /\ \A cutoff \in (-Retention)..MaxTime : SF_vars(DeleteOld(cutoff))

-----------------------------------------------------------------------------
(* What the dashboard shows: getMetricsSummaryHandler on GetLatestSamples. *)

CpuLatest == {k \in DOMAIN samples :
                /\ series[k[1]].metric = "cpu"
                /\ \A j \in DOMAIN samples : j[1] = k[1] => j[2] <= k[2]}

\* The CPU card is the share of the first series times the number of series.
CpuCard ==
  LET first == CHOOSE k \in CpuLatest : \A j \in CpuLatest : k[1] <= j[1]
  IN  [share |-> samples[first].shares, times |-> {k[1] : k \in CpuLatest}]

-----------------------------------------------------------------------------
(* The charts: getMetricsChartsHandler on GetMetricSamplesByTimeRange.     *)

\* Where a chart may begin: a range is a positive number of hours, days, months
\* or years, and a number so large that its seconds wrap around 64 bits may
\* begin at any time, also after now.
Starts == (now - MaxTime)..(now + 1)

\* The samples of a metric from start on, until now.
InRange(metric, start) ==
  {k \in DOMAIN samples : series[k[1]].metric = metric /\ start <= k[2] /\ k[2] <= now}

\* aggregateCPUSamples adds up the values reported at one second: a point is the
\* number of shares of each size and of each usage.
CpuChart(start) ==
  [ts \in {k[2] : k \in InRange("cpu", start)} |->
     [n \in CoreCounts |-> [u \in Usages |->
        Cardinality({k \in InRange("cpu", start) :
                       k[2] = ts /\ samples[k].shares = n /\ samples[k].usage = u})]]]

\* Each sample is a point of its own.
RamChart(start) == InRange("ram", start)

-----------------------------------------------------------------------------
(* Properties.                                                             *)

Steps == {"off", "collect", "name", "newname", "label", "newlabel",
          "series", "newseries", "link", "sample"}

\* Every variable has its type.
TypeOK ==
  /\ now \in 0..MaxTime /\ cores \in CoreCounts
  /\ names \subseteq Metrics /\ labels \subseteq Labels
  /\ series \in Seq([metric : Metrics, hash : Hashes])
  /\ links \subseteq (DOMAIN series) \X Labels
  /\ DOMAIN samples \subseteq (DOMAIN series) \X (0..MaxTime)
  /\ \A k \in DOMAIN samples : samples[k] \in Points
  /\ pc \in [Rounds -> Steps]
  /\ work \in [Rounds -> [waiting : SUBSET Metrics, todo : Seq(Points), id : Nat]]
  /\ cutoffs \subseteq (-Retention)..MaxTime

\* A sample is in the series of its metric and label and at its own second, and
\* a series is linked to no label but its own, however the rounds overlap and
\* whatever was created while they looked.
SamplesAreFiled ==
  /\ \A k \in DOMAIN samples : /\ series[k[1]] = Kind(samples[k])
                               /\ k[2] = samples[k].ts
  /\ \A l \in links : series[l[1]].hash = l[2]

\* Two rounds that miss the same series do not create it twice.
OneSeriesEach == \A i, j \in DOMAIN series : series[i] = series[j] => i = j

\* A sample is never changed, and goes only when it is past its retention.
HistoryStands ==
  [][\A k \in DOMAIN samples : \/ k \in DOMAIN samples' /\ samples'[k] = samples[k]
                               \/ k \notin DOMAIN samples' /\ k[2] < now - Retention]_vars

\* A sample past its retention is deleted in the end, also one that was filed
\* late, after the clean-up that would have met it.
ExpiredGoAway ==
  \A i \in 1..Cardinality(Hashes), t \in 0..MaxTime :
    (<<i, t>> \in DOMAIN samples /\ t < now - Retention) ~> <<i, t>> \notin DOMAIN samples

\* The README calls the cards "showing current CPU and RAM usage" (105).  Once
\* every core of the machine has reported, the CPU card should add up their
\* shares; it also counts the series of cores that are gone since a restart.
CardIsCurrent ==
  (\A c \in 1..cores : \E k \in CpuLatest : /\ series[k[1]].hash = c
                                            /\ samples[k].shares = cores)
  => Cardinality(CpuCard.times) = CpuCard.share
=============================================================================
