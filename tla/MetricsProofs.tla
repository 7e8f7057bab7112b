--------------------------- MODULE MetricsProofs ---------------------------
(***************************************************************************)
(* Safety of the metrics tables for every number of overlapping rounds,    *)
(* every history of core counts, and every failure.                        *)
(***************************************************************************)
EXTENDS MCMetrics, FiniteSetTheorems, TLAPS

-----------------------------------------------------------------------------
(* The inductive invariant.                                                *)

Kinds   == [metric : Metrics, hash : Hashes]
Locals  == [waiting : SUBSET Metrics, todo : Seq(Points), id : Nat]
Filing  == Steps \ {"off", "collect"}

\* What round r knows about the point it is filing.
AtWork(r) ==
  /\ pc[r] \in Filing => work[r].todo # <<>>
  /\ pc[r] \in {"label", "newlabel", "link"} => Head(work[r].todo).core # 0
  /\ pc[r] \in {"link", "sample"} => /\ work[r].id \in DOMAIN series
                                     /\ series[work[r].id] = Kind(Head(work[r].todo))

\* A cut-off under way is no later than one computed now.
CutoffsArePast == \A c \in cutoffs : c <= now - Retention

IInv ==
  /\ TypeOK /\ SamplesAreFiled /\ OneSeriesEach /\ CutoffsArePast
  /\ \A r \in Rounds : AtWork(r)

-----------------------------------------------------------------------------
(* Points and series.                                                      *)

LEMMA Typing ==
  ASSUME CoreAssumption
  PROVE  /\ Labels \subseteq Nat \ {0} /\ Hashes = Labels \cup {0}
         /\ \A n \in CoreCounts : n \in Nat /\ n >= 1 /\ 1..n \subseteq Labels
  BY CoreAssumption DEF Labels, Hashes

\* A collector reports at least one point.
LEMMA Reports ==
  ASSUME TypeOK, NEW metric \in Metrics, NEW usage \in Usages
  PROVE  Measured(metric, usage) \in Seq(Points) /\ Measured(metric, usage) # <<>>
  <1>1. /\ cores \in Nat /\ cores >= 1 /\ 1..cores \subseteq Labels
        /\ cores \in CoreCounts /\ now \in 0..MaxTime
    BY Typing, CoreAssumption DEF TypeOK
  <1>2. CASE metric = "cpu"
    <2>1. \A i \in 1..cores : Point("cpu", i, usage, cores) \in Points
      BY <1>1 DEF Point, Points, Metrics, Hashes
    <2>2. Measured(metric, usage) = [i \in 1..cores |-> Point("cpu", i, usage, cores)]
      BY <1>2 DEF Measured
    <2> DEFINE m == [i \in 1..cores |-> Point("cpu", i, usage, cores)]
    <2>3. m \in Seq(Points) /\ Len(m) = cores
      BY <1>1, <2>1
    <2>4. QED
      BY <1>1, <2>2, <2>3
  <1>3. CASE metric # "cpu"
    <2>1. Point("ram", 0, usage, 1) \in Points
      BY <1>1 DEF Point, Points, Metrics, Hashes
    <2>2. Measured(metric, usage) = <<Point("ram", 0, usage, 1)>>
      BY <1>3 DEF Measured
    <2>3. QED
      BY <2>1, <2>2
  <1>4. QED
    BY <1>2, <1>3

LEMMA KindTyped ==
  ASSUME NEW p \in Points
  PROVE  Kind(p) \in Kinds /\ p.core \in Hashes /\ p.metric \in Metrics /\ p.ts \in 0..MaxTime
  BY DEF Kind, Kinds, Points

\* The point a round is filing, and the points after it.
LEMMA HeadTyped ==
  ASSUME NEW s \in Seq(Points), s # <<>>
  PROVE  /\ Head(s) \in Points /\ Tail(s) \in Seq(Points)
         /\ Len(s) # 1 => Tail(s) # <<>>
  <1>1. Len(s) \in Nat /\ Len(s) >= 1
    OBVIOUS
  <1>2. Head(s) \in Points /\ Tail(s) \in Seq(Points)
    BY <1>1
  <1>3. ASSUME Len(s) # 1 PROVE Tail(s) # <<>>
    <2>1. Len(Tail(s)) = Len(s) - 1 /\ Len(s) - 1 # 0
      BY <1>1, <1>3
    <2>2. Len(<<>>) = 0
      OBVIOUS
    <2>3. QED
      BY <1>1, <1>3, <2>1, <2>2, Zenon
  <1>4. QED
    BY <1>2, <1>3

\* A round goes on to the next point with a point at hand.
LEMMA NextPointKeeps ==
  ASSUME TypeOK, NEW r \in Rounds, pc[r] \in Filing, AtWork(r), NextPoint(r)
  PROVE  /\ pc' \in [Rounds -> Steps] /\ work' \in [Rounds -> Locals]
         /\ pc'[r] \in {"off", "name"}
         /\ pc'[r] = "name" => work'[r].todo # <<>>
         /\ \A q \in Rounds \ {r} : pc'[q] = pc[q] /\ work'[q] = work[q]
  <1>1. work \in [Rounds -> Locals] /\ pc \in [Rounds -> Steps]
    BY DEF TypeOK, Locals
  <1>2. work[r].todo \in Seq(Points) /\ work[r].todo # <<>>
    BY <1>1 DEF AtWork, Locals
  <1>3. Idle \in Locals
    BY DEF Idle, With, Locals
  <1>4. CASE Len(work[r].todo) = 1
    BY <1>1, <1>3, <1>4 DEF NextPoint, Goto, Steps
  <1>5. CASE Len(work[r].todo) # 1
    <2> DEFINE w == With({}, Tail(work[r].todo))
    <2>1. pc' = [pc EXCEPT ![r] = "name"] /\ work' = [work EXCEPT ![r] = w]
      BY <1>5 DEF NextPoint, Goto
    <2>2. Tail(work[r].todo) \in Seq(Points) /\ Tail(work[r].todo) # <<>>
      BY <1>2, <1>5, HeadTyped
    <2>3. w \in Locals /\ w.todo # <<>>
      BY <2>2 DEF With, Locals
    <2> HIDE DEF w
    <2>4. QED
      BY <1>1, <2>1, <2>3 DEF Steps
  <1>6. QED
    BY <1>4, <1>5

-----------------------------------------------------------------------------
(* Steps of a round.                                                       *)

LEMMA Initial == Init => IInv
  BY CoreAssumption DEF Init, IInv, TypeOK, SamplesAreFiled, OneSeriesEach, CutoffsArePast,
     AtWork, Filing, Steps, Idle, With

\* A round that moves on keeps its own knowledge and leaves the others alone.
MovesOn(r) ==
  /\ pc' \in [Rounds -> Steps] /\ work' \in [Rounds -> Locals]
  /\ \A q \in Rounds \ {r} : pc'[q] = pc[q] /\ work'[q] = work[q]
  /\ AtWork(r)'

\* The point a round is filing.
LEMMA PointAtHand ==
  ASSUME IInv, NEW r \in Rounds
  PROVE  /\ pc \in [Rounds -> Steps] /\ work \in [Rounds -> Locals]
         /\ pc[r] \in Filing => /\ Head(work[r].todo) \in Points
                                /\ work[r].todo \in Seq(Points) /\ work[r].todo # <<>>
  BY HeadTyped DEF IInv, TypeOK, Locals, AtWork

\* As long as series are only added, the other rounds' series stay.
LEMMA OthersStay ==
  ASSUME IInv, NEW r \in Rounds, MovesOn(r),
         series' = series \/ \E k : series' = Append(series, k)
  PROVE  \A q \in Rounds : AtWork(q)'
  <1>1. SUFFICES ASSUME NEW q \in Rounds \ {r} PROVE AtWork(q)'
    BY DEF MovesOn
  <1>2. AtWork(q) /\ pc'[q] = pc[q] /\ work'[q] = work[q]
    BY DEF MovesOn, IInv
  <1>3. series \in Seq(Kinds)
    BY DEF IInv, TypeOK, Kinds
  <1>4. \A i \in DOMAIN series : i \in DOMAIN series' /\ series'[i] = series[i]
    BY <1>3
  <1>5. QED
    BY <1>2, <1>4 DEF AtWork

\* A step that changes no series, link or sample.
LEMMA LocalStep ==
  ASSUME IInv, NEW r \in Rounds, MovesOn(r),
         UNCHANGED <<now, cores, series, links, samples, cutoffs>>,
         names' \subseteq Metrics, labels' \subseteq Labels
  PROVE  IInv'
  <1>1. \A q \in Rounds : AtWork(q)'
    BY OthersStay
  <1>2. TypeOK'
    BY DEF IInv, TypeOK, MovesOn, Locals
  <1>3. QED
    BY <1>1, <1>2 DEF IInv, SamplesAreFiled, OneSeriesEach, CutoffsArePast

\* A point is dropped.
LEMMA DropMoves ==
  ASSUME IInv, NEW r \in Rounds, pc[r] \in Filing, NextPoint(r)
  PROVE  MovesOn(r)
  <1>1. /\ pc' \in [Rounds -> Steps] /\ work' \in [Rounds -> Locals]
        /\ pc'[r] \in {"off", "name"}
        /\ pc'[r] = "name" => work'[r].todo # <<>>
        /\ \A q \in Rounds \ {r} : pc'[q] = pc[q] /\ work'[q] = work[q]
    BY NextPointKeeps DEF IInv
  <1>2. QED
    BY <1>1 DEF MovesOn, AtWork, Filing

\* A round goes on with the point at hand.
LEMMA GotoMoves ==
  ASSUME IInv, NEW r \in Rounds, pc[r] \in Filing,
         NEW step \in {"newname", "label", "newlabel", "series", "newseries"},
         Goto(r, step), UNCHANGED work,
         step \in {"label", "newlabel"} => Head(work[r].todo).core # 0
  PROVE  MovesOn(r)
  BY PointAtHand DEF Goto, MovesOn, AtWork, Filing, Steps

LEMMA CollectKeeps ==
  ASSUME IInv, NEW r \in Rounds, StartRound(r) \/ Collect(r)
  PROVE  IInv'
  <1> USE PointAtHand
  <1>1. ASSUME StartRound(r) PROVE MovesOn(r)
    <2>1. With(Metrics, <<>>) \in Locals
      BY DEF With, Locals
    <2>2. QED
      BY <1>1, <2>1 DEF StartRound, Goto, MovesOn, AtWork, Steps, Filing
  <1>2. ASSUME Collect(r) PROVE MovesOn(r)
    <2>1. PICK metric \in work[r].waiting, usage \in Usages :
            /\ work' = [work EXCEPT ![r] =
                          With(@.waiting \ {metric}, @.todo \o Measured(metric, usage))]
            /\ IF work[r].waiting = {metric} THEN Goto(r, "name") ELSE UNCHANGED pc
      BY <1>2 DEF Collect
    <2>2. metric \in Metrics /\ work[r].todo \in Seq(Points)
      BY DEF Locals
    <2>3. Measured(metric, usage) \in Seq(Points) /\ Measured(metric, usage) # <<>>
      BY <2>2, Reports DEF IInv
    <2> DEFINE t == work[r].todo \o Measured(metric, usage)
               w == With(work[r].waiting \ {metric}, t)
    <2>4. t \in Seq(Points) /\ t # <<>>
      BY <2>2, <2>3
    <2>5. work' = [work EXCEPT ![r] = w]
      BY <2>1
    <2>6. w \in Locals /\ w.todo # <<>>
      BY <2>4 DEF With, Locals
    <2> HIDE DEF w
    <2>7. QED
      BY <1>2, <2>1, <2>5, <2>6 DEF Collect, Goto, MovesOn, AtWork, Steps, Filing
  <1>3. UNCHANGED <<now, cores, tables, cutoffs>>
    BY DEF StartRound, Collect
  <1>4. names' \subseteq Metrics /\ labels' \subseteq Labels
    BY <1>3 DEF tables, IInv, TypeOK
  <1>5. QED
    BY <1>1, <1>2, <1>3, <1>4, LocalStep DEF tables

LEMMA NameKeeps ==
  ASSUME IInv, NEW r \in Rounds, FindName(r) \/ NewName(r)
  PROVE  IInv'
  <1>1. pc[r] \in Filing
    BY PointAtHand DEF FindName, NewName, Filing, Steps
  <1>2. Head(work[r].todo) \in Points
    BY <1>1, PointAtHand
  <1>3. MovesOn(r)
    <2>1. CASE FindName(r)
      BY <1>1, <2>1, GotoMoves DEF FindName, AfterName
    <2>2. CASE NewName(r)
      BY <1>1, <2>2, GotoMoves, DropMoves DEF NewName, AfterName
    <2>3. QED
      BY <2>1, <2>2
  <1>4. names' \subseteq Metrics /\ labels' \subseteq Labels
    BY <1>2, KindTyped DEF FindName, NewName, tables, IInv, TypeOK
  <1>5. QED
    BY <1>3, <1>4, LocalStep DEF FindName, NewName, tables

LEMMA LabelKeeps ==
  ASSUME IInv, NEW r \in Rounds, FindLabel(r) \/ NewLabel(r)
  PROVE  IInv'
  <1>1. pc[r] \in Filing /\ Head(work[r].todo).core # 0
    BY PointAtHand DEF FindLabel, NewLabel, Filing, Steps, IInv, AtWork
  <1>2. Head(work[r].todo).core \in Labels
    BY <1>1, PointAtHand, KindTyped DEF Hashes
  <1>3. MovesOn(r)
    <2>1. CASE FindLabel(r)
      BY <1>1, <2>1, GotoMoves DEF FindLabel
    <2>2. CASE NewLabel(r)
      BY <1>1, <2>2, GotoMoves, DropMoves DEF NewLabel
    <2>3. QED
      BY <2>1, <2>2
  <1>4. names' \subseteq Metrics /\ labels' \subseteq Labels
    BY <1>2 DEF FindLabel, NewLabel, tables, IInv, TypeOK
  <1>5. QED
    BY <1>3, <1>4, LocalStep DEF FindLabel, NewLabel, tables

LEMMA FailKeeps ==
  ASSUME IInv, NEW r \in Rounds, StatementFails(r)
  PROVE  IInv'
  <1>1. MovesOn(r)
    BY PointAtHand, DropMoves DEF StatementFails, Filing
  <1>2. names' \subseteq Metrics /\ labels' \subseteq Labels
    BY DEF StatementFails, tables, IInv, TypeOK
  <1>3. QED
    BY <1>1, <1>2, LocalStep DEF StatementFails, tables

LEMMA FindSeriesKeeps ==
  ASSUME IInv, NEW r \in Rounds, FindSeries(r)
  PROVE  IInv'
  <1> DEFINE kind == Kind(Head(work[r].todo))
  <1>1. pc[r] \in Filing
    BY DEF FindSeries, Filing, Steps
  <1>2. ASSUME Known(kind) PROVE MovesOn(r)
    <2>1. IdOf(kind) \in DOMAIN series /\ series[IdOf(kind)] = kind
      BY <1>2 DEF Known, IdOf
    <2>2. series \in Seq(Kinds)
      BY DEF IInv, TypeOK, Kinds
    <2>3. IdOf(kind) \in Nat
      BY <2>1, <2>2
    <2> DEFINE w == [work[r] EXCEPT !.id = IdOf(kind)]
    <2>4. work' = [work EXCEPT ![r] = w] /\ Goto(r, "sample") /\ series' = series
      BY <1>2, PointAtHand DEF FindSeries, tables
    <2>5. w \in Locals /\ w.id = IdOf(kind) /\ w.todo = work[r].todo
      BY <2>3, PointAtHand DEF Locals
    <2> HIDE DEF w
    <2>6. QED
      BY <1>1, <2>1, <2>4, <2>5, PointAtHand DEF Goto, MovesOn, AtWork, Steps, Filing
  <1>3. ASSUME ~Known(kind) PROVE MovesOn(r)
    BY <1>1, <1>3, GotoMoves DEF FindSeries
  <1>4. names' \subseteq Metrics /\ labels' \subseteq Labels
    BY DEF FindSeries, tables, IInv, TypeOK
  <1>5. QED
    BY <1>2, <1>3, <1>4, LocalStep DEF FindSeries, tables

\* A series is created unless it is there by now, and linked to its label next.
LEMMA NewSeriesKeeps ==
  ASSUME IInv, NEW r \in Rounds, NewSeries(r)
  PROVE  IInv'
  <1> DEFINE p == Head(work[r].todo)
  <1>1. pc[r] \in Filing /\ p \in Points
    BY PointAtHand DEF NewSeries, Filing, Steps
  <1>2. CASE Known(Kind(p))
    <2>1. names' \subseteq Metrics /\ labels' \subseteq Labels
      BY DEF NewSeries, IInv, TypeOK
    <2>2. QED
      BY <1>1, <1>2, <2>1, DropMoves, LocalStep DEF NewSeries
  <1>3. CASE ~Known(Kind(p))
    <2>1. /\ series' = Append(series, Kind(p))
          /\ Goto(r, IF p.core = 0 THEN "sample" ELSE "link")
          /\ work' = [work EXCEPT ![r].id = Len(series')]
          /\ UNCHANGED <<now, cores, names, labels, links, samples, cutoffs>>
      BY <1>3 DEF NewSeries
    <2>2. series \in Seq(Kinds) /\ Kind(p) \in Kinds
      BY <1>1, KindTyped DEF IInv, TypeOK, Kinds
    <2>3. /\ series' \in Seq(Kinds)
          /\ Len(series') \in DOMAIN series' /\ Len(series') \in Nat
          /\ series'[Len(series')] = Kind(p)
          /\ \A i \in DOMAIN series : i \in DOMAIN series' /\ series'[i] = series[i]
          /\ \A i \in DOMAIN series' : i \in DOMAIN series \/ i = Len(series')
      BY <2>1, <2>2
    <2> DEFINE w == [work[r] EXCEPT !.id = Len(series')]
    <2>4. work' = [work EXCEPT ![r] = w]
      BY <2>1
    <2>5. w \in Locals /\ w.id = Len(series') /\ w.todo = work[r].todo
      BY <2>3, PointAtHand DEF Locals
    <2> HIDE DEF w
    <2>6. MovesOn(r)
      <3>1. pc \in [Rounds -> Steps] /\ work \in [Rounds -> Locals] /\ work[r].todo # <<>>
        BY <1>1, PointAtHand
      <3>2. /\ work' \in [Rounds -> Locals] /\ work'[r] = w
            /\ \A q \in Rounds \ {r} : work'[q] = work[q]
        BY <2>4, <2>5, <3>1
      <3>3. /\ pc' \in [Rounds -> Steps]
            /\ pc'[r] = IF p.core = 0 THEN "sample" ELSE "link"
            /\ \A q \in Rounds \ {r} : pc'[q] = pc[q]
        BY <2>1, <3>1 DEF Goto, Steps
      <3>4. AtWork(r)'
        BY <2>3, <2>5, <3>1, <3>2, <3>3 DEF AtWork
      <3>5. QED
        BY <3>2, <3>3, <3>4 DEF MovesOn
    <2>7. \A q \in Rounds : AtWork(q)'
      BY <2>1, <2>6, OthersStay
    <2>8. TypeOK'
      BY <2>1, <2>3, <2>6 DEF IInv, TypeOK, MovesOn, Locals, Kinds
    <2>9. SamplesAreFiled'
      BY <2>1, <2>3 DEF IInv, TypeOK, SamplesAreFiled
    <2>10. OneSeriesEach'
      BY <1>3, <2>3 DEF IInv, OneSeriesEach, Known
    <2>11. QED
      BY <2>1, <2>7, <2>8, <2>9, <2>10 DEF IInv, CutoffsArePast
  <1>4. QED
    BY <1>2, <1>3

LEMMA LinkKeeps ==
  ASSUME IInv, NEW r \in Rounds, Link(r)
  PROVE  IInv'
  <1> DEFINE p == Head(work[r].todo)
             id == work[r].id
  <1>1. /\ p \in Points /\ p.core # 0 /\ work[r].todo # <<>>
        /\ id \in DOMAIN series /\ series[id] = Kind(p)
    BY PointAtHand DEF Link, IInv, AtWork, Filing, Steps
  <1>2. p.core \in Labels /\ series[id].hash = p.core
    BY <1>1, KindTyped DEF Hashes, Kind
  <1>3. MovesOn(r)
    BY <1>1, PointAtHand DEF Link, Goto, MovesOn, AtWork, Steps, Filing
  <1>4. \A q \in Rounds : AtWork(q)'
    BY <1>3, OthersStay DEF Link
  <1>5. TypeOK'
    BY <1>1, <1>2, <1>3 DEF IInv, TypeOK, MovesOn, Locals, Link
  <1>6. SamplesAreFiled'
    BY <1>2 DEF IInv, SamplesAreFiled, Link
  <1>7. QED
    BY <1>4, <1>5, <1>6 DEF IInv, OneSeriesEach, CutoffsArePast, Link

LEMMA InsertSampleKeeps ==
  ASSUME IInv, NEW r \in Rounds, InsertSample(r)
  PROVE  IInv'
  <1> DEFINE p == Head(work[r].todo)
             key == <<work[r].id, p.ts>>
  <1>1. /\ p \in Points /\ p.ts \in 0..MaxTime /\ pc[r] \in Filing
        /\ work[r].id \in DOMAIN series /\ series[work[r].id] = Kind(p)
    BY PointAtHand, KindTyped DEF InsertSample, IInv, AtWork, Filing, Steps
  <1>2. MovesOn(r)
    BY <1>1, DropMoves DEF InsertSample
  <1>3. \A q \in Rounds : AtWork(q)'
    BY <1>2, OthersStay DEF InsertSample
  <1>4. /\ DOMAIN samples' = DOMAIN samples \cup {key}
        /\ \A k \in DOMAIN samples' :
             samples'[k] = IF k \in DOMAIN samples THEN samples[k] ELSE p
        /\ UNCHANGED <<now, cores, names, labels, series, links, cutoffs>>
    BY DEF InsertSample, Store, SeriesOf
  <1>5. key \in (DOMAIN series) \X (0..MaxTime) /\ key[1] = work[r].id /\ key[2] = p.ts
    BY <1>1
  <1> HIDE DEF key
  <1>6. TypeOK'
    BY <1>1, <1>2, <1>4, <1>5 DEF IInv, TypeOK, MovesOn, Locals
  <1>7. SamplesAreFiled'
    BY <1>1, <1>4, <1>5 DEF IInv, SamplesAreFiled
  <1>8. QED
    BY <1>3, <1>4, <1>6, <1>7 DEF IInv, OneSeriesEach, CutoffsArePast

-----------------------------------------------------------------------------
(* The clock, the clean-up and restarts.                                   *)

LEMMA TickKeeps == ASSUME IInv, Tick PROVE IInv'
  <1>1. now' \in 0..MaxTime /\ now' > now
    BY CoreAssumption DEF Tick, IInv, TypeOK
  <1>2. CutoffsArePast'
    BY <1>1, CoreAssumption DEF Tick, IInv, TypeOK, CutoffsArePast
  <1>3. QED
    BY <1>1, <1>2 DEF Tick, tables, IInv, TypeOK, SamplesAreFiled, OneSeriesEach, AtWork

LEMMA CleanUpKeeps == ASSUME IInv, CleanUp PROVE IInv'
  <1>1. now - Retention \in (-Retention)..MaxTime
    BY CoreAssumption DEF IInv, TypeOK
  <1>2. /\ cutoffs' = cutoffs \cup {now - Retention} /\ now' = now
        /\ cutoffs \subseteq (-Retention)..MaxTime /\ CutoffsArePast
    BY DEF CleanUp, IInv, TypeOK
  <1>3. cutoffs' \subseteq (-Retention)..MaxTime
    BY <1>1, <1>2
  <1>4. now - Retention <= now - Retention
    BY <1>1
  <1>5. CutoffsArePast'
    BY <1>2, <1>4 DEF CutoffsArePast
  <1>6. QED
    BY <1>3, <1>5 DEF CleanUp, tables, IInv, TypeOK, SamplesAreFiled, OneSeriesEach, AtWork

LEMMA DeleteKeeps ==
  ASSUME IInv, NEW cutoff \in cutoffs, DeleteOld(cutoff) \/ DeleteFails(cutoff)
  PROVE  IInv'
  <1>1. /\ DOMAIN samples' \subseteq DOMAIN samples
        /\ \A k \in DOMAIN samples' : samples'[k] = samples[k]
        /\ cutoffs' \subseteq cutoffs
        /\ UNCHANGED <<now, cores, names, labels, series, links, pc, work>>
    BY DEF DeleteOld, DeleteFails, tables
  <1>2. QED
    BY <1>1 DEF IInv, TypeOK, SamplesAreFiled, OneSeriesEach, CutoffsArePast, AtWork

LEMMA RestartKeeps == ASSUME IInv, Restart PROVE IInv'
  <1>1. work' \in [Rounds -> Locals] /\ pc' \in [Rounds -> Steps]
    BY DEF Restart, Idle, With, Locals, Steps
  <1>2. \A r \in Rounds : AtWork(r)'
    BY DEF Restart, AtWork, Filing
  <1>3. QED
    BY <1>1, <1>2 DEF Restart, tables, IInv, TypeOK, SamplesAreFiled, OneSeriesEach,
       CutoffsArePast, Locals

LEMMA NextKeeps == ASSUME IInv, [Next]_vars PROVE IInv'
  <1>1. ASSUME NEW r \in Rounds, StartRound(r) \/ Step(r) PROVE IInv'
    BY <1>1, CollectKeeps, NameKeeps, LabelKeeps, FindSeriesKeeps, NewSeriesKeeps, LinkKeeps,
       InsertSampleKeeps, FailKeeps DEF Step
  <1>2. ASSUME NEW cutoff \in cutoffs, DeleteOld(cutoff) \/ DeleteFails(cutoff) PROVE IInv'
    BY <1>2, DeleteKeeps
  <1>3. CASE UNCHANGED vars
    BY <1>3 DEF vars, tables, IInv, TypeOK, SamplesAreFiled, OneSeriesEach, CutoffsArePast, AtWork
  <1>4. QED
    BY <1>1, <1>2, <1>3, TickKeeps, CleanUpKeeps, RestartKeeps DEF Next

\* A step changes no sample, and removes only what is past its retention.
LEMMA SamplesStand ==
  ASSUME IInv, [Next]_vars, NEW k \in DOMAIN samples
  PROVE  \/ k \in DOMAIN samples' /\ samples'[k] = samples[k]
         \/ k \notin DOMAIN samples' /\ k[2] < now - Retention
  <1>1. CASE UNCHANGED samples
    BY <1>1
  <1>2. CASE \E r \in Rounds : InsertSample(r)
    BY <1>2 DEF InsertSample, Store
  <1>3. ASSUME NEW cutoff \in cutoffs, DeleteOld(cutoff)
        PROVE  \/ k \in DOMAIN samples' /\ samples'[k] = samples[k]
               \/ k \notin DOMAIN samples' /\ k[2] < now - Retention
    <2>1. /\ cutoff \in Int /\ cutoff <= now - Retention /\ k[2] \in Int
          /\ now \in Int /\ Retention \in Int
      BY CoreAssumption DEF IInv, TypeOK, CutoffsArePast
    <2>2. CASE Expired(k, cutoff)
      BY <1>3, <2>1, <2>2 DEF DeleteOld, Expired
    <2>3. CASE ~Expired(k, cutoff)
      BY <1>3, <2>3 DEF DeleteOld
    <2>4. QED
      BY <2>2, <2>3
  <1>4. CASE /\ ~UNCHANGED samples
             /\ ~\E r \in Rounds : InsertSample(r)
    <2>1. \E cutoff \in cutoffs : DeleteOld(cutoff)
      BY <1>4 DEF Next, vars, tables, Step, Tick, CleanUp, Restart, StartRound, Collect,
         FindName, NewName, FindLabel, NewLabel, FindSeries, NewSeries, Link,
         StatementFails, DeleteFails
    <2>2. QED
      BY <2>1, <1>3
  <1>5. QED
    BY <1>1, <1>2, <1>4

-----------------------------------------------------------------------------
(* The theorems.                                                           *)

LEMMA Inductive == Spec => []IInv
  <1>1. Init => IInv
    BY Initial
  <1>2. IInv /\ [Next]_vars => IInv'
    BY NextKeeps
  <1>3. QED
    BY <1>1, <1>2, PTL DEF Spec

\* Tables, locals and cut-offs have their types.
THEOREM TypeCorrect == Spec => []TypeOK
  <1>1. IInv => TypeOK
    BY DEF IInv
  <1>2. QED
    BY <1>1, Inductive, PTL

\* Samples and labels are where they belong, whatever overlapped or failed.
THEOREM SamplesFiled == Spec => []SamplesAreFiled
  <1>1. IInv => SamplesAreFiled
    BY DEF IInv
  <1>2. QED
    BY <1>1, Inductive, PTL

\* No two rounds create one series twice.
THEOREM SeriesUnique == Spec => []OneSeriesEach
  <1>1. IInv => OneSeriesEach
    BY DEF IInv
  <1>2. QED
    BY <1>1, Inductive, PTL

\* A sample stays what it is until it is past its retention.
THEOREM SamplesKept == Spec => HistoryStands
  <1>1. IInv /\ [Next]_vars =>
          [\A k \in DOMAIN samples : \/ k \in DOMAIN samples' /\ samples'[k] = samples[k]
                                     \/ k \notin DOMAIN samples' /\ k[2] < now - Retention]_vars
    BY SamplesStand
  <1>2. QED
    BY <1>1, Inductive, PTL DEF Spec, HistoryStands

-----------------------------------------------------------------------------
(* The charts.  A second of the CPU chart is whole once every core's share  *)
(* of one usage is filed; until then a round has a share of it at hand, or  *)
(* one was dropped, or refused for another usage.                           *)

\* What a collector reports: as many shares as the machine has cores.
IsMeasured(p) ==
  IF p.metric = "cpu" THEN p.shares = cores /\ p.core \in 1..cores ELSE p.core = 0

AsMeasured ==
  /\ \A k \in DOMAIN samples : IsMeasured(samples[k])
  /\ \A r \in Rounds : \A i \in DOMAIN work[r].todo : IsMeasured(work[r].todo[i])

IsShare(p, ts, c, u) == p.metric = "cpu" /\ p.ts = ts /\ p.core = c /\ p.usage = u

\* Core c's share of usage u at second ts is filed, or round r has it at hand.
Filed(ts, c, u)     == \E k \in DOMAIN samples : IsShare(samples[k], ts, c, u)
AtHand(r, ts, c, u) == \E i \in DOMAIN work[r].todo : IsShare(work[r].todo[i], ts, c, u)

\* A share of the second may be missing for good.
Excused(ts) == ts < now - Retention \/ ts \in lost

\* A round that has a share of a usage at hand has those that are not filed.
RoundsWhole ==
  \A r \in Rounds : \A ts \in 0..MaxTime, b \in 1..cores, u \in Usages :
    AtHand(r, ts, b, u) =>
      Excused(ts) \/ \A c \in 1..cores : AtHand(r, ts, c, u) \/ Filed(ts, c, u)

\* A usage that is filed in part is of a second that is at hand in part.
SecondsWhole ==
  \A ts \in 0..MaxTime, b \in 1..cores, u \in Usages :
    Filed(ts, b, u) => \/ Excused(ts)
                       \/ \E r \in Rounds, c \in 1..cores, v \in Usages : AtHand(r, ts, c, v)
                       \/ \A c \in 1..cores : Filed(ts, c, u)

\* A round that is over, or has not begun, has no point at hand.
OffIsIdle == \A r \in Rounds : pc[r] = "off" => work[r].todo = <<>>

LostInv == IInv /\ AsMeasured /\ OffIsIdle /\ RoundsWhole /\ SecondsWhole

\* With one core there is no part of a second.
LEMMA OneCore == ASSUME cores = 1 PROVE RoundsWhole /\ SecondsWhole
  <1>1. \A b, c \in 1..cores : b = c
    OBVIOUS
  <1>2. QED
    BY <1>1 DEF RoundsWhole, SecondsWhole

LEMMA TodoFacts ==
  ASSUME IInv, NEW r \in Rounds
  PROVE  /\ work[r].todo \in Seq(Points) /\ Len(work[r].todo) \in Nat
         /\ DOMAIN work[r].todo = 1..Len(work[r].todo)
         /\ \A i \in DOMAIN work[r].todo : work[r].todo[i] \in Points
  <1>1. work[r].todo \in Seq(Points)
    BY DEF IInv, TypeOK
  <1>2. QED
    BY <1>1

\* What is left of a list of points when its first one is dropped or filed.
LEMMA NextPointLeaves ==
  ASSUME IInv, NEW r \in Rounds, pc[r] \in Filing, NextPoint(r)
  PROVE  /\ \A q \in Rounds : q # r => work'[q] = work[q] /\ pc'[q] = pc[q]
         /\ pc'[r] = "off" => work'[r].todo = <<>>
         /\ work[r].todo # <<>> /\ 1 \in DOMAIN work[r].todo
         /\ Head(work[r].todo) = work[r].todo[1]
         /\ Len(work'[r].todo) < Len(work[r].todo)
         /\ \A i \in DOMAIN work'[r].todo :
              i + 1 \in DOMAIN work[r].todo /\ work'[r].todo[i] = work[r].todo[i + 1]
         /\ \A i \in DOMAIN work[r].todo :
              i # 1 => i - 1 \in DOMAIN work'[r].todo
                       /\ work'[r].todo[i - 1] = work[r].todo[i]
  <1> DEFINE t == work[r].todo
  <1>1. t \in Seq(Points) /\ t # <<>> /\ work \in [Rounds -> Locals] /\ pc \in [Rounds -> Steps]
    BY PointAtHand
  <1>2. Len(t) \in Nat /\ Len(t) >= 1 /\ DOMAIN t = 1..Len(t) /\ Head(t) = t[1]
    BY <1>1
  <1>3. CASE Len(t) = 1
    <2>1. work'[r].todo = <<>> /\ \A q \in Rounds : q # r => work'[q] = work[q] /\ pc'[q] = pc[q]
      BY <1>1, <1>3 DEF NextPoint, Idle, With, Goto
    <2>2. QED
      BY <1>1, <1>2, <1>3, <2>1
  <1>4. CASE Len(t) # 1
    <2>1. /\ work'[r].todo = Tail(t) /\ pc'[r] # "off"
          /\ \A q \in Rounds : q # r => work'[q] = work[q] /\ pc'[q] = pc[q]
      BY <1>1, <1>4 DEF NextPoint, With, Goto
    <2> HIDE DEF t
    <2>2. /\ Len(Tail(t)) = Len(t) - 1 /\ DOMAIN Tail(t) = 1..(Len(t) - 1)
          /\ \A i \in 1..(Len(t) - 1) : Tail(t)[i] = t[i + 1]
      BY <1>1, <1>2
    <2>3. \A i \in DOMAIN t : i # 1 => i - 1 \in 1..(Len(t) - 1) /\ (i - 1) + 1 = i
      BY <1>2
    <2>4. \A i \in 1..(Len(t) - 1) : i + 1 \in DOMAIN t
      BY <1>2
    <2>5. QED
      BY <1>1, <1>2, <2>1, <2>2, <2>3, <2>4 DEF t
  <1>5. QED
    BY <1>3, <1>4

LEMMA OneCoreNext == ASSUME cores' = 1 PROVE RoundsWhole' /\ SecondsWhole'
  <1>1. \A b, c \in 1..1 : b = c
    OBVIOUS
  <1>2. QED
    BY <1>1 DEF RoundsWhole, SecondsWhole

LEMMA Earlier ==
  ASSUME NEW m \in Int, NEW n \in Int, m <= n, NEW c \in Nat, NEW ts \in Int, ts < m - c
  PROVE  ts < n - c
  OBVIOUS

LEMMA ExcusedStays ==
  ASSUME now \in Int, now' \in Int, now <= now', lost \subseteq lost', NEW ts \in 0..MaxTime,
         Excused(ts)
  PROVE  Excused(ts)'
  <1>1. ts \in Int /\ Retention \in Nat
    BY CoreAssumption
  <1>2. ts < now - Retention => ts < now' - Retention
    BY <1>1, Earlier
  <1>3. QED
    BY <1>2 DEF Excused

\* What files no share keeps seconds whole, if every share that it drops, and
\* that cannot be excused by its age, is recorded as lost.
LEMMA WholeKept ==
  ASSUME LostInv, cores' = cores, now \in Int, now' \in Int, now <= now', lost \subseteq lost',
         \A ts \in 0..MaxTime, c \in 1..cores, u \in Usages :
           Filed(ts, c, u) => Filed(ts, c, u)' \/ Excused(ts)',
         \A ts \in 0..MaxTime, c \in 1..cores, u \in Usages : Filed(ts, c, u)' => Filed(ts, c, u),
         \A r \in Rounds : \A ts \in 0..MaxTime, c \in 1..cores, u \in Usages :
           AtHand(r, ts, c, u) => AtHand(r, ts, c, u)' \/ Excused(ts)',
         \A r \in Rounds : \A ts \in 0..MaxTime, b \in 1..cores, u \in Usages :
           AtHand(r, ts, b, u)' => AtHand(r, ts, b, u) \/ \A c \in 1..cores : AtHand(r, ts, c, u)'
  PROVE  RoundsWhole' /\ SecondsWhole'
  <1>1. \A ts \in 0..MaxTime : Excused(ts) => Excused(ts)'
    BY ExcusedStays
  <1> HIDE DEF Filed, AtHand, Excused
  <1>2. RoundsWhole'
    <2> SUFFICES ASSUME NEW r \in Rounds, NEW ts \in 0..MaxTime, NEW b \in 1..cores, NEW u \in Usages,
                        AtHand(r, ts, b, u)'
                 PROVE  Excused(ts)' \/ \A c \in 1..cores : AtHand(r, ts, c, u)' \/ Filed(ts, c, u)'
      BY DEF RoundsWhole
    <2>1. CASE AtHand(r, ts, b, u)
      BY <1>1, <2>1 DEF LostInv, RoundsWhole
    <2>2. QED
      BY <2>1
  <1>3. SecondsWhole'
    <2> SUFFICES ASSUME NEW ts \in 0..MaxTime, NEW b \in 1..cores, NEW u \in Usages,
                        Filed(ts, b, u)'
                 PROVE  \/ Excused(ts)'
                        \/ \E r \in Rounds : \E c \in 1..cores, v \in Usages : AtHand(r, ts, c, v)'
                        \/ \A c \in 1..cores : Filed(ts, c, u)'
      BY DEF SecondsWhole
    <2>1. QED
      BY <1>1 DEF LostInv, SecondsWhole
  <1>4. QED
    BY <1>2, <1>3

\* A step that leaves points and samples alone.
LEMMA NothingMoves ==
  ASSUME LostInv, cores' = cores, samples' = samples, now' \in Int, now <= now',
         lost \subseteq lost', \A r \in Rounds : work'[r].todo = work[r].todo
  PROVE  AsMeasured' /\ RoundsWhole' /\ SecondsWhole'
  <1>1. now \in Int
    BY CoreAssumption DEF LostInv, IInv, TypeOK
  <1>2. AsMeasured'
    BY DEF LostInv, AsMeasured, IsMeasured
  <1>3. QED
    BY <1>1, <1>2, WholeKept DEF Filed, AtHand

LEMMA IdLeavesTodo ==
  ASSUME IInv, NEW r \in Rounds, NEW x, work' = [work EXCEPT ![r].id = x]
  PROVE  \A q \in Rounds : work'[q].todo = work[q].todo
  <1>1. work \in [Rounds -> Locals]
    BY PointAtHand
  <1> DEFINE w == [work[r] EXCEPT !.id = x]
  <1>2. w.todo = work[r].todo
    BY <1>1 DEF Locals
  <1>3. work' = [work EXCEPT ![r] = w]
    OBVIOUS
  <1> HIDE DEF w
  <1>4. QED
    BY <1>1, <1>2, <1>3

\* A step of a round that neither measures nor files.
LEMMA StepOfTodo ==
  ASSUME LostInv, NEW r \in Rounds, Step(r), ~Collect(r), ~InsertSample(r)
  PROVE  /\ UNCHANGED <<now, cores, samples>>
         /\ \/ pc[r] \in Filing /\ NextPoint(r)
            \/ /\ \A q \in Rounds : work'[q].todo = work[q].todo
               /\ OffIsIdle'
  <1> USE PointAtHand DEF LostInv, OffIsIdle, Goto, Filing, Steps
  <1>1. CASE FindName(r) \/ FindLabel(r) \/ Link(r)
    BY <1>1 DEF FindName, FindLabel, Link, AfterName, tables
  <1>2. CASE NewName(r)
    BY <1>2 DEF NewName, AfterName
  <1>3. CASE NewLabel(r)
    BY <1>3 DEF NewLabel
  <1>4. CASE FindSeries(r)
    <2>1. work' = work \/ \E x : work' = [work EXCEPT ![r].id = x]
      BY <1>4 DEF FindSeries
    <2>2. \A q \in Rounds : work'[q].todo = work[q].todo
      BY <2>1, IdLeavesTodo
    <2>3. QED
      BY <1>4, <2>2 DEF FindSeries, tables
  <1>5. CASE NewSeries(r)
    <2>1. (\E x : work' = [work EXCEPT ![r].id = x]) \/ NextPoint(r)
      BY <1>5 DEF NewSeries
    <2>2. (\A q \in Rounds : work'[q].todo = work[q].todo) \/ NextPoint(r)
      BY <2>1, IdLeavesTodo
    <2>3. QED
      BY <1>5, <2>2 DEF NewSeries
  <1>6. CASE StatementFails(r)
    BY <1>6 DEF StatementFails, tables
  <1>7. QED
    BY <1>1, <1>2, <1>3, <1>4, <1>5, <1>6 DEF Step

LEMMA OffIsIdleAfter ==
  ASSUME LostInv, NEW r \in Rounds, pc[r] \in Filing, NextPoint(r)
  PROVE  OffIsIdle'
  BY NextPointLeaves DEF LostInv, OffIsIdle

LEMMA DropIsLost ==
  ASSUME LostInv, NEW r \in Rounds, pc[r] \in Filing, NextPoint(r), ~InsertSample(r),
         UNCHANGED <<now, cores, samples>>, lost' = lost \cup LostBy(r)
  PROVE  AsMeasured' /\ RoundsWhole' /\ SecondsWhole'
  <1>1. IInv /\ now \in Int /\ cores \in Nat
    BY CoreAssumption DEF LostInv, IInv, TypeOK
  <1> DEFINE t == work[r].todo
  <1>2. /\ \A q \in Rounds : q # r => work'[q] = work[q]
        /\ \A i \in DOMAIN work'[r].todo :
             i + 1 \in DOMAIN work[r].todo /\ work'[r].todo[i] = work[r].todo[i + 1]
        /\ \A i \in DOMAIN work[r].todo :
             i # 1 => i - 1 \in DOMAIN work'[r].todo
                      /\ work'[r].todo[i - 1] = work[r].todo[i]
    BY <1>1, NextPointLeaves
  <1>3. AsMeasured'
    BY <1>2 DEF LostInv, AsMeasured, IsMeasured
  <1>4. CASE cores = 1
    BY <1>3, <1>4, OneCoreNext
  <1>5. CASE cores # 1
    <2>1. work[r].todo[1].metric = "cpu" => work[r].todo[1].ts \in lost'
      <3>1. ~(Len(work'[r].todo) >= Len(work[r].todo)) /\ Head(work[r].todo) = work[r].todo[1]
        <4>1. /\ Len(work'[r].todo) < Len(work[r].todo)
              /\ Head(work[r].todo) = work[r].todo[1]
          BY <1>1, NextPointLeaves
        <4>2. Len(work[r].todo) \in Nat /\ Len(work'[r].todo) \in Nat
          BY <1>1, DropMoves, TodoFacts DEF MovesOn, Locals
        <4>3. QED
          BY <4>1, <4>2
      <3>2. QED
        BY <1>5, <3>1 DEF LostBy, Stored
    <2>2. ASSUME NEW q \in Rounds, NEW ts \in 0..MaxTime, NEW c \in 1..cores, NEW u \in Usages,
                 AtHand(q, ts, c, u)
          PROVE  AtHand(q, ts, c, u)' \/ Excused(ts)'
      <3>1. CASE q # r
        BY <1>2, <2>2, <3>1 DEF AtHand
      <3>2. CASE q = r
        <4>1. PICK i \in DOMAIN work[r].todo : IsShare(work[r].todo[i], ts, c, u)
          BY <2>2, <3>2 DEF AtHand
        <4>2. CASE i = 1
          BY <2>1, <4>1, <4>2 DEF IsShare, Excused
        <4>3. CASE i # 1
          BY <1>2, <3>2, <4>1, <4>3 DEF AtHand
        <4>4. QED
          BY <4>2, <4>3
      <3>3. QED
        BY <3>1, <3>2
    <2>3. ASSUME NEW q \in Rounds, NEW ts \in 0..MaxTime, NEW c \in 1..cores, NEW u \in Usages,
                 AtHand(q, ts, c, u)'
          PROVE  AtHand(q, ts, c, u)
      BY <1>2, <2>3 DEF AtHand
    <2>4. lost \subseteq lost' /\ \A ts, c, u : Filed(ts, c, u)' <=> Filed(ts, c, u)
      BY DEF Filed
    <2>5. RoundsWhole' /\ SecondsWhole'
      <3> HIDE DEF Filed, AtHand, Excused
      <3>1. QED
        BY <1>1, <2>2, <2>3, <2>4, WholeKept
    <2>6. QED
      BY <1>3, <2>5
  <1>6. QED
    BY <1>4, <1>5

LEMMA CollectIsWhole ==
  ASSUME LostInv, NEW r \in Rounds, Collect(r), lost \subseteq lost'
  PROVE  AsMeasured' /\ OffIsIdle' /\ RoundsWhole' /\ SecondsWhole'
  <1>1. IInv /\ now \in 0..MaxTime /\ now \in Int /\ cores \in Nat /\ TypeOK
    BY CoreAssumption, Typing DEF LostInv, IInv, TypeOK
  <1>2. UNCHANGED <<now, cores, samples>>
    BY DEF Collect, tables
  <1>3. PICK metric \in work[r].waiting, usage \in Usages :
          /\ work' = [work EXCEPT ![r] =
                        With(@.waiting \ {metric}, @.todo \o Measured(metric, usage))]
          /\ IF work[r].waiting = {metric} THEN Goto(r, "name") ELSE UNCHANGED pc
    BY DEF Collect
  <1>4. metric \in Metrics /\ work[r].todo \in Seq(Points)
    BY <1>1, PointAtHand DEF Locals
  <1> DEFINE t == work[r].todo
             m == Measured(metric, usage)
  <1>5. m \in Seq(Points)
    BY <1>1, <1>4, Reports
  <1>6. /\ work'[r].todo = t \o m
        /\ \A q \in Rounds : q # r => work'[q] = work[q]
    BY <1>1, <1>3, PointAtHand DEF With
  <1>7. /\ metric = "cpu" => /\ DOMAIN m = 1..cores
                             /\ \A i \in DOMAIN m : m[i] = Point("cpu", i, usage, cores)
        /\ metric # "cpu" => /\ DOMAIN m = {1}
                             /\ m[1] = Point("ram", 0, usage, 1)
    BY <1>1 DEF Measured
  <1> HIDE DEF m, t
  <1>8. /\ t \in Seq(Points) /\ DOMAIN t = 1..Len(t) /\ Len(t) \in Nat
        /\ DOMAIN (t \o m) = 1..(Len(t) + Len(m)) /\ Len(m) \in Nat /\ DOMAIN m = 1..Len(m)
        /\ \A i \in 1..(Len(t) + Len(m)) : (t \o m)[i] = IF i <= Len(t) THEN t[i] ELSE m[i - Len(t)]
    BY <1>4, <1>5 DEF t
  <1>9. /\ \A i \in DOMAIN t : i \in DOMAIN (t \o m) /\ (t \o m)[i] = t[i]
        /\ \A i \in DOMAIN m : Len(t) + i \in DOMAIN (t \o m) /\ (t \o m)[Len(t) + i] = m[i]
        /\ \A i \in DOMAIN (t \o m) :
             \/ i \in DOMAIN t /\ (t \o m)[i] = t[i]
             \/ i - Len(t) \in DOMAIN m /\ (t \o m)[i] = m[i - Len(t)]
    BY <1>8
  <1>10. ASSUME NEW i \in DOMAIN m PROVE IsMeasured(m[i])
    <2>1. CASE metric = "cpu"
      BY <1>7, <2>1 DEF Point, IsMeasured
    <2>2. CASE metric # "cpu"
      BY <1>7, <2>2 DEF Point, IsMeasured
    <2>3. QED
      BY <2>1, <2>2
  <1>11. AsMeasured'
    <2>1. \A p : IsMeasured(p)' <=> IsMeasured(p)
      BY <1>2 DEF IsMeasured
    <2>2. ASSUME NEW q \in Rounds, NEW i \in DOMAIN work'[q].todo
          PROVE  IsMeasured(work'[q].todo[i])
      <3>1. CASE q # r
        BY <1>6, <3>1 DEF LostInv, AsMeasured
      <3>2. CASE q = r
        <4>1. \A j \in DOMAIN t : IsMeasured(t[j])
          BY DEF LostInv, AsMeasured, t
        <4>2. work'[q].todo = t \o m
          BY <1>6, <3>2
        <4>3. QED
          BY <1>9, <1>10, <4>1, <4>2
      <3>3. QED
        BY <3>1, <3>2
    <2>3. QED
      BY <1>2, <2>2 DEF LostInv, AsMeasured, IsMeasured
  <1>12. OffIsIdle'
    BY <1>1, <1>3, <1>6 DEF LostInv, OffIsIdle, Collect, Goto, TypeOK
  <1>13. ASSUME NEW q \in Rounds, NEW ts \in 0..MaxTime, NEW c \in 1..cores, NEW u \in Usages,
                AtHand(q, ts, c, u)
         PROVE  AtHand(q, ts, c, u)'
    <2>1. CASE q # r
      BY <1>6, <1>13, <2>1 DEF AtHand
    <2>2. CASE q = r
      <3>1. PICK i \in DOMAIN t : IsShare(t[i], ts, c, u)
        BY <1>13, <2>2 DEF AtHand, t
      <3>2. QED
        BY <1>6, <1>9, <2>2, <3>1 DEF AtHand
    <2>3. QED
      BY <2>1, <2>2
  <1>14. ASSUME NEW q \in Rounds, NEW ts \in 0..MaxTime, NEW b \in 1..cores, NEW u \in Usages,
                AtHand(q, ts, b, u)'
         PROVE  AtHand(q, ts, b, u) \/ \A c \in 1..cores : AtHand(q, ts, c, u)'
    <2>1. CASE q # r
      BY <1>6, <1>14, <2>1 DEF AtHand
    <2>2. CASE q = r
      <3>1. PICK i \in DOMAIN (t \o m) : IsShare((t \o m)[i], ts, b, u)
        BY <1>6, <1>14, <2>2 DEF AtHand
      <3>2. CASE i \in DOMAIN t /\ (t \o m)[i] = t[i]
        BY <2>2, <3>1, <3>2 DEF AtHand, t
      <3>3. CASE i - Len(t) \in DOMAIN m /\ (t \o m)[i] = m[i - Len(t)]
        <4>1. metric = "cpu" /\ ts = now /\ u = usage
          BY <1>7, <3>1, <3>3 DEF IsShare, Point
        <4>2. ASSUME NEW c \in 1..cores PROVE AtHand(r, ts, c, u)'
          <5>1. c \in DOMAIN m /\ IsShare(m[c], ts, c, u)
            BY <1>7, <4>1 DEF IsShare, Point
          <5>2. QED
            <6>1. PICK j : j = Len(t) + c
              OBVIOUS
            <6>2. j \in DOMAIN (t \o m) /\ (t \o m)[j] = m[c]
              BY <1>9, <5>1, <6>1
            <6>3. QED
              BY <1>6, <5>1, <6>2 DEF AtHand
        <4>3. QED
          BY <2>2, <4>2
      <3>4. QED
        BY <1>9, <3>2, <3>3
    <2>3. QED
      BY <2>1, <2>2
  <1>15. QED
    BY <1>1, <1>2, <1>11, <1>12, <1>13, <1>14, WholeKept DEF Filed

\* The tables have room for one usage of a core and a second.
LEMMA OneUsage ==
  IInv => \A ts, c, u, v : Filed(ts, c, u) /\ Filed(ts, c, v) => u = v
  <1> SUFFICES ASSUME IInv, NEW ts, NEW c, NEW u, NEW v, Filed(ts, c, u), Filed(ts, c, v)
               PROVE  u = v
    OBVIOUS
  <1>1. PICK j \in DOMAIN samples : IsShare(samples[j], ts, c, u)
    BY DEF Filed
  <1>2. PICK k \in DOMAIN samples : IsShare(samples[k], ts, c, v)
    BY DEF Filed
  <1>3. /\ series[j[1]] = Kind(samples[j]) /\ series[k[1]] = Kind(samples[k])
        /\ j[2] = ts /\ k[2] = ts
        /\ j[1] \in DOMAIN series /\ k[1] \in DOMAIN series
        /\ j = <<j[1], j[2]>> /\ k = <<k[1], k[2]>>
    BY <1>1, <1>2 DEF IInv, TypeOK, SamplesAreFiled, IsShare
  <1>4. series[j[1]] = series[k[1]]
    BY <1>1, <1>2, <1>3 DEF IsShare, Kind
  <1>5. j = k
    BY <1>3, <1>4 DEF IInv, OneSeriesEach
  <1>6. QED
    BY <1>1, <1>2, <1>5 DEF IsShare

\* Filing a share, or finding the second taken: by the same usage, or else the
\* share is lost.
LEMMA FilingIsWhole ==
  ASSUME LostInv, IInv', NEW r \in Rounds, InsertSample(r), lost' = lost \cup LostBy(r)
  PROVE  AsMeasured' /\ OffIsIdle' /\ RoundsWhole' /\ SecondsWhole'
  <1> DEFINE p == Head(work[r].todo)
             key == <<work[r].id, p.ts>>
  <1>1. IInv /\ pc[r] \in Filing /\ NextPoint(r) /\ now \in Int
    BY CoreAssumption DEF LostInv, IInv, TypeOK, InsertSample, Filing, Steps
  <1>2. /\ \A q \in Rounds : q # r => work'[q] = work[q]
        /\ work[r].todo # <<>> /\ 1 \in DOMAIN work[r].todo /\ p = work[r].todo[1]
        /\ \A i \in DOMAIN work'[r].todo :
             i + 1 \in DOMAIN work[r].todo /\ work'[r].todo[i] = work[r].todo[i + 1]
        /\ \A i \in DOMAIN work[r].todo :
             i # 1 => i - 1 \in DOMAIN work'[r].todo
                      /\ work'[r].todo[i - 1] = work[r].todo[i]
    BY <1>1, NextPointLeaves
  <1>3. /\ p \in Points /\ series[work[r].id] = Kind(p) /\ key[1] = work[r].id /\ key[2] = p.ts
    BY <1>1, PointAtHand DEF IInv, AtWork, InsertSample
  <1>4. /\ DOMAIN samples' = DOMAIN samples \cup {key}
        /\ \A k \in DOMAIN samples : samples'[k] = samples[k]
        /\ key \notin DOMAIN samples => samples'[key] = p
        /\ UNCHANGED <<now, cores>>
    BY DEF InsertSample, Store, SeriesOf
  <1>5. samples'[key].metric = p.metric /\ samples'[key].ts = p.ts /\ samples'[key].core = p.core
    <2>1. CASE key \in DOMAIN samples
      <3>1. Kind(samples[key]) = Kind(p) /\ samples[key].ts = p.ts
        BY <1>1, <1>3, <2>1 DEF IInv, SamplesAreFiled
      <3>2. QED
        BY <1>4, <2>1, <3>1 DEF Kind
    <2>2. CASE key \notin DOMAIN samples
      BY <1>4, <2>2
    <2>3. QED
      BY <2>1, <2>2
  <1>6. OffIsIdle'
    BY <1>1, OffIsIdleAfter
  <1>7. AsMeasured'
    <2>1. \A x : IsMeasured(x)' <=> IsMeasured(x)
      BY <1>4 DEF IsMeasured
    <2>2. IsMeasured(p)
      BY <1>2 DEF LostInv, AsMeasured
    <2>3. \A k \in DOMAIN samples' : IsMeasured(samples'[k])
      BY <1>4, <2>2 DEF LostInv, AsMeasured
    <2>4. \A q \in Rounds : \A i \in DOMAIN work'[q].todo : IsMeasured(work'[q].todo[i])
      BY <1>2 DEF LostInv, AsMeasured
    <2>5. QED
      BY <1>4, <2>3, <2>4 DEF AsMeasured, IsMeasured
  <1>8. p.metric = "cpu" => samples'[key].usage = p.usage \/ cores = 1 \/ p.ts \in lost'
    <2>1. Len(work'[r].todo) \in Nat /\ Len(work[r].todo) \in Nat
      BY <1>1, DropMoves, TodoFacts DEF MovesOn, Locals
    <2>2. ~(Len(work'[r].todo) >= Len(work[r].todo))
      BY <1>1, <2>1, NextPointLeaves
    <2>3. QED
      BY <2>2 DEF LostBy, Stored, SeriesOf
  <1> HIDE DEF key
  <1>9. CASE cores = 1
    BY <1>4, <1>6, <1>7, <1>9, OneCoreNext
  <1>10. ASSUME NEW ts \in 0..MaxTime, NEW c \in 1..cores, NEW u \in Usages, Filed(ts, c, u)
         PROVE  Filed(ts, c, u)'
    BY <1>4, <1>10 DEF Filed
  <1>11. ASSUME cores # 1, NEW ts \in 0..MaxTime, NEW c \in 1..cores, NEW u \in Usages,
                IsShare(p, ts, c, u)
         PROVE  Filed(ts, c, u)' \/ Excused(ts)'
    <2>1. p.ts \in lost' => Excused(ts)'
      BY <1>11 DEF IsShare, Excused
    <2>2. samples'[key].usage = p.usage => Filed(ts, c, u)'
      BY <1>4, <1>5, <1>11 DEF Filed, IsShare
    <2>3. QED
      BY <1>8, <1>11, <2>1, <2>2 DEF IsShare
  <1>12. ASSUME NEW ts \in 0..MaxTime, NEW c \in 1..cores, NEW u \in Usages, Filed(ts, c, u)'
         PROVE  Filed(ts, c, u) \/ IsShare(p, ts, c, u)
    <2>1. PICK k \in DOMAIN samples' : IsShare(samples'[k], ts, c, u)
      BY <1>12 DEF Filed
    <2>2. CASE k \in DOMAIN samples
      BY <1>4, <2>1, <2>2 DEF Filed
    <2>3. CASE k = key /\ k \notin DOMAIN samples
      BY <1>4, <2>1, <2>3 DEF IsShare
    <2>4. QED
      BY <1>4, <2>2, <2>3
  <1>13. ASSUME NEW q \in Rounds, NEW ts \in 0..MaxTime, NEW c \in 1..cores, NEW u \in Usages,
                AtHand(q, ts, c, u)
         PROVE  AtHand(q, ts, c, u)' \/ IsShare(p, ts, c, u)
    <2>1. CASE q # r
      BY <1>2, <1>13, <2>1 DEF AtHand
    <2>2. CASE q = r
      <3>1. PICK i \in DOMAIN work[r].todo : IsShare(work[r].todo[i], ts, c, u)
        BY <1>13, <2>2 DEF AtHand
      <3>2. CASE i = 1
        BY <1>2, <2>2, <3>1, <3>2
      <3>3. CASE i # 1
        BY <1>2, <2>2, <3>1, <3>3 DEF AtHand
      <3>4. QED
        BY <3>2, <3>3
    <2>3. QED
      BY <2>1, <2>2
  <1>14. ASSUME NEW q \in Rounds, NEW ts \in 0..MaxTime, NEW c \in 1..cores, NEW u \in Usages,
                AtHand(q, ts, c, u)'
         PROVE  AtHand(q, ts, c, u)
    BY <1>2, <1>14 DEF AtHand
  <1>15. \A ts \in 0..MaxTime, c \in 1..cores, u \in Usages :
            IsShare(p, ts, c, u) => AtHand(r, ts, c, u)
    BY <1>2 DEF AtHand
  <1>16. \A ts \in 0..MaxTime : Excused(ts) => Excused(ts)'
    BY <1>1, <1>4, ExcusedStays
  <1>17. \A ts, c, u, v : Filed(ts, c, u)' /\ Filed(ts, c, v)' => u = v
    <2>1. IInv' => (\A ts, c, u, v : Filed(ts, c, u) /\ Filed(ts, c, v) => u = v)'
      BY OneUsage, PTL
    <2>2. QED
      BY <2>1
  <1> HIDE DEF AtHand, Filed, Excused, p
  <1>18. CASE cores # 1
    <2>1. RoundsWhole'
      <3> SUFFICES ASSUME NEW q \in Rounds, NEW ts \in 0..MaxTime, NEW b \in 1..cores,
                          NEW u \in Usages, AtHand(q, ts, b, u)'
                   PROVE  Excused(ts)' \/ \A c \in 1..cores : AtHand(q, ts, c, u)' \/ Filed(ts, c, u)'
        BY <1>4 DEF RoundsWhole
      <3>1. Excused(ts) \/ \A c \in 1..cores : AtHand(q, ts, c, u) \/ Filed(ts, c, u)
        BY <1>14 DEF LostInv, RoundsWhole
      <3>2. QED
        BY <1>10, <1>11, <1>13, <1>16, <1>18, <3>1
    <2>2. SecondsWhole'
      <3> SUFFICES ASSUME NEW ts \in 0..MaxTime, NEW b \in 1..cores, NEW u \in Usages,
                          Filed(ts, b, u)', ~Excused(ts)',
                          \A q \in Rounds, c \in 1..cores, v \in Usages : ~AtHand(q, ts, c, v)'
                   PROVE  \A c \in 1..cores : Filed(ts, c, u)'
        BY <1>4 DEF SecondsWhole
      <3>1. ASSUME NEW c \in 1..cores, NEW v \in Usages, IsShare(p, ts, c, v)
            PROVE  \A d \in 1..cores : Filed(ts, d, v)'
        <4>1. \A d \in 1..cores : AtHand(r, ts, d, v) \/ Filed(ts, d, v)
          BY <1>15, <1>16, <3>1 DEF LostInv, RoundsWhole
        <4>2. QED
          BY <1>10, <1>11, <1>13, <1>18, <4>1
      <3>2. CASE \E c \in 1..cores, v \in Usages : IsShare(p, ts, c, v)
        BY <1>17, <3>1, <3>2
      <3>3. CASE \A c \in 1..cores, v \in Usages : ~IsShare(p, ts, c, v)
        <4>1. /\ Filed(ts, b, u)
              /\ \A q \in Rounds, c \in 1..cores, v \in Usages : ~AtHand(q, ts, c, v)
          BY <1>12, <1>13, <3>3
        <4>2. \A c \in 1..cores : Filed(ts, c, u)
          BY <1>16, <4>1 DEF LostInv, SecondsWhole
        <4>3. QED
          BY <1>10, <4>2
      <3>4. QED
        BY <3>2, <3>3
    <2>3. QED
      BY <1>6, <1>7, <2>1, <2>2
  <1>19. QED
    BY <1>9, <1>18

\* What is deleted is too old to be missed.
LEMMA DeletedIsOld ==
  ASSUME LostInv, NEW cutoff \in cutoffs, DeleteOld(cutoff), lost' = lost
  PROVE  AsMeasured' /\ OffIsIdle' /\ RoundsWhole' /\ SecondsWhole'
  <1>1. IInv /\ now \in Int /\ UNCHANGED <<now, cores, pc, work>>
    BY CoreAssumption DEF LostInv, IInv, TypeOK, DeleteOld
  <1>2. /\ \A k \in DOMAIN samples' : k \in DOMAIN samples /\ samples'[k] = samples[k]
        /\ \A k \in DOMAIN samples : k \notin DOMAIN samples' => k[2] < now - Retention
    BY <1>1, SamplesStand DEF DeleteOld, Next
  <1>3. AsMeasured' /\ OffIsIdle'
    BY <1>1, <1>2 DEF LostInv, AsMeasured, IsMeasured, OffIsIdle
  <1>4. ASSUME NEW ts \in 0..MaxTime, NEW c \in 1..cores, NEW u \in Usages, Filed(ts, c, u)
        PROVE  Filed(ts, c, u)' \/ Excused(ts)'
    <2>1. PICK k \in DOMAIN samples : IsShare(samples[k], ts, c, u)
      BY <1>4 DEF Filed
    <2>2. k[2] = ts
      BY <1>1, <2>1 DEF IInv, SamplesAreFiled, IsShare
    <2>3. CASE k \in DOMAIN samples'
      BY <1>2, <2>1, <2>3 DEF Filed
    <2>4. CASE k \notin DOMAIN samples'
      BY <1>1, <1>2, <2>2, <2>4 DEF Excused
    <2>5. QED
      BY <2>3, <2>4
  <1>5. ASSUME NEW ts \in 0..MaxTime, NEW c \in 1..cores, NEW u \in Usages, Filed(ts, c, u)'
        PROVE  Filed(ts, c, u)
    BY <1>2, <1>5 DEF Filed
  <1>6. \A q, ts, c, u : AtHand(q, ts, c, u)' <=> AtHand(q, ts, c, u)
    BY <1>1 DEF AtHand
  <1>7. now <= now' /\ now' \in Int
    BY <1>1
  <1> HIDE DEF Filed, AtHand, Excused
  <1>8. QED
    BY <1>1, <1>3, <1>4, <1>5, <1>6, <1>7, WholeKept

\* What a restart takes from the rounds is lost.
LEMMA RestartIsLost ==
  ASSUME LostInv, Restart, cores' = cores,
         lost' = IF cores = 1 THEN {} ELSE lost \cup UNION {SecondsOf(r) : r \in Rounds}
  PROVE  AsMeasured' /\ OffIsIdle' /\ RoundsWhole' /\ SecondsWhole'
  <1>1. /\ now \in Int /\ UNCHANGED <<now, samples>>
        /\ \A r \in Rounds : work'[r].todo = <<>>
    BY CoreAssumption DEF LostInv, IInv, TypeOK, Restart, tables, Idle, With
  <1>2. AsMeasured' /\ OffIsIdle'
    BY <1>1 DEF LostInv, AsMeasured, IsMeasured, OffIsIdle
  <1>3. CASE cores = 1
    BY <1>2, <1>3, OneCoreNext
  <1>4. CASE cores # 1
    <2>1. ASSUME NEW r \in Rounds, NEW ts \in 0..MaxTime, NEW c \in 1..cores, NEW u \in Usages,
                 AtHand(r, ts, c, u)
          PROVE  Excused(ts)'
      <3>1. ts \in SecondsOf(r)
        BY <2>1 DEF AtHand, IsShare, SecondsOf, Shares
      <3>2. ts \in lost'
        BY <1>4, <3>1
      <3>3. QED
        BY <3>2 DEF Excused
    <2>2. /\ \A ts, c, u : Filed(ts, c, u)' <=> Filed(ts, c, u)
          /\ \A r \in Rounds : \A ts, c, u : ~AtHand(r, ts, c, u)'
      BY <1>1 DEF Filed, AtHand
    <2>3. lost \subseteq lost' /\ now <= now' /\ now' \in Int
      BY <1>1, <1>4
    <2> HIDE DEF Filed, AtHand, Excused
    <2>4. QED
      BY <1>1, <1>2, <2>1, <2>2, <2>3, WholeKept
  <1>5. QED
    BY <1>3, <1>4

LEMMA LostInitial == MCInit => LostInv
  <1> SUFFICES ASSUME MCInit PROVE LostInv
    OBVIOUS
  <1>1. IInv
    BY Initial DEF MCInit
  <1>2. DOMAIN samples = {} /\ \A r \in Rounds : work[r].todo = <<>>
    BY DEF MCInit, Init, Idle, With
  <1>3. QED
    BY <1>1, <1>2 DEF LostInv, AsMeasured, OffIsIdle, RoundsWhole, SecondsWhole, Filed, AtHand

LEMMA LostNextKeeps == ASSUME LostInv, [LostNext]_<<vars, lost>> PROVE LostInv'
  <1>1. IInv /\ now \in Int
    BY CoreAssumption DEF LostInv, IInv, TypeOK
  <1>2. [Next]_vars
    BY DEF LostNext, Next
  <1>3. IInv'
    BY <1>1, <1>2, NextKeeps
  <1>4. ASSUME NEW r \in Rounds, StartRound(r), lost' = lost PROVE LostInv'
    <2>1. work[r].todo = <<>>
      BY <1>4 DEF StartRound, LostInv, OffIsIdle
    <2>2. \A q \in Rounds : work'[q].todo = work[q].todo
      BY <1>1, <1>4, <2>1, PointAtHand DEF StartRound, With
    <2>3. OffIsIdle'
      BY <1>1, <1>4, <2>2, PointAtHand DEF StartRound, Goto, LostInv, OffIsIdle
    <2>4. QED
      BY <1>1, <1>3, <1>4, <2>2, <2>3, NothingMoves DEF StartRound, tables, LostInv
  <1>5. ASSUME NEW r \in Rounds, Step(r), lost' = lost \cup LostBy(r) PROVE LostInv'
    <2>1. CASE InsertSample(r)
      BY <1>3, <1>5, <2>1, FilingIsWhole DEF LostInv
    <2>2. CASE Collect(r)
      BY <1>3, <1>5, <2>2, CollectIsWhole DEF LostInv
    <2>3. CASE ~InsertSample(r) /\ ~Collect(r)
      <3>1. /\ UNCHANGED <<now, cores, samples>>
            /\ \/ pc[r] \in Filing /\ NextPoint(r)
               \/ (\A q \in Rounds : work'[q].todo = work[q].todo) /\ OffIsIdle'
        BY <1>5, <2>3, StepOfTodo
      <3>2. CASE pc[r] \in Filing /\ NextPoint(r)
        BY <1>3, <1>5, <2>3, <3>1, <3>2, DropIsLost, OffIsIdleAfter DEF LostInv
      <3>3. CASE (\A q \in Rounds : work'[q].todo = work[q].todo) /\ OffIsIdle'
        BY <1>1, <1>3, <1>5, <3>1, <3>3, NothingMoves DEF LostInv
      <3>4. QED
        BY <3>1, <3>2, <3>3
    <2>4. QED
      BY <2>1, <2>2, <2>3
  <1>6. ASSUME NEW cutoff \in cutoffs, DeleteOld(cutoff), lost' = lost PROVE LostInv'
    BY <1>3, <1>6, DeletedIsOld DEF LostInv
  <1>7. CASE /\ Restart /\ cores' = cores
             /\ lost' = IF cores = 1 THEN {} ELSE lost \cup UNION {SecondsOf(r) : r \in Rounds}
    BY <1>3, <1>7, RestartIsLost DEF LostInv
  <1>8. ASSUME UNCHANGED <<cores, samples, pc, work, lost>>, now' \in Int, now <= now'
        PROVE  LostInv'
    <2>1. OffIsIdle'
      BY <1>8 DEF LostInv, OffIsIdle
    <2>2. QED
      BY <1>3, <1>8, <2>1, NothingMoves DEF LostInv
  <1>9. CASE Tick /\ UNCHANGED lost
    <2>1. now' \in Int /\ now <= now'
      BY <1>1, <1>9 DEF Tick
    <2>2. QED
      BY <1>8, <1>9, <2>1 DEF Tick, tables
  <1>10. ASSUME NEW cutoff \in cutoffs, CleanUp \/ DeleteFails(cutoff), lost' = lost
         PROVE  LostInv'
    BY <1>1, <1>8, <1>10 DEF CleanUp, DeleteFails, tables
  <1>11. CASE UNCHANGED <<vars, lost>>
    BY <1>1, <1>8, <1>11 DEF vars, tables
  <1>12. CASE CleanUp /\ UNCHANGED lost
    BY <1>1, <1>8, <1>12 DEF CleanUp, tables
  <1>13. QED
    BY <1>4, <1>5, <1>6, <1>7, <1>9, <1>10, <1>11, <1>12 DEF LostNext

\* The shares of one size and usage in a point of the CPU chart.
SharesOf(start, ts, n, u) ==
  {k \in InRange("cpu", start) : k[2] = ts /\ samples[k].shares = n /\ samples[k].usage = u}

LEMMA SharesAddUp ==
  ASSUME LostInv, NEW start \in Int, NEW ts, NEW n \in CoreCounts, NEW u \in Usages,
         \E k \in InRange("cpu", start) : k[2] = ts
  PROVE  LET S == SharesOf(start, ts, n, u) IN
         /\ Cardinality(S) \in Nat /\ Cardinality(S) <= n
         /\ S = {} => Cardinality(S) = 0
         /\ S # {} => /\ n = cores
                      /\ ~InDoubt(ts) => Cardinality(S) = n /\ \A c \in 1..n : Filed(ts, c, u)
  <1> DEFINE S == SharesOf(start, ts, n, u)
  <1>1. IInv /\ AsMeasured /\ n \in Nat /\ n >= 1
    BY Typing, CoreAssumption DEF LostInv
  <1>2. \A k \in DOMAIN samples :
          /\ series[k[1]] = Kind(samples[k]) /\ k[2] = samples[k].ts
          /\ k[1] \in DOMAIN series /\ k[2] \in 0..MaxTime /\ k = <<k[1], k[2]>>
          /\ series[k[1]].metric = samples[k].metric
    BY <1>1 DEF IInv, TypeOK, SamplesAreFiled, Kind
  <1>3. PICK key \in DOMAIN samples : key[2] = ts /\ start <= ts /\ ts <= now
    BY DEF InRange
  <1>4. ts \in 0..MaxTime
    BY <1>2, <1>3
  <1>5. ASSUME NEW k \in S
        PROVE  /\ k \in DOMAIN samples /\ samples[k].metric = "cpu" /\ k[2] = ts
               /\ samples[k].core \in 1..n /\ n = cores /\ samples[k].usage = u
    <2>1. k \in DOMAIN samples /\ series[k[1]].metric = "cpu" /\ k[2] = ts
          /\ samples[k].shares = n /\ samples[k].usage = u
      BY <1>5 DEF InRange, SharesOf
    <2>2. series[k[1]].metric = samples[k].metric
      BY <1>2, <2>1
    <2>3. QED
      BY <1>1, <2>1, <2>2 DEF AsMeasured, IsMeasured
  <1> DEFINE f == [k \in S |-> samples[k].core]
  <1>6. f \in Injection(S, 1..n)
    <2>1. f \in [S -> 1..n]
      BY <1>5
    <2>2. ASSUME NEW j \in S, NEW k \in S, f[j] = f[k] PROVE j = k
      <3>1. series[j[1]] = series[k[1]]
        <4>1. samples[j].metric = samples[k].metric /\ samples[j].core = samples[k].core
          BY <1>5, <2>2
        <4>2. series[j[1]] = Kind(samples[j]) /\ series[k[1]] = Kind(samples[k])
          BY <1>2, <1>5
        <4>3. QED
          BY <4>1, <4>2 DEF Kind
      <3>2. j[1] = k[1] /\ j[2] = k[2]
        BY <1>1, <1>2, <1>5, <3>1 DEF IInv, OneSeriesEach
      <3>3. QED
        BY <1>2, <1>5, <3>2
    <2> HIDE DEF f
    <2>3. QED
      BY <2>1, <2>2 DEF Injection, IsInjective
  <1>7. IsFiniteSet(1..n) /\ Cardinality(1..n) = n
    BY <1>1, FS_Interval
  <1> HIDE DEF f
  <1>8. /\ IsFiniteSet(S) /\ Cardinality(S) <= n
        /\ Cardinality(S) = n <=> f \in Surjection(S, 1..n)
    BY <1>6, <1>7, FS_Injection
  <1>9. Cardinality(S) \in Nat /\ (S = {} => Cardinality(S) = 0)
    BY <1>8, FS_CardinalityType, FS_EmptySet
  <1>10. ASSUME S # {}, ~InDoubt(ts)
         PROVE  Cardinality(S) = n /\ \A c \in 1..n : Filed(ts, c, u)
    <2>1. PICK k \in S : TRUE
      BY <1>10
    <2>2. n = cores /\ Filed(ts, samples[k].core, u) /\ samples[k].core \in 1..cores
      BY <1>2, <1>5 DEF Filed, IsShare
    <2>3. ~Excused(ts)
      BY <1>10 DEF Excused, InDoubt
    <2>4. ASSUME NEW r \in Rounds, NEW c \in 1..cores, NEW v \in Usages, AtHand(r, ts, c, v)
          PROVE  FALSE
      <3>1. ts \in SecondsOf(r)
        BY <2>4 DEF AtHand, IsShare, SecondsOf, Shares
      <3>2. QED
        BY <1>10, <3>1 DEF InDoubt
    <2>5. \A c \in 1..cores : Filed(ts, c, u)
      BY <1>4, <2>2, <2>3, <2>4 DEF LostInv, SecondsWhole
    <2>6. ASSUME NEW c \in 1..n PROVE \E j \in S : f[j] = c
      <3>1. PICK j \in DOMAIN samples : IsShare(samples[j], ts, c, u)
        BY <2>2, <2>5 DEF Filed
      <3>2. j[2] = ts /\ series[j[1]].metric = "cpu"
        BY <1>2, <3>1 DEF IsShare
      <3>3. samples[j].shares = n /\ samples[j].usage = u
        BY <1>1, <2>2, <3>1 DEF IsShare, AsMeasured, IsMeasured
      <3>4. j \in S
        BY <1>3, <3>2, <3>3 DEF InRange, SharesOf
      <3>5. QED
        BY <3>1, <3>4 DEF f, IsShare
    <2>7. f \in Surjection(S, 1..n)
      BY <1>6, <2>6 DEF Injection, Surjection
    <2>8. QED
      BY <1>8, <2>2, <2>5, <2>7
  <1>11. ASSUME S # {} PROVE n = cores
    BY <1>5, <1>11
  <1>12. QED
    BY <1>8, <1>9, <1>10, <1>11

LEMMA MemoryOnce ==
  ASSUME LostInv, NEW start, NEW j \in RamChart(start), NEW k \in RamChart(start), j[2] = k[2]
  PROVE  j = k
  <1>1. IInv /\ AsMeasured
    BY DEF LostInv
  <1>2. \A i \in {j, k} : /\ i \in DOMAIN samples /\ series[i[1]] = [metric |-> "ram", hash |-> 0]
                          /\ i[1] \in DOMAIN series /\ i = <<i[1], i[2]>>
    <2>1. ASSUME NEW i \in RamChart(start)
          PROVE  /\ i \in DOMAIN samples /\ series[i[1]] = [metric |-> "ram", hash |-> 0]
                 /\ i[1] \in DOMAIN series /\ i = <<i[1], i[2]>>
      <3>1. i \in DOMAIN samples /\ series[i[1]].metric = "ram"
        BY DEF RamChart, InRange
      <3>2. series[i[1]] = Kind(samples[i]) /\ i[1] \in DOMAIN series /\ i = <<i[1], i[2]>>
        BY <1>1, <3>1 DEF IInv, TypeOK, SamplesAreFiled
      <3>3. samples[i].metric = "ram" /\ samples[i].core = 0
        BY <1>1, <3>1, <3>2 DEF Kind, AsMeasured, IsMeasured
      <3>4. QED
        BY <3>1, <3>2, <3>3 DEF Kind
    <2>2. QED
      BY <2>1
  <1>3. j[1] = k[1]
    BY <1>1, <1>2 DEF IInv, OneSeriesEach
  <1>4. QED
    BY <1>2, <1>3

\* A point that is not in doubt is the usage of any of its samples.
LEMMA PointIsWhole ==
  ASSUME LostInv, NEW start \in Int, NEW ts \in DOMAIN CpuChart(start)
  PROVE  /\ \A n \in CoreCounts, u \in Usages : CpuChart(start)[ts][n][u] <= n
         /\ InDoubt(ts) \/ \E n \in CoreCounts, u \in Usages : CpuChart(start)[ts] = Whole(n, u)
  <1> DEFINE S(n, u) == SharesOf(start, ts, n, u)
  <1>1. IInv /\ AsMeasured
    BY DEF LostInv
  <1>2. PICK key \in InRange("cpu", start) : key[2] = ts
    BY DEF CpuChart
  <1>3. CpuChart(start)[ts] =
          [n \in CoreCounts |-> [u \in Usages |-> Cardinality(S(n, u))]]
    BY <1>2 DEF CpuChart, SharesOf
  <1>4. ASSUME NEW n \in CoreCounts, NEW u \in Usages
        PROVE  /\ Cardinality(S(n, u)) \in Nat /\ Cardinality(S(n, u)) <= n
               /\ S(n, u) = {} => Cardinality(S(n, u)) = 0
               /\ S(n, u) # {} => /\ n = cores
                                  /\ ~InDoubt(ts) => /\ Cardinality(S(n, u)) = n
                                                     /\ \A c \in 1..n : Filed(ts, c, u)
    BY <1>2, SharesAddUp
  <1>5. PICK n \in CoreCounts, u \in Usages : key \in S(n, u)
    <2>1. key \in DOMAIN samples /\ series[key[1]].metric = "cpu"
      BY <1>2 DEF InRange
    <2>2. samples[key].usage \in Usages /\ samples[key].metric = "cpu"
      <3>1. samples[key] \in Points
        BY <1>1, <2>1 DEF IInv, TypeOK
      <3>2. series[key[1]] = Kind(samples[key])
        BY <1>1, <2>1 DEF IInv, SamplesAreFiled
      <3>3. QED
        BY <2>1, <3>1, <3>2 DEF Points, Kind
    <2>3. samples[key].shares = cores /\ cores \in CoreCounts
      BY <1>1, <2>1, <2>2 DEF IInv, TypeOK, AsMeasured, IsMeasured
    <2>4. QED
      BY <1>2, <2>2, <2>3 DEF SharesOf
  <1> HIDE DEF S
  <1>6. ASSUME ~InDoubt(ts) PROVE CpuChart(start)[ts] = Whole(n, u)
    <2>1. Cardinality(S(n, u)) = n /\ \A c \in 1..n : Filed(ts, c, u)
      BY <1>4, <1>5, <1>6
    <2>2. 1 \in 1..n
      <3>1. n \in Nat /\ n >= 1
        BY Typing, CoreAssumption
      <3>2. QED
        BY <3>1
    <2>3. ASSUME NEW m \in CoreCounts, NEW v \in Usages, m # n \/ v # u
          PROVE  Cardinality(S(m, v)) = 0
      <3>1. CASE S(m, v) = {}
        BY <1>4, <3>1
      <3>2. CASE S(m, v) # {}
        <4>1. m = n /\ \A c \in 1..n : Filed(ts, c, v)
          BY <1>4, <1>5, <1>6, <3>2
        <4>2. u = v
          BY <1>1, <2>1, <2>2, <4>1, OneUsage
        <4>3. QED
          BY <2>3, <4>1, <4>2
      <3>3. QED
        BY <3>1, <3>2
    <2>4. QED
      BY <1>3, <2>1, <2>3 DEF Whole
  <1>7. ASSUME NEW m \in CoreCounts, NEW v \in Usages PROVE CpuChart(start)[ts][m][v] <= m
    BY <1>3, <1>4
  <1>8. QED
    BY <1>6, <1>7

LEMMA ChartsFromInv == LostInv => ChartsAddUp
  <1> SUFFICES ASSUME LostInv, NEW start \in Starts
               PROVE  /\ \A ts \in DOMAIN CpuChart(start) :
                           /\ \A n \in CoreCounts, u \in Usages : CpuChart(start)[ts][n][u] <= n
                           /\ \/ InDoubt(ts)
                              \/ \E n \in CoreCounts, u \in Usages :
                                   CpuChart(start)[ts] = Whole(n, u)
                      /\ \A j, k \in RamChart(start) : j[2] = k[2] => j = k
    BY DEF ChartsAddUp
  <1>1. start \in Int
    BY CoreAssumption DEF Starts, LostInv, IInv, TypeOK
  <1>2. QED
    BY <1>1, PointIsWhole, MemoryOnce

\* A point of the CPU chart is the whole of one round's usage and nothing of
\* another's, unless a round is still filing its second, or a share of it was
\* dropped, refused or deleted: for any number of rounds that overlap, of cores
\* and of usages, and all failures and restarts.
THEOREM ChartsAreWhole == LostSpec => []ChartsAddUp
  <1>1. LostInv /\ [LostNext]_<<vars, lost>> => LostInv'
    BY LostNextKeeps
  <1>2. QED
    BY <1>1, LostInitial, ChartsFromInv, PTL DEF LostSpec

\* The instance is one of them.
LEMMA InstanceIsLost == MCSpec => LostSpec
  <1>1. [MCNext]_<<vars, lost>> => [LostNext]_<<vars, lost>>
    BY DEF MCNext
  <1>2. QED
    BY <1>1, PTL DEF MCSpec, LostSpec
=============================================================================
