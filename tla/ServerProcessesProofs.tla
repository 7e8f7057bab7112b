------------------------ MODULE ServerProcessesProofs ------------------------
(***************************************************************************)
(* Safety of the registry and of the supervisor for every number of        *)
(* requests, programs, process ids and configured processes.               *)
(*                                                                         *)
(* Each property speaks of one kind of setting, and so does each inductive *)
(* invariant: nothing stops (UpIInv), nothing starts (DownIInv), starts    *)
(* come one by one (OnceIInv), creations and updates (RowsIInv), starts,   *)
(* updates and deletions (StayIInv), starts, stops, updates (TimesIInv).   *)
(* The last four rest on SoloIInv: what comes one by one is alone.         *)
(***************************************************************************)
EXTENDS ServerProcesses, FiniteSetTheorems, WellFoundedInduction, TLAPS

-----------------------------------------------------------------------------
(* A finite set of orders has a largest one.                               *)

LEMMA FiniteSetHasMaximum ==
  ASSUME NEW S \in SUBSET Int, IsFiniteSet(S), S # {}
  PROVE  \E n \in S : \A m \in S : m <= n
  <1> DEFINE Above(x) == {y \in S : y > x}
             T == {Above(x) : x \in S}
  <1>1. T \subseteq FiniteSubsetsOf(S) /\ T # {}
    <2>1. T \subseteq SUBSET S /\ T # {}
      OBVIOUS
    <2>2. FiniteSubsetsOf(S) = SUBSET S
      BY FS_FiniteSubsetsOfFinite
    <2>3. QED
      BY <2>1, <2>2
  <1>2. PICK A \in T : \A B \in T : <<B, A>> \notin StrictSubsetOrdering(S)
    BY <1>1, FS_StrictSubsetOrderingWellFounded, WFMin
  <1>3. PICK n \in S : A = Above(n)
    OBVIOUS
  <1>4. ASSUME NEW m \in S, m > n PROVE FALSE
    <2>1. Above(m) \subseteq A /\ m \in A /\ m \notin Above(m)
      <3>1. \A y \in S : y \in Int /\ n \in Int /\ m \in Int
        OBVIOUS
      <3>2. \A y \in S : y > m => y > n
        BY <3>1, <1>4
      <3>3. A = {y \in S : y > n}
        BY <1>3
      <3>4. m \in A
        BY <1>4, <3>3
      <3>5. Above(m) \subseteq A
        BY <3>2, <3>3
      <3>6. ~(m > m)
        BY <3>1
      <3>7. QED
        BY <3>4, <3>5, <3>6
    <2>2. Above(m) \in SUBSET S /\ A \in SUBSET S
      BY <1>3
    <2> HIDE DEF Above
    <2>3. <<Above(m), A>> \in StrictSubsetOrdering(S)
      BY <2>1, <2>2 DEF StrictSubsetOrdering
    <2> USE DEF Above
    <2>4. QED
      BY <1>2, <2>3
  <1>5. QED
    BY <1>4

-----------------------------------------------------------------------------
(* Parts of the type invariant.                                            *)

RowsOK ==
  /\ rows \in [1..MaxRows -> Row \cup {None}]
  /\ nextId \in 1..(MaxRows + 1)
  /\ \A i \in Ids : rows[i].id = i /\ i < nextId

OsOK ==
  /\ procs \in [Pids -> Programs \cup {None}]
  /\ listening \subseteq {p \in Pids : procs[p] # None}

Placed == StartSteps \cup StopSteps \cup {"confirm"}

RequestsOK ==
  /\ pc \in [Requests -> Steps]
  /\ work \in [Requests -> Work]
  /\ \A r \in Requests : pc[r] \in Placed => work[r].i \in DOMAIN work[r].list

LEMMA Types == TypeOK <=> setting \in Settings /\ RowsOK /\ OsOK /\ RequestsOK
  BY DEF TypeOK, RowsOK, OsOK, RequestsOK, Placed

\* The rows of the table are rows, and a finite number of them.
LEMMA TableFacts ==
  ASSUME RowsOK
  PROVE  /\ Ids \subseteq 1..MaxRows /\ IsFiniteSet(Ids) /\ Cardinality(Ids) \in Nat
         /\ \A i \in Ids : rows[i] \in Row
         /\ DOMAIN rows = 1..MaxRows
  <1>1. Ids \subseteq 1..MaxRows /\ DOMAIN rows = 1..MaxRows
    BY DEF RowsOK, Ids
  <1>2. IsFiniteSet(1..MaxRows)
    BY FS_Interval, TableAssumption
  <1>3. \A i \in Ids : rows[i] \in Row
    BY <1>1 DEF RowsOK, Ids
  <1>4. QED
    BY <1>1, <1>2, <1>3, FS_Subset, FS_CardinalityType

\* Every value of the environment's programs.
LEMMA ProgramFacts ==
  ASSUME NEW row \in Row
  PROVE  Binary[row.path] \in Programs /\ Binary[row.path] # None /\ row # None
  BY NoneAssumption DEF Row, Programs

LEMMA ListingFacts ==
  ASSUME RowsOK, NEW list \in Listings
  PROVE  /\ list \in Seq(Row) /\ DOMAIN list = 1..Len(list) /\ Len(list) \in Nat
         /\ \A j \in DOMAIN list : list[j] \in {rows[i] : i \in Ids}
         /\ \A j, k \in DOMAIN list :
              j < k => list[j].id # list[k].id /\ list[j].order <= list[k].order
  <1>1. list \in [1..Cardinality(Ids) -> {rows[i] : i \in Ids}]
    BY DEF Listings
  <1>2. {rows[i] : i \in Ids} \subseteq Row /\ Cardinality(Ids) \in Nat
    BY TableFacts
  <1>3. list \in Seq(Row)
    BY <1>1, <1>2
  <1>4. \A j, k \in DOMAIN list :
          j < k => list[j].id # list[k].id /\ list[j].order <= list[k].order
    BY DEF Listings
  <1>5. QED
    BY <1>1, <1>3, <1>4

LEMMA MaxOrderFacts ==
  ASSUME RowsOK
  PROVE  MaxOrder \in Int /\ \A i \in Ids : rows[i].order <= MaxOrder
  <1> DEFINE Orders == {rows[i].order : i \in Ids}
  <1>1. CASE Ids = {}
    BY <1>1 DEF MaxOrder
  <1>2. CASE Ids # {}
    <2>1. Orders \subseteq Int /\ Orders # {}
      BY <1>2, TableFacts DEF Row
    <2>2. IsFiniteSet(Orders)
      <3> DEFINE f == [i \in Ids |-> rows[i].order]
      <3>1. f \in Surjection(Ids, Orders)
        BY DEF Surjection
      <3>2. QED
        BY <3>1, FS_Surjection, TableFacts
    <2>3. \E n \in Orders : \A i \in Ids : rows[i].order <= n
      BY <2>1, <2>2, FiniteSetHasMaximum
    <2>4. MaxOrder = CHOOSE n \in Orders : \A i \in Ids : rows[i].order <= n
      BY <1>2 DEF MaxOrder
    <2>5. QED
      BY <2>1, <2>3, <2>4
  <1>3. QED
    BY <1>1, <1>2

-----------------------------------------------------------------------------
(* Type correctness.                                                       *)

LEMMA NothingToDo == NoWork \in Work /\ NoWork.list = <<>> /\ "idle" \in Steps \ Placed
  BY TableAssumption DEF NoWork, Work, Steps, Placed, StartSteps, StopSteps

\* What a request on listed rows, or on one row, begins with.
OnList(k, list, i) == [NoWork EXCEPT !.kind = k, !.list = list, !.i = i]

LEMMA WorkOnList ==
  ASSUME NEW k \in RequestKinds, NEW list \in Seq(Row), NEW i \in DOMAIN list
  PROVE  /\ OnList(k, list, i) \in Work
         /\ OnList(k, list, i).kind = k /\ OnList(k, list, i).list = list
         /\ OnList(k, list, i).i = i /\ OnList(k, list, i).i \in DOMAIN OnList(k, list, i).list
  <1>1. i \in Nat
    OBVIOUS
  <1>2. QED
    BY <1>1, NothingToDo DEF OnList, Work

LEMMA InitialRows ==
  ASSUME Init, NEW i \in 1..MaxRows
  PROVE  \/ i > Len(Configured) /\ rows[i] = None
         \/ /\ i \in DOMAIN Configured /\ i < nextId
            /\ rows[i] \in Row /\ rows[i] # None /\ rows[i].id = i
            /\ rows[i].path = Configured[i].path /\ rows[i].order = i
            /\ rows[i].times = IF Running(Binary[Configured[i].path]) THEN <<"start">> ELSE <<>>
  <1>1. CASE i > Len(Configured)
    BY <1>1 DEF Init
  <1>2. CASE ~(i > Len(Configured))
    <2>1. i \in 1..Len(Configured) /\ i \in DOMAIN Configured
      BY <1>2, TableAssumption
    <2>2. Configured[i] \in [path : Paths, port : BOOLEAN]
      <3> DEFINE S == [path : Paths, port : BOOLEAN]
      <3>1. Configured \in Seq(S)
        BY TableAssumption
      <3> HIDE DEF S
      <3>2. Configured[i] \in S
        BY <2>1, <3>1
      <3>3. QED
        BY <3>2 DEF S
    <2> DEFINE row == NewRow(i, Configured[i].path, Configured[i].port, i)
    <2>3. row \in Row /\ [row EXCEPT !.times = <<"start">>] \in Row
      BY <2>1, <2>2 DEF NewRow, Row, Times
    <2>4. rows[i] = IF Running(Binary[row.path]) THEN [row EXCEPT !.times = <<"start">>] ELSE row
      BY <1>2 DEF Init
    <2>5. i < nextId
      BY <2>1, TableAssumption DEF Init
    <2>6. rows[i] \in Row
      BY <2>3, <2>4
    <2>7. QED
      BY <2>1, <2>4, <2>5, <2>6, NoneAssumption DEF NewRow
  <1>3. QED
    BY <1>1, <1>2

LEMMA InitialTypes == Init => TypeOK
  <1> SUFFICES ASSUME Init PROVE TypeOK
    OBVIOUS
  <1>1. RowsOK
    <2>1. \A i \in 1..MaxRows : /\ rows[i] \in Row \cup {None}
                                /\ rows[i] # None => rows[i].id = i /\ i < nextId
      BY InitialRows
    <2>2. rows \in [1..MaxRows -> Row \cup {None}]
      BY <2>1 DEF Init
    <2>3. nextId \in 1..(MaxRows + 1)
      BY TableAssumption DEF Init
    <2>4. QED
      BY <2>1, <2>2, <2>3 DEF RowsOK, Ids
  <1>2. OsOK
    <2>1. \A i \in DOMAIN Configured : Binary[Configured[i].path] \in Programs
      <3> DEFINE S == [path : Paths, port : BOOLEAN]
      <3>1. Configured \in Seq(S)
        BY TableAssumption
      <3> HIDE DEF S
      <3>2. \A i \in DOMAIN Configured : Configured[i] \in S
        BY <3>1
      <3>3. QED
        BY <3>2 DEF S, Programs
    <2>2. QED
      BY <2>1 DEF Init, OsOK
  <1>3. RequestsOK
    BY NothingToDo DEF Init, RequestsOK
  <1>4. QED
    BY <1>1, <1>2, <1>3, Types DEF Init

\* Request r goes to a step, with these locals.
Moves(r, step, w) == Goto(r, step) /\ Local(r, w)

LEMMA RequestsKept ==
  ASSUME RequestsOK, NEW r \in Requests, NEW step \in Steps, NEW w \in Work,
         step \in Placed => w.i \in DOMAIN w.list, Moves(r, step, w)
  PROVE  RequestsOK'
  BY DEF RequestsOK, Moves, Goto, Local

LEMMA ReplyKeepsRequests == ASSUME RequestsOK, NEW r \in Requests, Reply(r) PROVE RequestsOK'
  BY NothingToDo, RequestsKept DEF Reply, Moves

\* A step from one place in the list to another, or the same.
LEMMA GotoKeepsRequests ==
  ASSUME RequestsOK, NEW r \in Requests, NEW step \in Steps, Goto(r, step), UNCHANGED work,
         step \in Placed => pc[r] \in Placed
  PROVE  RequestsOK'
  BY DEF RequestsOK, Goto

LEMMA SingleRow ==
  ASSUME RowsOK, NEW id \in Ids
  PROVE  <<rows[id]>> \in Seq(Row) /\ 1 \in DOMAIN <<rows[id]>> /\ id \in 0..MaxRows
  BY TableFacts, TableAssumption

\* Reordering leaves the rows as they are, but for their places.
LEMMA ReorderKeepsRows ==
  ASSUME RowsOK, NEW r \in Requests, Reorder(r)
  PROVE  /\ RowsOK' /\ Ids' = Ids
         /\ \A i \in Ids : /\ rows'[i].path = rows[i].path /\ rows'[i].port = rows[i].port
                           /\ rows'[i].times = rows[i].times
  <1>1. PICK ids \in SUBSET Ids : \E place \in [ids -> Places] :
          rows' = [i \in 1..MaxRows |->
                     IF i \in ids THEN [rows[i] EXCEPT !.order = place[i]] ELSE rows[i]]
    BY DEF Reorder
  <1>2. PICK place \in [ids -> Places] :
          rows' = [i \in 1..MaxRows |->
                     IF i \in ids THEN [rows[i] EXCEPT !.order = place[i]] ELSE rows[i]]
    BY <1>1
  <1>3. nextId' = nextId
    BY DEF Reorder
  <1>4. ASSUME NEW i \in Ids
        PROVE  /\ rows'[i] \in Row /\ rows'[i].id = rows[i].id /\ rows'[i].path = rows[i].path
               /\ rows'[i].port = rows[i].port /\ rows'[i].times = rows[i].times
    <2>1. i \in 1..MaxRows /\ rows[i] \in Row
      BY TableFacts
    <2>2. CASE i \in ids
      <3>1. place[i] \in Int /\ rows'[i] = [rows[i] EXCEPT !.order = place[i]]
        BY <1>2, <2>1, <2>2, InputAssumption
      <3>2. QED
        BY <2>1, <3>1 DEF Row
    <2>3. CASE i \notin ids
      BY <1>2, <2>1, <2>3
    <2>4. QED
      BY <2>2, <2>3
  <1>5. ASSUME NEW i \in 1..MaxRows, i \notin Ids PROVE rows'[i] = None
    BY <1>2, <1>5 DEF RowsOK, Ids
  <1>6. rows' \in [1..MaxRows -> Row \cup {None}] /\ Ids' = Ids
    <2>1. DOMAIN rows' = 1..MaxRows /\ Ids \subseteq 1..MaxRows
      BY <1>2, TableFacts
    <2>2. \A i \in Ids : rows'[i] # None
      BY <1>4, ProgramFacts
    <2>3. Ids' = Ids
      BY <1>5, <2>1, <2>2 DEF Ids
    <2>4. \A i \in 1..MaxRows : rows'[i] \in Row \cup {None}
      BY <1>4, <1>5
    <2>5. rows' = [i \in 1..MaxRows |-> rows'[i]]
      BY <1>2
    <2>6. QED
      BY <2>3, <2>4, <2>5
  <1>7. RowsOK'
    BY <1>3, <1>4, <1>6 DEF RowsOK
  <1>8. QED
    BY <1>4, <1>6, <1>7

LEMMA ArriveKeepsTypes ==
  ASSUME TypeOK, NEW r \in Requests, Arrive(r)
  PROVE  TypeOK'
  <1>1. RowsOK /\ OsOK /\ RequestsOK /\ setting \in Settings
    BY Types
  <1>2. ASSUME NEW step \in Placed \cup {"validate"}, NEW w \in Work,
               step \in Placed => w.i \in DOMAIN w.list, Begin(r, step, w)
        PROVE  TypeOK'
    <2>1. RequestsOK'
      <3>1. step \in Steps
        BY DEF Placed, Steps, StartSteps, StopSteps, RegistrySteps
      <3>2. QED
        BY <1>1, <1>2, <3>1, RequestsKept DEF Begin, Moves
    <2>2. RowsOK' /\ OsOK' /\ setting' = setting
      BY <1>1, <1>2 DEF Begin, Goto, table, os, RowsOK, OsOK, Ids
    <2>3. QED
      BY <1>1, <2>1, <2>2 DEF TypeOK, RowsOK, OsOK, RequestsOK, Placed
  <1>3. ASSUME NEW list \in Listings, list # <<>>
        PROVE  list \in Seq(Row) /\ 1 \in DOMAIN list /\ Len(list) \in DOMAIN list
    BY <1>1, <1>3, ListingFacts
  <1>4. CASE BeginStartAll(r)
    <2>1. PICK list \in Listings : list # <<>> /\ Begin(r, "check", OnList("startAll", list, 1))
      BY <1>4 DEF BeginStartAll, OnList
    <2>2. QED
      BY <1>2, <1>3, <2>1, WorkOnList DEF RequestKinds, Placed, StartSteps
  <1>5. CASE BeginStopAll(r)
    <2>1. PICK list \in Listings : list # <<>> /\ Begin(r, "scan", OnList("stopAll", list, Len(list)))
      BY <1>5 DEF BeginStopAll, OnList
    <2> DEFINE n == Len(list)
    <2>2. n \in DOMAIN list /\ list \in Seq(Row) /\ "stopAll" \in RequestKinds
      BY <1>3, <2>1 DEF RequestKinds
    <2> HIDE DEF n
    <2>3. OnList("stopAll", list, n) \in Work
          /\ OnList("stopAll", list, n).i \in DOMAIN OnList("stopAll", list, n).list
      BY <2>2, WorkOnList
    <2>4. QED
      BY <1>2, <2>1, <2>3 DEF Placed, StartSteps, StopSteps, n
  <1>6. CASE BeginStart(r)
    <2>1. PICK id \in Ids : Begin(r, "check", OnList("start", <<rows[id]>>, 1))
      BY <1>6 DEF BeginStart, OnList
    <2>2. OnList("start", <<rows[id]>>, 1) \in Work
          /\ OnList("start", <<rows[id]>>, 1).i \in DOMAIN OnList("start", <<rows[id]>>, 1).list
      BY <1>1, SingleRow, WorkOnList DEF RequestKinds
    <2>3. QED
      BY <1>2, <2>1, <2>2 DEF Placed, StartSteps, StopSteps
  <1>7. CASE BeginStop(r)
    <2>1. PICK id \in Ids : Begin(r, "scan", OnList("stop", <<rows[id]>>, 1))
      BY <1>7 DEF BeginStop, OnList
    <2>2. OnList("stop", <<rows[id]>>, 1) \in Work
          /\ OnList("stop", <<rows[id]>>, 1).i \in DOMAIN OnList("stop", <<rows[id]>>, 1).list
      BY <1>1, SingleRow, WorkOnList DEF RequestKinds
    <2>3. QED
      BY <1>2, <2>1, <2>2 DEF Placed, StartSteps, StopSteps
  <1>8. CASE BeginDelete(r)
    <2>1. PICK id \in Ids :
            Begin(r, "confirm", [OnList("delete", <<rows[id]>>, 1) EXCEPT !.id = id])
      BY <1>8 DEF BeginDelete, OnList, NoWork
    <2>2. id \in 0..MaxRows
      BY <1>1, SingleRow
    <2> DEFINE w == [OnList("delete", <<rows[id]>>, 1) EXCEPT !.id = id]
    <2>3. w \in Work /\ w.i \in DOMAIN w.list
      <3>1. /\ OnList("delete", <<rows[id]>>, 1) \in Work
            /\ OnList("delete", <<rows[id]>>, 1).i \in DOMAIN OnList("delete", <<rows[id]>>, 1).list
        BY <1>1, SingleRow, WorkOnList DEF RequestKinds
      <3>2. QED
        BY <2>2, <3>1 DEF Work
    <2>4. QED
      BY <1>2, <2>1, <2>3 DEF Placed
  <1>9. CASE BeginCreate(r)
    <2>1. PICK path \in Paths, port \in Ports :
            Begin(r, "validate", [NoWork EXCEPT !.kind = "create", !.path = path, !.port = port])
      BY <1>9 DEF BeginCreate
    <2>2. [NoWork EXCEPT !.kind = "create", !.path = path, !.port = port] \in Work
      BY NothingToDo, InputAssumption DEF Work, RequestKinds
    <2>3. QED
      BY <1>2, <2>1, <2>2 DEF Placed, StartSteps, StopSteps
  <1>10. CASE BeginUpdate(r)
    <2>1. PICK id \in 1..MaxRows, path \in Paths, port \in Ports :
            Begin(r, "validate",
                  [NoWork EXCEPT !.kind = "update", !.id = id, !.path = path, !.port = port])
      BY <1>10 DEF BeginUpdate
    <2>2. id \in 0..MaxRows
      BY TableAssumption
    <2>3. [NoWork EXCEPT !.kind = "update", !.id = id, !.path = path, !.port = port] \in Work
      BY <2>2, NothingToDo, InputAssumption DEF Work, RequestKinds
    <2>4. QED
      BY <1>2, <2>1, <2>3 DEF Placed, StartSteps, StopSteps
  <1>11. CASE Reorder(r)
    <2>1. RowsOK'
      BY <1>1, <1>11, ReorderKeepsRows
    <2>2. QED
      BY <1>1, <1>11, <2>1 DEF Reorder, os, TypeOK, RowsOK, OsOK, RequestsOK, Placed
  <1>12. QED
    BY <1>4, <1>5, <1>6, <1>7, <1>8, <1>9, <1>10, <1>11 DEF Arrive

LEMMA StepKeepsRequests ==
  ASSUME RowsOK, RequestsOK, NEW r \in Requests, Step(r)
  PROVE  RequestsOK'
  <1>1. ASSUME NEW step \in {"spawn", "wait", "started", "stopped", "order", "update", "delete"},
               Goto(r, step), UNCHANGED work,
               pc[r] \in Placed \/ step \in {"order", "update"}
        PROVE  RequestsOK'
    BY <1>1, GotoKeepsRequests
       DEF Placed, Steps, StartSteps, StopSteps, RegistrySteps
  <1>2. CASE \/ CheckNotRunning(r) \/ Spawn(r) \/ HealthCheckPasses(r) \/ KillsDone(r)
             \/ ValidatePath(r) \/ ConfirmStopped(r)
    BY <1>1, <1>2
       DEF CheckNotRunning, Spawn, HealthCheckPasses, KillsDone, ValidatePath, ConfirmStopped,
           Placed, StartSteps, StopSteps
  <1>3. CASE \/ RefuseStart(r) \/ SpawnFails(r) \/ HealthCheckTimesOut(r) \/ RefuseStop(r)
             \/ KillFailed(r) \/ RejectPath(r) \/ InsertRow(r) \/ UpdateRow(r)
             \/ RefuseDelete(r) \/ DeleteRow(r) \/ RegistryFails(r)
    <2>1. Reply(r)
      BY <1>3
         DEF RefuseStart, SpawnFails, HealthCheckTimesOut, RefuseStop, KillFailed, RejectPath,
             InsertRow, UpdateRow, RefuseDelete, DeleteRow, RegistryFails
    <2>2. QED
      BY <2>1, ReplyKeepsRequests
  <1>4. work[r] \in Work /\ work[r].list \in Seq(Row) /\ Len(work[r].list) \in Nat
        /\ work[r].i \in Nat /\ (pc[r] \in Placed => work[r].i \in DOMAIN work[r].list)
    BY DEF RequestsOK, Work
  <1>5. CASE RecordStart(r)
    <2>1. CASE work[r].i < Len(work[r].list)
      <3>1. [work[r] EXCEPT !.i = @ + 1] \in Work
        BY <1>4 DEF Work
      <3>2. Moves(r, "check", [work[r] EXCEPT !.i = @ + 1])
        BY <1>5, <2>1 DEF RecordStart, Moves
      <3>3. [work[r] EXCEPT !.i = @ + 1].i \in DOMAIN [work[r] EXCEPT !.i = @ + 1].list
        BY <1>4, <2>1 DEF Work
      <3>4. QED
        BY <3>1, <3>2, <3>3, RequestsKept DEF Steps, StartSteps
    <2>2. CASE ~(work[r].i < Len(work[r].list))
      BY <1>5, <2>2, ReplyKeepsRequests DEF RecordStart
    <2>3. QED
      BY <2>1, <2>2
  <1>6. CASE RecordEnd(r)
    <2>1. CASE work[r].i > 1
      <3>1. [work[r] EXCEPT !.i = @ - 1] \in Work
        BY <1>4, <2>1 DEF Work
      <3>2. Moves(r, "scan", [work[r] EXCEPT !.i = @ - 1])
        BY <1>6, <2>1 DEF RecordEnd, Moves
      <3>3. pc[r] \in Placed
        BY <1>6 DEF RecordEnd, Placed, StopSteps
      <3>4. [work[r] EXCEPT !.i = @ - 1].i \in DOMAIN [work[r] EXCEPT !.i = @ - 1].list
        BY <1>4, <2>1, <3>3 DEF Work
      <3>5. QED
        BY <3>1, <3>2, <3>4, RequestsKept DEF Steps, StopSteps
    <2>2. CASE ~(work[r].i > 1)
      BY <1>6, <2>2, ReplyKeepsRequests DEF RecordEnd
    <2>3. QED
      BY <2>1, <2>2
  <1>7. CASE Scan(r)
    <2>1. [work[r] EXCEPT !.targets = PidsOf(Program(r))] \in Work
      BY <1>4 DEF Work, PidsOf
    <2>2. Moves(r, "kill", [work[r] EXCEPT !.targets = PidsOf(Program(r))])
      BY <1>7 DEF Scan, Moves
    <2>3. pc[r] \in Placed
      BY <1>7 DEF Scan, Placed, StopSteps
    <2>4. QED
      BY <1>4, <2>1, <2>2, <2>3, RequestsKept DEF Steps, StopSteps, Work
  <1>8. CASE Kill(r)
    <2>1. PICK w \in Work : /\ work' = [work EXCEPT ![r] = w]
                            /\ w.i = work[r].i /\ w.list = work[r].list
      <3>1. PICK p \in work[r].targets, fails \in BOOLEAN :
              Local(r, [work[r] EXCEPT !.targets = @ \ {p}, !.failed = @ \/ fails])
        BY <1>8 DEF Kill
      <3>2. [work[r] EXCEPT !.targets = @ \ {p}, !.failed = @ \/ fails] \in Work
        BY <1>4 DEF Work
      <3>3. QED
        BY <1>4, <3>1, <3>2 DEF Local, Work
    <2>2. UNCHANGED pc
      BY <1>8 DEF Kill
    <2>3. QED
      BY <2>1, <2>2 DEF RequestsOK
  <1>9. CASE ReadMaxOrder(r)
    <2>1. [work[r] EXCEPT !.order = MaxOrder + 1] \in Work
      BY <1>4, MaxOrderFacts DEF Work
    <2>2. Moves(r, "insert", [work[r] EXCEPT !.order = MaxOrder + 1])
      BY <1>9 DEF ReadMaxOrder, Moves
    <2>3. QED
      BY <2>1, <2>2, RequestsKept DEF Steps, Placed, RegistrySteps, StartSteps, StopSteps
  <1>10. QED
    BY <1>2, <1>3, <1>5, <1>6, <1>7, <1>8, <1>9 DEF Step

-----------------------------------------------------------------------------
(* Every request is at a step of its kind.                                 *)

RightStep(r) ==
  \/ pc[r] = "idle" /\ work[r].kind = None
  \/ /\ work[r].kind \in Kinds
     /\ \/ work[r].kind \in {"startAll", "start"} /\ pc[r] \in StartSteps
        \/ work[r].kind \in {"stopAll", "stop"} /\ pc[r] \in StopSteps
        \/ /\ work[r].kind = "create" /\ pc[r] \in {"validate", "order", "insert"}
           /\ work[r].path \in Paths /\ work[r].id = 0
        \/ /\ work[r].kind = "update" /\ pc[r] \in {"validate", "update"}
           /\ work[r].path \in Paths
        \/ work[r].kind = "delete" /\ pc[r] \in {"confirm", "delete"}

KindsOK == \A r \in Requests : RightStep(r)

LEMMA KindsKept ==
  ASSUME RequestsOK, KindsOK, NEW r \in Requests, UNCHANGED setting,
         \/ UNCHANGED pc \/ \E step \in Steps : pc' = [pc EXCEPT ![r] = step],
         \/ UNCHANGED work \/ \E w \in Work : work' = [work EXCEPT ![r] = w],
         RightStep(r)'
  PROVE  KindsOK'
  <1>1. ASSUME NEW s \in Requests, s # r PROVE UNCHANGED <<pc[s], work[s]>>
    BY <1>1 DEF RequestsOK
  <1>2. QED
    BY <1>1 DEF KindsOK, RightStep, Kinds

\* A request begins at the first step of its kind ...
LEMMA ArriveKeepsKinds ==
  ASSUME TypeOK, KindsOK, NEW r \in Requests, Arrive(r)
  PROVE  KindsOK'
  <1>1. RequestsOK
    BY Types
  <1>2. CASE Reorder(r)
    BY <1>2 DEF Reorder, KindsOK, RightStep, Kinds
  <1>3. ASSUME NEW step, NEW w, Begin(r, step, w),
               \/ w.kind \in {"startAll", "start"} /\ step = "check"
               \/ w.kind \in {"stopAll", "stop"} /\ step = "scan"
               \/ w.kind = "create" /\ step = "validate" /\ w.path \in Paths /\ w.id = 0
               \/ w.kind = "update" /\ step = "validate" /\ w.path \in Paths
               \/ w.kind = "delete" /\ step = "confirm"
        PROVE  KindsOK'
    <2>1. /\ pc' = [pc EXCEPT ![r] = step] /\ work' = [work EXCEPT ![r] = w]
          /\ UNCHANGED setting /\ w.kind \in Kinds
      BY <1>3 DEF Begin, Admitted, Goto, Local
    <2>2. ASSUME NEW s \in Requests, s # r PROVE RightStep(s)'
      BY <1>1, <2>1, <2>2 DEF KindsOK, RightStep, Kinds, RequestsOK
    <2>3. pc'[r] = step /\ work'[r] = w
      BY <1>1, <2>1 DEF RequestsOK
    <2>4. RightStep(r)'
      BY <1>3, <2>1, <2>3 DEF RightStep, Kinds, StartSteps, StopSteps
    <2>5. QED
      BY <2>2, <2>4 DEF KindsOK
  <1>4. CASE BeginStartAll(r) \/ BeginStart(r) \/ BeginStopAll(r) \/ BeginStop(r)
    BY <1>3, <1>4 DEF BeginStartAll, BeginStart, BeginStopAll, BeginStop, NoWork
  <1>5. CASE BeginCreate(r) \/ BeginUpdate(r) \/ BeginDelete(r)
    BY <1>3, <1>5 DEF BeginCreate, BeginUpdate, BeginDelete, NoWork
  <1>6. QED
    BY <1>2, <1>4, <1>5 DEF Arrive

\* ... and goes on to another one of them.
LEMMA StepKeepsKinds ==
  ASSUME RequestsOK, KindsOK, RequestsOK', NEW r \in Requests, Step(r), UNCHANGED setting
  PROVE  KindsOK'
  <1>1. RightStep(r) /\ work[r] \in Work /\ pc[r] \in Steps
    BY DEF KindsOK, RequestsOK
  <1>2. ASSUME Reply(r) PROVE KindsOK'
    <2>1. pc' = [pc EXCEPT ![r] = "idle"] /\ work' = [work EXCEPT ![r] = NoWork]
      BY <1>2 DEF Reply, Goto, Local
    <2>2. RightStep(r)'
      BY <2>1 DEF RightStep, RequestsOK, NoWork
    <2>3. QED
      BY <2>1, <2>2, NothingToDo, KindsKept
  <1>3. ASSUME NEW step \in Steps, NEW w \in Work,
               pc' = [pc EXCEPT ![r] = step], work' = [work EXCEPT ![r] = w],
               w.kind = work[r].kind, w.path = work[r].path, w.id = work[r].id,
               \/ pc[r] \in StartSteps /\ step \in StartSteps
               \/ pc[r] \in StopSteps /\ step \in StopSteps
               \/ pc[r] = "validate" /\ work[r].kind = "create" /\ step = "order"
               \/ pc[r] = "validate" /\ work[r].kind # "create" /\ step = "update"
               \/ pc[r] = "order" /\ step = "insert"
               \/ pc[r] = "confirm" /\ step = "delete"
        PROVE  KindsOK'
    <2>1. pc'[r] = step /\ work'[r] = w
      BY <1>3 DEF RequestsOK
    <2>2. RightStep(r)'
      BY <1>1, <1>3, <2>1 DEF RightStep, Kinds, StartSteps, StopSteps
    <2>3. QED
      BY <1>3, <2>2, KindsKept
  <1>4. work = [work EXCEPT ![r] = work[r]] /\ pc = [pc EXCEPT ![r] = pc[r]]
    BY DEF RequestsOK
  <1>5. ASSUME NEW step \in Steps, pc' = [pc EXCEPT ![r] = step], UNCHANGED work,
               \/ pc[r] \in StartSteps /\ step \in StartSteps
               \/ pc[r] \in StopSteps /\ step \in StopSteps
               \/ pc[r] = "validate" /\ work[r].kind = "create" /\ step = "order"
               \/ pc[r] = "validate" /\ work[r].kind # "create" /\ step = "update"
               \/ pc[r] = "confirm" /\ step = "delete"
        PROVE  KindsOK'
    BY <1>1, <1>3, <1>4, <1>5
  <1>6. CASE \/ CheckNotRunning(r) \/ Spawn(r) \/ HealthCheckPasses(r) \/ KillsDone(r)
             \/ ValidatePath(r) \/ ConfirmStopped(r)
    BY <1>5, <1>6
       DEF CheckNotRunning, Spawn, HealthCheckPasses, KillsDone, ValidatePath, ConfirmStopped,
           Goto, Steps, StartSteps, StopSteps, RegistrySteps
  <1>7. CASE \/ RefuseStart(r) \/ SpawnFails(r) \/ HealthCheckTimesOut(r) \/ RefuseStop(r)
             \/ KillFailed(r) \/ RejectPath(r) \/ InsertRow(r) \/ UpdateRow(r)
             \/ RefuseDelete(r) \/ DeleteRow(r) \/ RegistryFails(r)
    BY <1>2, <1>7
       DEF RefuseStart, SpawnFails, HealthCheckTimesOut, RefuseStop, KillFailed, RejectPath,
           InsertRow, UpdateRow, RefuseDelete, DeleteRow, RegistryFails
  <1>8. CASE RecordStart(r) \/ RecordEnd(r) \/ Scan(r) \/ ReadMaxOrder(r) \/ Kill(r)
    <2>1. ASSUME ~Reply(r)
          PROVE  \E step \in Steps : \E w :
                   /\ pc' = [pc EXCEPT ![r] = step] /\ work' = [work EXCEPT ![r] = w]
                   /\ w.kind = work[r].kind /\ w.path = work[r].path /\ w.id = work[r].id
                   /\ \/ pc[r] \in StartSteps /\ step \in StartSteps
                      \/ pc[r] \in StopSteps /\ step \in StopSteps
                      \/ pc[r] = "order" /\ step = "insert"
      <3>1. CASE RecordStart(r)
        BY <1>1, <2>1, <3>1 DEF RecordStart, Goto, Local, Steps, StartSteps, Work
      <3>2. CASE RecordEnd(r)
        BY <1>1, <2>1, <3>2 DEF RecordEnd, Goto, Local, Steps, StopSteps, Work
      <3>3. CASE Scan(r)
        BY <1>1, <3>3 DEF Scan, Goto, Local, Steps, StopSteps, Work
      <3>4. CASE ReadMaxOrder(r)
        BY <1>1, <3>4 DEF ReadMaxOrder, Goto, Local, Steps, RegistrySteps, Work
      <3>5. CASE Kill(r)
        BY <1>1, <1>4, <3>5 DEF Kill, Local, Steps, StopSteps, Work
      <3>6. QED
        BY <1>8, <3>1, <3>2, <3>3, <3>4, <3>5
    <2>2. \A w : work' = [work EXCEPT ![r] = w] => w \in Work
      BY DEF RequestsOK
    <2>3. QED
      BY <1>2, <1>3, <2>1, <2>2
  <1>9. QED
    BY <1>6, <1>7, <1>8 DEF Step

-----------------------------------------------------------------------------
(* Types, continued.                                                       *)

\* One row is replaced by another one of the same id.
LEMMA RowChanged ==
  ASSUME RowsOK, NEW id \in Ids, NEW row \in Row, row.id = id,
         rows' = [rows EXCEPT ![id] = row], UNCHANGED nextId
  PROVE  RowsOK' /\ Ids' = Ids
  <1>1. row # None /\ rows[id] # None /\ id \in DOMAIN rows
    BY NoneAssumption DEF Ids
  <1>2. DOMAIN rows' = DOMAIN rows /\ \A i \in DOMAIN rows : rows'[i] = None <=> rows[i] = None
    BY <1>1 DEF RowsOK
  <1>3. Ids' = Ids
    BY <1>2 DEF Ids
  <1>4. \A i \in Ids : rows'[i].id = rows[i].id
    BY DEF RowsOK, Ids
  <1>5. QED
    BY <1>3, <1>4 DEF RowsOK

\* The same rows, at the same places and with the same paths and ports.
SameRows ==
  /\ Ids' = Ids
  /\ \A i \in Ids : /\ rows'[i].path = rows[i].path /\ rows'[i].port = rows[i].port
                    /\ rows'[i].order = rows[i].order

LEMMA SetTimeKeepsRows ==
  ASSUME RowsOK, NEW r \in Requests, NEW field \in {"start", "end"}, SetTime(r, field),
         UNCHANGED nextId
  PROVE  /\ RowsOK' /\ SameRows
         /\ \A i \in Ids : i # Current(r).id => rows'[i] = rows[i]
         /\ Current(r).id \in Ids /\ "db" \notin Faults =>
              rows'[Current(r).id].times = Latest(rows[Current(r).id].times, field)
  <1>1. CASE UNCHANGED rows /\ ~(Current(r).id \in Ids /\ "db" \notin Faults)
    BY <1>1 DEF RowsOK, Ids, SameRows
  <1>2. CASE /\ Current(r).id \in Ids
             /\ rows' = [rows EXCEPT ![Current(r).id].times = Latest(@, field)]
    <2> DEFINE id == Current(r).id
               row == [rows[id] EXCEPT !.times = Latest(rows[id].times, field)]
    <2>1. rows[id] \in Row /\ rows[id].id = id /\ id \in DOMAIN rows /\ Ids \subseteq DOMAIN rows
      BY <1>2, TableFacts DEF RowsOK, Ids
    <2>2. Latest(rows[id].times, field) \in Times
      BY <2>1 DEF Row, Times, Latest
    <2>3. /\ row \in Row /\ row.id = id
          /\ row.path = rows[id].path /\ row.port = rows[id].port /\ row.order = rows[id].order
          /\ row.times = Latest(rows[id].times, field)
      BY <2>1, <2>2 DEF Row
    <2>4. rows' = [rows EXCEPT ![id] = row]
      BY <1>2
    <2> HIDE DEF id, row
    <2>5. RowsOK' /\ Ids' = Ids
      BY <1>2, <2>3, <2>4, RowChanged DEF id
    <2>6. \A i \in Ids : rows'[i] = IF i = id THEN row ELSE rows[i]
      BY <2>1, <2>4
    <2>7. SameRows
      BY <2>3, <2>5, <2>6 DEF SameRows
    <2>8. QED
      BY <1>2, <2>3, <2>5, <2>6, <2>7 DEF id
  <1>3. QED
    BY <1>1, <1>2 DEF SetTime

LEMMA StepKeepsRows ==
  ASSUME RowsOK, RequestsOK, KindsOK, NEW r \in Requests, Step(r)
  PROVE  RowsOK'
  <1>1. CASE UNCHANGED <<rows, nextId>>
    BY <1>1 DEF RowsOK, Ids
  <1>2. CASE RecordStart(r) \/ RecordEnd(r)
    BY <1>2, SetTimeKeepsRows DEF RecordStart, RecordEnd
  <1>3. work[r] \in Work
    BY DEF RequestsOK
  <1>4. CASE InsertRow(r)
    <2> DEFINE row == NewRow(nextId, work[r].path, work[r].port, work[r].order)
    <2>1. nextId \in 1..MaxRows /\ rows' = [rows EXCEPT ![nextId] = row] /\ nextId' = nextId + 1
      BY <1>4, TableAssumption DEF InsertRow, RowsOK
    <2>2. row \in Row /\ row.id = nextId
      BY <1>3, <1>4, <2>1 DEF InsertRow, NewRow, Row, Times, Work, KindsOK, RightStep, StartSteps, StopSteps
    <2> HIDE DEF row
    <2>3. \A i \in Ids' : i = nextId \/ (i \in Ids /\ rows'[i] = rows[i])
      BY <2>1 DEF Ids, RowsOK
    <2>4. rows' \in [1..MaxRows -> Row \cup {None}] /\ rows'[nextId] = row
      BY <2>1, <2>2 DEF RowsOK
    <2>5. nextId' \in 1..(MaxRows + 1)
      BY <2>1, TableAssumption
    <2>6. ASSUME NEW i \in Ids' PROVE rows'[i].id = i /\ i < nextId'
      <3>1. i = nextId \/ (i \in Ids /\ i \in 1..MaxRows /\ rows'[i] = rows[i])
        BY <2>3, <2>6, TableFacts
      <3>2. QED
        BY <2>1, <2>2, <2>4, <3>1 DEF RowsOK
    <2>7. QED
      BY <2>4, <2>5, <2>6 DEF RowsOK
  <1>5. CASE UpdateRow(r)
    <2>1. CASE work[r].id \in Ids
      <3> DEFINE id == work[r].id
                 row == [rows[id] EXCEPT !.path = work[r].path, !.port = work[r].port]
      <3>1. rows[id] \in Row /\ rows[id].id = id
        BY <2>1, TableFacts DEF RowsOK
      <3>2. work[r].path \in Paths /\ work[r].port \in BOOLEAN
        BY <1>3, <1>5 DEF UpdateRow, Work, KindsOK, RightStep, StartSteps, StopSteps
      <3>3. row \in Row /\ row.id = id
        BY <3>1, <3>2 DEF Row
      <3>4. rows' = [rows EXCEPT ![id] = row] /\ UNCHANGED nextId
        BY <1>5, <2>1 DEF UpdateRow
      <3> HIDE DEF row
      <3>5. QED
        BY <2>1, <3>3, <3>4, RowChanged
    <2>2. CASE work[r].id \notin Ids
      BY <1>1, <1>5, <2>2 DEF UpdateRow
    <2>3. QED
      BY <2>1, <2>2
  <1>6. CASE DeleteRow(r)
    <2>1. rows' = [rows EXCEPT ![work[r].id] = None] /\ UNCHANGED nextId
      BY <1>6 DEF DeleteRow
    <2>2. \A i \in Ids' : i \in Ids /\ rows'[i] = rows[i]
      BY <2>1 DEF Ids, RowsOK
    <2>3. QED
      BY <2>1, <2>2 DEF RowsOK
  <1>7. QED
    BY <1>1, <1>2, <1>4, <1>5, <1>6
       DEF Step, CheckNotRunning, RefuseStart, Spawn, SpawnFails, HealthCheckPasses,
           HealthCheckTimesOut, Scan, RefuseStop, Kill, KillsDone, KillFailed, ValidatePath,
           RejectPath, ReadMaxOrder, ConfirmStopped, RefuseDelete, RegistryFails, table

LEMMA StepKeepsOs ==
  ASSUME OsOK, RowsOK, RequestsOK, NEW r \in Requests, Step(r)
  PROVE  OsOK'
  <1>1. CASE UNCHANGED os
    BY <1>1 DEF OsOK, os
  <1>2. CASE Spawn(r)
    <2>1. Program(r) \in Programs
      <3>1. work[r].list \in Seq(Row) /\ work[r].i \in DOMAIN work[r].list
        BY <1>2 DEF RequestsOK, Work, Spawn, Placed, StartSteps
      <3>2. QED
        BY <3>1, ProgramFacts DEF Program, Current
    <2>2. PICK p \in Pids : procs' = [procs EXCEPT ![p] = Program(r)]
      BY <1>2 DEF Spawn, FreePids
    <2>3. Program(r) # None
      BY <2>1, NoneAssumption
    <2>4. QED
      BY <1>2, <2>1, <2>2, <2>3 DEF OsOK, Spawn
  <1>3. CASE Kill(r)
    BY <1>3 DEF Kill, OsOK, os
  <1>4. QED
    BY <1>1, <1>2, <1>3
       DEF Step, CheckNotRunning, RefuseStart, SpawnFails, HealthCheckPasses, RecordStart,
           HealthCheckTimesOut, Scan, RefuseStop, KillsDone, KillFailed, RecordEnd, ValidatePath,
           RejectPath, ReadMaxOrder, InsertRow, UpdateRow, ConfirmStopped, RefuseDelete,
           DeleteRow, RegistryFails

LEMMA EnvironmentKeepsTypes ==
  ASSUME TypeOK, Crash \/ \E p \in Pids : Listen(p) \/ Die(p)
  PROVE  TypeOK'
  <1>1. RowsOK /\ OsOK /\ RequestsOK /\ setting \in Settings
    BY Types
  <1>2. RowsOK' /\ setting' \in Settings
    BY <1>1 DEF Crash, Listen, Die, table, RowsOK, Ids
  <1>3. OsOK'
    BY <1>1 DEF Crash, Listen, Die, os, OsOK
  <1>4. RequestsOK'
    BY <1>1, NothingToDo DEF Crash, Listen, Die, RequestsOK
  <1>5. QED
    BY <1>2, <1>3, <1>4 DEF TypeOK, RowsOK, OsOK, RequestsOK, Placed

\* Every step of a request leaves the setting as it is.
LEMMA SettingStays == ASSUME [Next]_vars PROVE UNCHANGED setting
  BY DEF Next, vars, Arrive, Step, BeginStartAll, BeginStart, BeginStopAll, BeginStop,
         BeginCreate, BeginUpdate, BeginDelete, Reorder, Begin,
         CheckNotRunning, RefuseStart, Spawn, SpawnFails, HealthCheckPasses, HealthCheckTimesOut,
         RecordStart, Scan, RefuseStop, Kill, KillsDone, KillFailed, RecordEnd, ValidatePath,
         RejectPath, ReadMaxOrder, InsertRow, UpdateRow, ConfirmStopped, RefuseDelete, DeleteRow,
         RegistryFails, Goto, Reply, Listen, Die, Crash

LEMMA NextKeepsTypes ==
  ASSUME TypeOK, KindsOK, [Next]_vars
  PROVE  TypeOK' /\ KindsOK'
  <1>1. ASSUME NEW r \in Requests, Step(r) PROVE TypeOK' /\ KindsOK'
    <2>1. RowsOK' /\ OsOK' /\ RequestsOK'
      BY <1>1, Types, StepKeepsRows, StepKeepsOs, StepKeepsRequests
    <2>2. KindsOK'
      BY <1>1, <2>1, Types, SettingStays, StepKeepsKinds
    <2>3. QED
      BY <2>1, <2>2, SettingStays DEF TypeOK, RowsOK, OsOK, RequestsOK, Placed
  <1>2. ASSUME Crash \/ \E p \in Pids : Listen(p) \/ Die(p) PROVE KindsOK'
    BY <1>2 DEF Crash, Listen, Die, KindsOK, RightStep, Kinds, NoWork
  <1>3. CASE UNCHANGED vars
    BY <1>3 DEF vars, TypeOK, Ids, KindsOK, RightStep, Kinds
  <1>4. QED
    BY <1>1, <1>2, <1>3, ArriveKeepsTypes, ArriveKeepsKinds, EnvironmentKeepsTypes DEF Next

LEMMA TypesAndKinds == Spec => [](TypeOK /\ KindsOK)
  <1>1. Init => KindsOK
    BY DEF Init, KindsOK, RightStep, NoWork
  <1>2. QED
    BY <1>1, InitialTypes, NextKeepsTypes, PTL DEF Spec

\* Rows stay rows, requests keep to their lists, and only processes that run listen.
THEOREM TypeCorrect == Spec => []TypeOK
  BY TypesAndKinds, PTL

-----------------------------------------------------------------------------
(* What a step of one request does to the others, and to its place in the list. *)

LEMMA OthersStay ==
  ASSUME RequestsOK, NEW r \in Requests, Arrive(r) \/ Step(r), NEW s \in Requests, s # r
  PROVE  UNCHANGED <<pc[s], work[s]>>
  <1>1. \/ UNCHANGED pc \/ \E step : pc' = [pc EXCEPT ![r] = step]
    BY DEF Arrive, Step, BeginStartAll, BeginStart, BeginStopAll, BeginStop, BeginCreate,
           BeginUpdate, BeginDelete, Reorder, Begin, CheckNotRunning, RefuseStart, Spawn,
           SpawnFails, HealthCheckPasses, HealthCheckTimesOut, RecordStart, Scan, RefuseStop,
           Kill, KillsDone, KillFailed, RecordEnd, ValidatePath, RejectPath, ReadMaxOrder,
           InsertRow, UpdateRow, ConfirmStopped, RefuseDelete, DeleteRow, RegistryFails,
           Goto, Reply
  <1>2. \/ UNCHANGED work \/ \E w : work' = [work EXCEPT ![r] = w]
    BY DEF Arrive, Step, BeginStartAll, BeginStart, BeginStopAll, BeginStop, BeginCreate,
           BeginUpdate, BeginDelete, Reorder, Begin, CheckNotRunning, RefuseStart, Spawn,
           SpawnFails, HealthCheckPasses, HealthCheckTimesOut, RecordStart, Scan, RefuseStop,
           Kill, KillsDone, KillFailed, RecordEnd, ValidatePath, RejectPath, ReadMaxOrder,
           InsertRow, UpdateRow, ConfirmStopped, RefuseDelete, DeleteRow, RegistryFails,
           Local, Reply
  <1>3. QED
    BY <1>1, <1>2 DEF RequestsOK

Replies(r) == pc'[r] = "idle" /\ work'[r] = NoWork

LEMMA ReplyFacts == ASSUME RequestsOK, NEW r \in Requests, Reply(r) PROVE Replies(r)
  BY DEF Reply, Goto, Local, Replies, RequestsOK

\* A request that starts processes checks, spawns, waits or goes on to the next one.
LEMMA StartingSteps ==
  ASSUME RequestsOK, NEW r \in Requests, Step(r), pc[r] \in StartSteps
  PROVE  \/ Replies(r)
         \/ /\ work'[r] = work[r]
            /\ \/ CheckNotRunning(r) /\ pc'[r] = "spawn"
               \/ Spawn(r) /\ pc'[r] = "wait"
               \/ HealthCheckPasses(r) /\ pc'[r] = "started"
         \/ /\ RecordStart(r) /\ pc'[r] = "check" /\ work[r].i < Len(work[r].list)
            /\ work'[r] = [work[r] EXCEPT !.i = @ + 1]
  <1>1. \/ CheckNotRunning(r) \/ RefuseStart(r) \/ Spawn(r) \/ SpawnFails(r)
        \/ HealthCheckPasses(r) \/ HealthCheckTimesOut(r) \/ RecordStart(r)
    BY DEF Step, StartSteps, Scan, RefuseStop, Kill, KillsDone, KillFailed, RecordEnd,
           ValidatePath, RejectPath, ReadMaxOrder, InsertRow, UpdateRow, ConfirmStopped,
           RefuseDelete, DeleteRow, RegistryFails
  <1>2. CASE RefuseStart(r) \/ SpawnFails(r) \/ HealthCheckTimesOut(r)
    BY <1>2, ReplyFacts DEF RefuseStart, SpawnFails, HealthCheckTimesOut
  <1>3. CASE CheckNotRunning(r) \/ Spawn(r) \/ HealthCheckPasses(r)
    BY <1>3 DEF CheckNotRunning, Spawn, HealthCheckPasses, Goto, RequestsOK
  <1>4. CASE RecordStart(r)
    BY <1>4, ReplyFacts DEF RecordStart, Goto, Local, RequestsOK
  <1>5. QED
    BY <1>1, <1>2, <1>3, <1>4

\* A request that stops processes scans, kills or goes on to the one before.
LEMMA StoppingSteps ==
  ASSUME RequestsOK, NEW r \in Requests, Step(r), pc[r] \in StopSteps
  PROVE  \/ Replies(r)
         \/ /\ Scan(r) /\ pc'[r] = "kill"
            /\ work'[r] = [work[r] EXCEPT !.targets = PidsOf(Program(r))]
         \/ /\ Kill(r) /\ pc'[r] = "kill"
            /\ \E p \in work[r].targets, fails \in BOOLEAN :
                 /\ procs' = [procs EXCEPT ![p] = None] \/ (UNCHANGED procs /\ fails)
                 /\ work'[r] = [work[r] EXCEPT !.targets = @ \ {p}, !.failed = @ \/ fails]
         \/ KillsDone(r) /\ pc'[r] = "stopped" /\ work'[r] = work[r]
         \/ /\ RecordEnd(r) /\ pc'[r] = "scan" /\ work[r].i > 1
            /\ work'[r] = [work[r] EXCEPT !.i = @ - 1]
  <1>1. \/ Scan(r) \/ RefuseStop(r) \/ Kill(r) \/ KillsDone(r) \/ KillFailed(r) \/ RecordEnd(r)
    BY DEF Step, StopSteps, CheckNotRunning, RefuseStart, Spawn, SpawnFails, HealthCheckPasses,
           HealthCheckTimesOut, RecordStart, ValidatePath, RejectPath, ReadMaxOrder, InsertRow,
           UpdateRow, ConfirmStopped, RefuseDelete, DeleteRow, RegistryFails
  <1>2. CASE RefuseStop(r) \/ KillFailed(r)
    BY <1>2, ReplyFacts DEF RefuseStop, KillFailed
  <1>3. CASE Scan(r) \/ KillsDone(r)
    BY <1>3 DEF Scan, KillsDone, Goto, Local, RequestsOK
  <1>4. CASE Kill(r)
    BY <1>4 DEF Kill, Local, RequestsOK, os
  <1>5. CASE RecordEnd(r)
    BY <1>5, ReplyFacts DEF RecordEnd, Goto, Local, RequestsOK
  <1>6. QED
    BY <1>1, <1>2, <1>3, <1>4, <1>5

\* The sequences a request may be at, from its first step to its last.
LEMMA SequenceKinds ==
  ASSUME KindsOK, NEW r \in Requests
  PROVE  /\ work[r].kind = "startAll" => pc[r] \in StartSteps
         /\ work[r].kind = "stopAll" => pc[r] \in StopSteps
         /\ pc[r] \in StartSteps => work[r].kind \in Kinds \cap {"startAll", "start"}
         /\ pc[r] \in StopSteps => work[r].kind \in Kinds \cap {"stopAll", "stop"}
  <1>1. work[r].kind \in Kinds => work[r].kind # None \/ None \in Kinds
    OBVIOUS
  <1>2. QED
    BY NoneAssumption DEF KindsOK, RightStep, StartSteps, StopSteps, RequestKinds

LEMMA StaysInRegistry ==
  ASSUME RequestsOK, NEW r \in Requests, Step(r), pc[r] \notin StartSteps \cup StopSteps
  PROVE  pc'[r] \notin StartSteps \cup StopSteps
  <1>1. \/ ValidatePath(r) \/ RejectPath(r) \/ ReadMaxOrder(r) \/ InsertRow(r) \/ UpdateRow(r)
        \/ ConfirmStopped(r) \/ RefuseDelete(r) \/ DeleteRow(r) \/ RegistryFails(r)
    BY DEF Step, StartSteps, StopSteps, CheckNotRunning, RefuseStart, Spawn, SpawnFails,
           HealthCheckPasses, HealthCheckTimesOut, RecordStart, Scan, RefuseStop, Kill,
           KillsDone, KillFailed, RecordEnd
  <1>2. \E step \in {"order", "update", "insert", "delete", "idle"} : Goto(r, step)
    BY <1>1
       DEF ValidatePath, RejectPath, ReadMaxOrder, InsertRow, UpdateRow, ConfirmStopped,
           RefuseDelete, DeleteRow, RegistryFails, Reply
  <1>3. QED
    BY <1>2 DEF Goto, RequestsOK, StartSteps, StopSteps

\* Only Spawn makes processes ...
LEMMA WhoSpawns ==
  ASSUME TypeOK, [Next]_vars, \A r \in Requests : ~Spawn(r)
  PROVE  /\ \A p \in Pids : procs'[p] \in {procs[p], None}
         /\ \A b : b # None => PidsOf(b)' \subseteq PidsOf(b)
  <1>1. OsOK
    BY Types
  <1>2. \A p \in Pids : procs'[p] \in {procs[p], None}
    <2>1. CASE UNCHANGED procs
      BY <2>1
    <2>2. ASSUME NEW r \in Requests, Kill(r) PROVE \A p \in Pids : procs'[p] \in {procs[p], None}
      BY <1>1, <2>2 DEF Kill, OsOK, os
    <2>3. ASSUME NEW p \in Pids, Die(p) PROVE \A q \in Pids : procs'[q] \in {procs[q], None}
      BY <1>1, <2>3 DEF Die, OsOK
    <2>4. QED
      BY <2>1, <2>2, <2>3
         DEF Next, Arrive, Step, BeginStartAll, BeginStart, BeginStopAll, BeginStop, BeginCreate,
             BeginUpdate, BeginDelete, Reorder, Begin, CheckNotRunning, RefuseStart,
             SpawnFails, HealthCheckPasses, HealthCheckTimesOut, RecordStart, Scan, RefuseStop,
             KillsDone, KillFailed, RecordEnd, ValidatePath, RejectPath, ReadMaxOrder,
             InsertRow, UpdateRow, ConfirmStopped, RefuseDelete, DeleteRow, RegistryFails,
             Listen, Crash, os, vars
  <1>3. QED
    BY <1>2 DEF PidsOf

\* ... and only Kill and Die end them.
LEMMA WhoKills ==
  ASSUME TypeOK, [Next]_vars, \A r \in Requests : ~Kill(r), \A p \in Pids : ~Die(p),
         NEW row \in Row, Healthy(row)
  PROVE  Healthy(row)'
  <1>1. RequestsOK /\ OsOK
    BY Types
  <1>2. \A p \in Pids : procs[p] # None => procs'[p] = procs[p]
    <2>1. CASE UNCHANGED procs
      BY <2>1
    <2>2. ASSUME NEW r \in Requests, Spawn(r) PROVE \A p \in Pids : procs[p] # None => procs'[p] = procs[p]
      BY <1>1, <2>2 DEF Spawn, FreePids, OsOK
    <2>3. QED
      BY <2>1, <2>2
         DEF Next, Arrive, Step, BeginStartAll, BeginStart, BeginStopAll, BeginStop, BeginCreate,
             BeginUpdate, BeginDelete, Reorder, Begin, CheckNotRunning, RefuseStart,
             SpawnFails, HealthCheckPasses, HealthCheckTimesOut, RecordStart, Scan, RefuseStop,
             KillsDone, KillFailed, RecordEnd, ValidatePath, RejectPath, ReadMaxOrder,
             InsertRow, UpdateRow, ConfirmStopped, RefuseDelete, DeleteRow, RegistryFails,
             Listen, Crash, os, vars
  <1>3. listening \subseteq listening'
    BY DEF Next, Arrive, Step, BeginStartAll, BeginStart, BeginStopAll, BeginStop, BeginCreate,
           BeginUpdate, BeginDelete, Reorder, Begin, CheckNotRunning, RefuseStart, Spawn,
           SpawnFails, HealthCheckPasses, HealthCheckTimesOut, RecordStart, Scan, RefuseStop,
           KillsDone, KillFailed, RecordEnd, ValidatePath, RejectPath, ReadMaxOrder,
           InsertRow, UpdateRow, ConfirmStopped, RefuseDelete, DeleteRow, RegistryFails,
           Listen, Crash, os, vars
  <1>4. Binary[row.path] # None
    BY ProgramFacts
  <1>5. PidsOf(Binary[row.path]) \subseteq PidsOf(Binary[row.path])'
    BY <1>2, <1>4 DEF PidsOf
  <1>6. QED
    BY <1>3, <1>5 DEF Healthy, Running, PortOpen

-----------------------------------------------------------------------------
(* Starting in order.                                                      *)

Sorted(list) ==
  \A j, k \in DOMAIN list : j < k => list[j].order <= list[k].order

\* What a start sequence has behind it is up.
Behind(r) ==
  {row \in Row :
     \/ \E j \in DOMAIN work[r].list : j < work[r].i /\ work[r].list[j] = row
     \/ pc[r] = "started" /\ Current(r) = row}

LEMMA IsBehind ==
  ASSUME NEW r, NEW j \in DOMAIN work[r].list, work[r].list[j] \in Row,
         j < work[r].i \/ (j = work[r].i /\ pc[r] = "started")
  PROVE  work[r].list[j] \in Behind(r)
  <1>1. CASE j < work[r].i
    <2>1. \E k \in DOMAIN work[r].list : k < work[r].i /\ work[r].list[k] = work[r].list[j]
      BY <1>1
    <2>2. QED
      BY <2>1 DEF Behind
  <1>2. CASE j = work[r].i /\ pc[r] = "started"
    BY <1>2 DEF Behind, Current
  <1>3. QED
    BY <1>1, <1>2

UpBehind(r) ==
  work[r].kind = "startAll" =>
    Sorted(work[r].list) /\ \A row \in Behind(r) : Healthy(row)

UpIInv == NothingStops => \A r \in Requests : UpBehind(r)

\* Where nothing stops, what is up stays up.
LEMMA HealthyStays ==
  ASSUME TypeOK, KindsOK, NothingStops, Next, NEW row \in Row, Healthy(row)
  PROVE  Healthy(row)'
  <1>1. \A r \in Requests : ~Kill(r)
    BY SequenceKinds DEF Kill, StopSteps, NothingStops
  <1>2. \A p \in Pids : ~Die(p)
    BY DEF Die, NothingStops
  <1>3. QED
    BY <1>1, <1>2, WhoKills

LEMMA UpKept ==
  ASSUME TypeOK, KindsOK, TypeOK', KindsOK', UpIInv, [Next]_vars
  PROVE  UpIInv'
  <1>1. UNCHANGED setting
    BY SettingStays
  <1>2. NothingStops' => NothingStops
    BY <1>1 DEF NothingStops, Kinds, Faults
  <1>3. SUFFICES ASSUME NothingStops, NEW r \in Requests, work'[r].kind = "startAll"
                 PROVE  UpBehind(r)'
    BY <1>2 DEF UpIInv, UpBehind
  <1>4. UpBehind(r) /\ RequestsOK /\ RowsOK
    BY <1>3, Types DEF UpIInv
  <1>5. ASSUME UNCHANGED <<pc[r], work[r]>>
        PROVE  Sorted(work[r].list)' /\ \A row \in Behind(r)' : Healthy(row)
    BY <1>3, <1>4, <1>5 DEF UpBehind, Behind, Current, Sorted
  <1>6. ASSUME Step(r)
        PROVE  Sorted(work[r].list)' /\ \A row \in Behind(r)' : Healthy(row)
    <2>1. pc'[r] \in StartSteps
      BY <1>3, NoneAssumption DEF KindsOK, RightStep, RequestKinds
    <2>2. pc[r] \in StartSteps
      BY <1>4, <1>6, <2>1, StaysInRegistry, StoppingSteps DEF StartSteps, StopSteps, Replies
    <2>3. ~Replies(r)
      BY <2>1 DEF Replies, StartSteps
    <2>4. work[r] \in Work /\ work[r].i \in Nat /\ work[r].list \in Seq(Row)
      BY <1>4 DEF RequestsOK, Work
    <2>5. CASE work'[r] = work[r]
      <3>1. pc'[r] # "started" \/ HealthCheckPasses(r)
        BY <1>4, <1>6, <2>2, <2>3, <2>5, StartingSteps
      <3>2. \A row \in Behind(r)' : row \in Behind(r) \/ (pc'[r] = "started" /\ row = Current(r))
        BY <2>5 DEF Behind, Current
      <3>3. QED
        BY <1>3, <1>4, <2>5, <3>1, <3>2 DEF UpBehind, HealthCheckPasses, Sorted
    <2>6. CASE RecordStart(r) /\ pc'[r] = "check" /\ work'[r] = [work[r] EXCEPT !.i = @ + 1]
      <3>1. /\ work'[r].i = work[r].i + 1 /\ work'[r].list = work[r].list
            /\ work'[r].kind = work[r].kind
        BY <2>4, <2>6 DEF Work
      <3>2. pc[r] = "started"
        BY <2>6 DEF RecordStart
      <3>3. \A j \in DOMAIN work[r].list : j < work[r].i + 1 => j < work[r].i \/ j = work[r].i
        BY <2>4
      <3>4. \A row \in Behind(r)' : row \in Behind(r)
        <4>1. SUFFICES ASSUME NEW row \in Row, NEW j \in DOMAIN work[r].list,
                              j < work[r].i + 1, work[r].list[j] = row
                       PROVE  row \in Behind(r)
          BY <2>6, <3>1 DEF Behind, Current
        <4>2. j < work[r].i \/ j = work[r].i
          BY <3>3, <4>1
        <4>3. QED
          BY <3>2, <4>1, <4>2, IsBehind
      <3>5. QED
        BY <1>3, <1>4, <3>1, <3>4 DEF UpBehind, Sorted
    <2>7. QED
      BY <1>4, <1>6, <2>2, <2>3, <2>5, <2>6, StartingSteps
  <1>7. ASSUME Arrive(r)
        PROVE  Sorted(work[r].list)' /\ \A row \in Behind(r)' : Healthy(row)
    <2>1. CASE Reorder(r)
      BY <1>5, <2>1 DEF Reorder
    <2>2. CASE BeginStartAll(r)
      <3>1. PICK list \in Listings : Begin(r, "check", OnList("startAll", list, 1))
        BY <2>2 DEF BeginStartAll, OnList
      <3>2. pc'[r] = "check" /\ work'[r].list = list /\ work'[r].i = 1
        BY <1>4, <3>1 DEF Begin, Goto, Local, RequestsOK, OnList, NoWork
      <3>3. Sorted(list) /\ \A j \in DOMAIN list : ~(j < 1)
        BY <1>4, ListingFacts DEF Sorted
      <3>4. QED
        BY <3>2, <3>3 DEF Behind, Sorted
    <2>3. ASSUME NEW step, NEW w, Begin(r, step, w), w.kind # "startAll" PROVE FALSE
      BY <1>3, <1>4, <2>3 DEF Begin, Local, RequestsOK
    <2>4. QED
      BY <1>7, <2>1, <2>2, <2>3
         DEF Arrive, BeginStart, BeginStopAll, BeginStop, BeginCreate, BeginUpdate, BeginDelete,
             NoWork
  <1>8. CASE Next
    <2>1. Sorted(work[r].list)' /\ \A row \in Behind(r)' : Healthy(row)
      <3>1. ~Crash
        BY <1>3, NoneAssumption DEF Crash, NoWork, RequestKinds
      <3>2. ASSUME NEW p \in Pids, Listen(p) \/ Die(p) PROVE UNCHANGED <<pc[r], work[r]>>
        BY <3>2 DEF Listen, Die
      <3>3. QED
        BY <1>4, <1>5, <1>6, <1>7, <1>8, <3>1, <3>2, OthersStay DEF Next
    <2>2. \A row \in Row : Healthy(row) => Healthy(row)'
      BY <1>3, <1>8, HealthyStays
    <2>3. QED
      BY <2>1, <2>2 DEF UpBehind, Behind
  <1>9. CASE UNCHANGED vars
    BY <1>3, <1>4, <1>9 DEF vars, UpBehind, Behind, Current, Sorted, Healthy, PortOpen, Running, PidsOf
  <1>10. QED
    BY <1>8, <1>9

\* Sequential startup, for any number of requests, rows and programs: a start
\* sequence works on a process only when all that precede it are up and healthy.
THEOREM EarlierProcessesAreUp == Spec => []EarlierAreUp
  <1>1. Init => UpIInv
    BY NoneAssumption DEF Init, UpIInv, UpBehind, NoWork, RequestKinds
  <1>2. TypeOK /\ KindsOK /\ TypeOK' /\ KindsOK' /\ UpIInv /\ [Next]_vars => UpIInv'
    BY UpKept
  <1>3. TypeOK /\ KindsOK /\ UpIInv => EarlierAreUp
    <2>1. SUFFICES ASSUME TypeOK, KindsOK, UpIInv, NothingStops, NEW r \in Requests,
                          work[r].kind = "startAll",
                          NEW j \in DOMAIN work[r].list,
                          work[r].list[j].order < Current(r).order
                   PROVE  Healthy(work[r].list[j])
      BY DEF EarlierAreUp, Rows
    <2>2. work[r].list \in Seq(Row) /\ work[r].i \in DOMAIN work[r].list /\ work[r].i \in Nat
      BY <2>1, Types, SequenceKinds DEF RequestsOK, Work, Placed
    <2>3. work[r].list[j] \in Row /\ Current(r) \in Row
          /\ work[r].list[j].order \in Int /\ Current(r).order \in Int
      <3>1. work[r].list[j] \in Row /\ work[r].list[work[r].i] \in Row
        BY <2>2
      <3>2. QED
        BY <3>1 DEF Current, Row
    <2>4. Sorted(work[r].list) /\ \A row \in Behind(r) : Healthy(row)
      BY <2>1 DEF UpIInv, UpBehind
    <2>5. j < work[r].i
      <3>1. work[r].i < j => Current(r).order <= work[r].list[j].order
        BY <2>2, <2>4 DEF Sorted, Current
      <3>2. j # work[r].i /\ ~(work[r].i < j)
        BY <2>1, <2>3, <3>1 DEF Current
      <3>3. QED
        BY <2>2, <3>2
    <2>6. QED
      BY <2>3, <2>4, <2>5, IsBehind
  <1>4. QED
    BY <1>1, <1>2, <1>3, TypesAndKinds, PTL DEF Spec

-----------------------------------------------------------------------------
(* Stopping in reverse order.                                              *)

\* What a stop sequence has behind it is down, and it is about to terminate
\* every process of the program it is at.
Ahead(r) ==
  {row \in Row :
     \/ \E j \in DOMAIN work[r].list : j > work[r].i /\ work[r].list[j] = row
     \/ pc[r] = "stopped" /\ Current(r) = row}

Targeted(r) ==
  pc[r] = "kill" /\ ~work[r].failed =>
    \A b \in Programs : b = Program(r) => PidsOf(b) \subseteq work[r].targets

DownAhead(r) ==
  work[r].kind = "stopAll" =>
    /\ Sorted(work[r].list)
    /\ \A row \in Ahead(r) : ~Running(Binary[row.path])
    /\ Targeted(r)

DownIInv == NothingStarts => \A r \in Requests : DownAhead(r)

LEMMA IsAhead ==
  ASSUME NEW r, NEW j \in DOMAIN work[r].list, work[r].list[j] \in Row,
         j > work[r].i \/ (j = work[r].i /\ pc[r] = "stopped")
  PROVE  work[r].list[j] \in Ahead(r)
  <1>1. CASE j > work[r].i
    <2>1. \E k \in DOMAIN work[r].list : k > work[r].i /\ work[r].list[k] = work[r].list[j]
      BY <1>1
    <2>2. QED
      BY <2>1 DEF Ahead
  <1>2. CASE j = work[r].i /\ pc[r] = "stopped"
    BY <1>2 DEF Ahead, Current
  <1>3. QED
    BY <1>1, <1>2

\* Where nothing starts, what is down stays down.
LEMMA DownStays ==
  ASSUME TypeOK, KindsOK, NothingStarts, Next, NEW b \in Programs
  PROVE  PidsOf(b)' \subseteq PidsOf(b)
  <1>1. \A r \in Requests : ~Spawn(r)
    BY SequenceKinds DEF Spawn, StartSteps, NothingStarts
  <1>2. b # None
    BY NoneAssumption
  <1>3. QED
    BY <1>1, <1>2, WhoSpawns

LEMMA DownKept ==
  ASSUME TypeOK, KindsOK, TypeOK', KindsOK', DownIInv, [Next]_vars
  PROVE  DownIInv'
  <1>1. UNCHANGED setting
    BY SettingStays
  <1>2. NothingStarts' => NothingStarts
    BY <1>1 DEF NothingStarts, Kinds
  <1>3. SUFFICES ASSUME NothingStarts, NEW r \in Requests, work'[r].kind = "stopAll"
                 PROVE  DownAhead(r)'
    BY <1>2 DEF DownIInv, DownAhead
  <1>4. DownAhead(r) /\ RequestsOK /\ RowsOK
    BY <1>3, Types DEF DownIInv
  <1> DEFINE Kept == /\ Sorted(work[r].list)'
                     /\ \A row \in Ahead(r)' : ~Running(Binary[row.path])
                     /\ pc'[r] = "kill" /\ ~work'[r].failed =>
                          \A b \in Programs : b = Program(r)' => PidsOf(b)' \subseteq work'[r].targets
  <1>5. ASSUME Next, UNCHANGED <<pc[r], work[r]>> PROVE Kept
    <2>1. \A b \in Programs : PidsOf(b)' \subseteq PidsOf(b)
      BY <1>3, <1>5, DownStays
    <2>2. QED
      BY <1>3, <1>4, <1>5, <2>1 DEF DownAhead, Targeted, Ahead, Current, Program, Sorted
  <1>6. ASSUME Next, Step(r) PROVE Kept
    <2>1. pc'[r] \in StopSteps
      BY <1>3, NoneAssumption DEF KindsOK, RightStep, RequestKinds
    <2>2. pc[r] \in StopSteps
      BY <1>4, <1>6, <2>1, StaysInRegistry, StartingSteps DEF StartSteps, StopSteps, Replies
    <2>3. ~Replies(r)
      BY <2>1 DEF Replies, StopSteps
    <2>4. /\ work[r] \in Work /\ work[r].i \in DOMAIN work[r].list /\ work[r].list \in Seq(Row)
          /\ work[r].i \in Nat
      BY <1>4, <2>2 DEF RequestsOK, Work, Placed
    <2>5. \A b \in Programs : PidsOf(b)' \subseteq PidsOf(b)
      BY <1>3, <1>6, DownStays
    <2>6. CASE Scan(r) /\ pc'[r] = "kill"
               /\ work'[r] = [work[r] EXCEPT !.targets = PidsOf(Program(r))]
      <3>1. /\ work'[r].i = work[r].i /\ work'[r].list = work[r].list
            /\ work'[r].kind = work[r].kind /\ work'[r].targets = PidsOf(Program(r))
        BY <2>4, <2>6 DEF Work
      <3>2. \A row \in Ahead(r)' : row \in Ahead(r)
        BY <2>6, <3>1 DEF Ahead, Current
      <3>3. Program(r)' = Program(r)
        BY <3>1 DEF Program, Current
      <3>4. QED
        BY <1>3, <1>4, <2>5, <3>1, <3>2, <3>3 DEF DownAhead, Sorted
    <2>7. CASE Kill(r) /\ pc'[r] = "kill"
      <3>1. PICK p \in work[r].targets, fails \in BOOLEAN :
              /\ procs' = [procs EXCEPT ![p] = None] \/ (UNCHANGED procs /\ fails)
              /\ work'[r] = [work[r] EXCEPT !.targets = @ \ {p}, !.failed = @ \/ fails]
        BY <1>4, <1>6, <2>2, <2>3, <2>7, StoppingSteps
           DEF Kill, Scan, KillsDone, RecordEnd
      <3>2. /\ work'[r].i = work[r].i /\ work'[r].list = work[r].list
            /\ work'[r].kind = work[r].kind /\ work'[r].targets = work[r].targets \ {p}
            /\ work'[r].failed \/ (work'[r].failed = work[r].failed /\ procs' = [procs EXCEPT ![p] = None])
        BY <2>4, <3>1 DEF Work
      <3>3. \A row \in Ahead(r)' : row \in Ahead(r)
        BY <2>7, <3>2 DEF Ahead, Current
      <3>4. Program(r)' = Program(r)
        BY <3>2 DEF Program, Current
      <3>5. ASSUME ~work'[r].failed, NEW b \in Programs, b = Program(r)
            PROVE  PidsOf(b)' \subseteq work'[r].targets
        <4>1. PidsOf(b) \subseteq work[r].targets
          BY <1>3, <1>4, <2>7, <3>2, <3>5 DEF DownAhead, Targeted, Kill
        <4>2. p \notin PidsOf(b)'
          <5>1. p \in Pids /\ b # None
            BY <2>4, NoneAssumption DEF Work
          <5>2. procs'[p] = None
            BY <1>4, <3>2, <3>5, <5>1, Types DEF OsOK
          <5>3. QED
            BY <5>1, <5>2 DEF PidsOf
        <4>3. QED
          BY <2>5, <3>2, <4>1, <4>2
      <3>6. QED
        BY <1>3, <1>4, <3>2, <3>3, <3>4, <3>5 DEF DownAhead, Sorted
    <2>8. CASE KillsDone(r) /\ pc'[r] = "stopped" /\ work'[r] = work[r]
      <3>1. PidsOf(Program(r)) = {}
        <4>1. Program(r) \in Programs
          BY <2>4, ProgramFacts DEF Program, Current
        <4>2. QED
          BY <1>3, <1>4, <2>8, <4>1 DEF DownAhead, Targeted, KillsDone
      <3>2. \A row \in Ahead(r)' : row \in Ahead(r) \/ row = Current(r)
        BY <2>8 DEF Ahead, Current
      <3>3. QED
        BY <1>3, <1>4, <2>8, <3>1, <3>2 DEF DownAhead, Sorted, Running, Program
    <2>9. CASE /\ RecordEnd(r) /\ pc'[r] = "scan"
               /\ work'[r] = [work[r] EXCEPT !.i = @ - 1]
      <3>1. /\ work'[r].i = work[r].i - 1 /\ work'[r].list = work[r].list
            /\ work'[r].kind = work[r].kind /\ pc[r] = "stopped"
        BY <2>4, <2>9 DEF Work, RecordEnd
      <3>2. \A j \in DOMAIN work[r].list : j > work[r].i - 1 => j > work[r].i \/ j = work[r].i
        BY <2>4
      <3>3. \A row \in Ahead(r)' : row \in Ahead(r)
        <4>1. SUFFICES ASSUME NEW row \in Row, NEW j \in DOMAIN work[r].list,
                              j > work[r].i - 1, work[r].list[j] = row
                       PROVE  row \in Ahead(r)
          BY <2>9, <3>1 DEF Ahead, Current
        <4>2. j > work[r].i \/ j = work[r].i
          BY <3>2, <4>1
        <4>3. QED
          BY <3>1, <4>1, <4>2, IsAhead
      <3>4. QED
        BY <1>3, <1>4, <2>9, <3>1, <3>3 DEF DownAhead, Sorted
    <2>10. QED
      BY <1>4, <1>6, <2>2, <2>3, <2>6, <2>7, <2>8, <2>9, StoppingSteps
  <1>7. ASSUME Next, Arrive(r) PROVE Kept
    <2>1. CASE Reorder(r)
      BY <1>5, <1>7, <2>1 DEF Reorder
    <2>2. CASE BeginStopAll(r)
      <3>1. PICK list \in Listings : Begin(r, "scan", OnList("stopAll", list, Len(list)))
        BY <2>2 DEF BeginStopAll, OnList
      <3>2. pc'[r] = "scan" /\ work'[r].list = list /\ work'[r].i = Len(list)
        BY <1>4, <3>1 DEF Begin, Goto, Local, RequestsOK, OnList, NoWork
      <3>3. Sorted(list) /\ \A j \in DOMAIN list : ~(j > Len(list))
        BY <1>4, ListingFacts DEF Sorted
      <3>4. QED
        BY <3>2, <3>3 DEF Ahead, Sorted
    <2>3. ASSUME NEW step, NEW w, Begin(r, step, w), w.kind # "stopAll" PROVE FALSE
      BY <1>3, <1>4, <2>3 DEF Begin, Local, RequestsOK
    <2>4. QED
      BY <1>7, <2>1, <2>2, <2>3
         DEF Arrive, BeginStart, BeginStartAll, BeginStop, BeginCreate, BeginUpdate, BeginDelete,
             NoWork
  <1>8. CASE Next
    <2>1. Kept
      <3>1. ~Crash
        BY <1>3, NoneAssumption DEF Crash, NoWork, RequestKinds
      <3>2. ASSUME NEW p \in Pids, Listen(p) \/ Die(p) PROVE UNCHANGED <<pc[r], work[r]>>
        BY <3>2 DEF Listen, Die
      <3> HIDE DEF Kept
      <3>3. QED
        BY <1>4, <1>5, <1>6, <1>7, <1>8, <3>1, <3>2, OthersStay DEF Next
    <2>2. \A row \in Row : ~Running(Binary[row.path]) => ~Running(Binary[row.path])'
      BY <1>3, <1>8, DownStays, ProgramFacts DEF Running
    <2>3. QED
      BY <2>1, <2>2 DEF DownAhead, Ahead, Targeted
  <1>9. CASE UNCHANGED vars
    BY <1>3, <1>4, <1>9
       DEF vars, DownAhead, Ahead, Targeted, Program, Current, Sorted, Running, PidsOf
  <1>10. QED
    BY <1>8, <1>9

\* Reverse-order shutdown, for any number of requests, rows and programs: a stop
\* sequence works on a process only when all that follow it are down.
THEOREM LaterProcessesAreDown == Spec => []LaterAreDown
  <1>1. Init => DownIInv
    BY NoneAssumption DEF Init, DownIInv, DownAhead, NoWork, RequestKinds
  <1>2. TypeOK /\ KindsOK /\ TypeOK' /\ KindsOK' /\ DownIInv /\ [Next]_vars => DownIInv'
    BY DownKept
  <1>3. TypeOK /\ KindsOK /\ DownIInv => LaterAreDown
    <2>1. SUFFICES ASSUME TypeOK, KindsOK, DownIInv, NothingStarts, NEW r \in Requests,
                          work[r].kind = "stopAll",
                          NEW j \in DOMAIN work[r].list,
                          work[r].list[j].order > Current(r).order
                   PROVE  ~Running(Binary[work[r].list[j].path])
      BY DEF LaterAreDown, Rows
    <2>2. work[r].list \in Seq(Row) /\ work[r].i \in DOMAIN work[r].list /\ work[r].i \in Nat
      BY <2>1, Types, SequenceKinds DEF RequestsOK, Work, Placed
    <2>3. work[r].list[j] \in Row /\ Current(r) \in Row
          /\ work[r].list[j].order \in Int /\ Current(r).order \in Int
      <3>1. work[r].list[j] \in Row /\ work[r].list[work[r].i] \in Row
        BY <2>2
      <3>2. QED
        BY <3>1 DEF Current, Row
    <2>4. Sorted(work[r].list) /\ \A row \in Ahead(r) : ~Running(Binary[row.path])
      BY <2>1 DEF DownIInv, DownAhead
    <2>5. j > work[r].i
      <3>1. j < work[r].i => work[r].list[j].order <= Current(r).order
        BY <2>2, <2>4 DEF Sorted, Current
      <3>2. j # work[r].i /\ ~(j < work[r].i)
        BY <2>1, <2>3, <3>1 DEF Current
      <3>3. QED
        BY <2>2, <3>2
    <2>6. QED
      BY <2>3, <2>4, <2>5, IsAhead
  <1>4. QED
    BY <1>1, <1>2, <1>3, TypesAndKinds, PTL DEF Spec

-----------------------------------------------------------------------------
(* Requests of the kinds that come one by one.                             *)

SoloIInv == \A r, s \in Requests :
  work[r].kind \in setting.alone /\ work[s].kind \in setting.alone => r = s

LEMMA StepIsBusy == ASSUME NEW r \in Requests, Step(r) PROVE pc[r] # "idle"
  BY DEF Step, CheckNotRunning, RefuseStart, Spawn, SpawnFails, HealthCheckPasses,
         HealthCheckTimesOut, RecordStart, Scan, RefuseStop, Kill, KillsDone, KillFailed,
         RecordEnd, ValidatePath, RejectPath, ReadMaxOrder, InsertRow, UpdateRow,
         ConfirmStopped, RefuseDelete, DeleteRow, RegistryFails

\* A step leaves the kind of a request, or ends it.
LEMMA KindStays ==
  ASSUME RequestsOK, NEW r \in Requests, Step(r)
  PROVE  work'[r].kind \in {work[r].kind, None}
  <1>1. work[r] \in Work
    BY DEF RequestsOK
  <1>2. CASE Reply(r)
    BY <1>2, ReplyFacts DEF Replies, NoWork
  <1>3. CASE UNCHANGED work
    BY <1>3
  <1>4. CASE \E w : Local(r, w) /\ w.kind = work[r].kind
    BY <1>4 DEF Local, RequestsOK
  <1>5. CASE RecordStart(r) \/ RecordEnd(r)
    BY <1>1, <1>2, <1>4, <1>5 DEF RecordStart, RecordEnd, Work
  <1>6. CASE Scan(r) \/ ReadMaxOrder(r)
    BY <1>1, <1>4, <1>6 DEF Scan, ReadMaxOrder, Work
  <1>7. CASE Kill(r)
    <2>1. PICK p \in work[r].targets, fails \in BOOLEAN :
            Local(r, [work[r] EXCEPT !.targets = @ \ {p}, !.failed = @ \/ fails])
      BY <1>7 DEF Kill
    <2> DEFINE w == [work[r] EXCEPT !.targets = work[r].targets \ {p},
                                    !.failed = work[r].failed \/ fails]
    <2>2. w.kind = work[r].kind /\ Local(r, w)
      BY <1>1, <2>1 DEF Work
    <2> HIDE DEF w
    <2>3. QED
      BY <1>4, <2>2
  <1>8. QED
    BY <1>2, <1>3, <1>5, <1>6, <1>7
       DEF Step, CheckNotRunning, RefuseStart, Spawn, SpawnFails, HealthCheckPasses,
           HealthCheckTimesOut, RefuseStop, KillsDone, KillFailed, ValidatePath, RejectPath,
           InsertRow, UpdateRow, ConfirmStopped, RefuseDelete, DeleteRow, RegistryFails

\* A request that arrives is admitted, and does nothing yet; reordering is done at once.
LEMMA ArrivesAdmitted ==
  ASSUME RequestsOK, NEW r \in Requests, Arrive(r)
  PROVE  /\ UNCHANGED <<nextId, procs, listening>>
         /\ \/ Reorder(r) /\ UNCHANGED <<pc, work>> /\ Admitted("reorder")
            \/ /\ UNCHANGED rows /\ Admitted(work'[r].kind)
               /\ pc'[r] \in {"check", "scan", "validate", "confirm"}
  <1>1. CASE Reorder(r)
    BY <1>1 DEF Reorder, os
  <1>2. ASSUME NEW step \in {"check", "scan", "validate", "confirm"}, NEW w, Begin(r, step, w)
        PROVE  /\ UNCHANGED <<nextId, procs, listening, rows>> /\ Admitted(work'[r].kind)
               /\ pc'[r] \in {"check", "scan", "validate", "confirm"}
    <2>1. work'[r] = w /\ pc'[r] = step
      BY <1>2 DEF Begin, Goto, Local, RequestsOK
    <2>2. QED
      BY <1>2, <2>1 DEF Begin, table, os
  <1>3. QED
    BY <1>1, <1>2
       DEF Arrive, BeginStartAll, BeginStart, BeginStopAll, BeginStop, BeginCreate, BeginUpdate,
           BeginDelete

LEMMA SoloKept ==
  ASSUME TypeOK, SoloIInv, [Next]_vars
  PROVE  SoloIInv'
  <1>1. UNCHANGED setting /\ RequestsOK
    BY SettingStays, Types
  <1>2. None \notin setting.alone
    BY EnvironmentAssumption, NoneAssumption DEF TypeOK, Setting
  <1>3. ASSUME NEW r \in Requests, Step(r) PROVE SoloIInv'
    <2>1. \A s \in Requests : work'[s].kind \in {work[s].kind, None}
      BY <1>1, <1>3, KindStays, OthersStay
    <2>2. QED
      BY <1>1, <1>2, <2>1 DEF SoloIInv
  <1>4. ASSUME NEW r \in Requests, Arrive(r) PROVE SoloIInv'
    <2>1. \A s \in Requests : s # r => work'[s] = work[s]
      BY <1>1, <1>4, OthersStay
    <2>2. UNCHANGED work \/ Admitted(work'[r].kind)
      BY <1>1, <1>4, ArrivesAdmitted
    <2>3. QED
      BY <1>1, <2>1, <2>2 DEF SoloIInv, Admitted
  <1>5. CASE Crash
    BY <1>1, <1>2, <1>5 DEF Crash, NoWork, SoloIInv
  <1>6. CASE UNCHANGED vars \/ \E p \in Pids : Listen(p) \/ Die(p)
    BY <1>1, <1>6 DEF vars, Listen, Die, SoloIInv
  <1>7. QED
    BY <1>3, <1>4, <1>5, <1>6 DEF Next

\* What always holds, whatever the setting.
Base == TypeOK /\ KindsOK /\ SoloIInv

LEMMA BaseInvariant == Spec => []Base
  <1>1. Init => SoloIInv
    <2>1. SUFFICES ASSUME Init PROVE \A r \in Requests : work[r].kind \notin setting.alone
      BY DEF SoloIInv
    <2>2. None \notin setting.alone
      BY <2>1, EnvironmentAssumption, NoneAssumption DEF Init, Setting
    <2>3. QED
      BY <2>1, <2>2 DEF Init, NoWork
  <1>2. TypeOK /\ SoloIInv /\ [Next]_vars => SoloIInv'
    BY SoloKept
  <1>3. QED
    BY <1>1, <1>2, TypesAndKinds, PTL DEF Spec, Base

\* There is only one request of the kinds that come one by one.
LEMMA Excluded ==
  ASSUME Base, NEW some \in SUBSET RequestKinds, OneByOne(some),
         NEW r \in Requests, NEW s \in Requests, work[r].kind \in some, work[s].kind \in some
  PROVE  r = s
  <1>1. work[r].kind \in Kinds /\ work[s].kind \in Kinds
    BY NoneAssumption DEF Base, KindsOK, RightStep
  <1>2. QED
    BY <1>1 DEF Base, SoloIInv, OneByOne

\* The kind of a request, by the step it is at.
LEMMA KindByStep ==
  ASSUME KindsOK, NEW r \in Requests
  PROVE  /\ pc[r] \in StartSteps => work[r].kind \in {"startAll", "start"}
         /\ pc[r] \in StopSteps => work[r].kind \in {"stopAll", "stop"}
         /\ pc[r] \in {"validate", "order", "insert", "update"} => work[r].kind \in {"create", "update"}
         /\ pc[r] \in {"order", "insert"} => work[r].kind = "create"
         /\ pc[r] = "update" => work[r].kind = "update"
         /\ pc[r] \in {"confirm", "delete"} => work[r].kind = "delete"
  BY DEF KindsOK, RightStep, StartSteps, StopSteps

\* A request is where it was, or has made a step, or has just arrived.
LEMMA WhoMoved ==
  ASSUME TypeOK, [Next]_vars, NEW r \in Requests, pc'[r] # "idle"
  PROVE  UNCHANGED <<pc[r], work[r]>> \/ Step(r) \/ Arrive(r)
  <1>1. RequestsOK
    BY Types
  <1>2. CASE UNCHANGED vars \/ \E p \in Pids : Listen(p) \/ Die(p)
    BY <1>2 DEF vars, Listen, Die
  <1>3. CASE \E s \in Requests : Arrive(s) \/ Step(s)
    BY <1>1, <1>3, OthersStay
  <1>4. ~Crash
    BY DEF Crash
  <1>5. QED
    BY <1>2, <1>3, <1>4 DEF Next

\* The steps that lead to one.
LEMMA LeadsTo ==
  ASSUME RequestsOK, NEW r \in Requests, Step(r)
  PROVE  /\ pc'[r] \notin {"validate", "confirm"}
         /\ pc'[r] = "spawn" => CheckNotRunning(r)
         /\ pc'[r] \in {"order", "update"} => ValidatePath(r)
         /\ pc'[r] = "insert" => ReadMaxOrder(r)
         /\ pc'[r] = "delete" => ConfirmStopped(r)
  BY DEF Step, CheckNotRunning, RefuseStart, Spawn, SpawnFails, HealthCheckPasses,
         HealthCheckTimesOut, RecordStart, Scan, RefuseStop, Kill, KillsDone, KillFailed,
         RecordEnd, ValidatePath, RejectPath, ReadMaxOrder, InsertRow, UpdateRow,
         ConfirmStopped, RefuseDelete, DeleteRow, RegistryFails, Reply, Goto, RequestsOK

-----------------------------------------------------------------------------
(* What a step does to the rows.                                           *)

LEMMA Inserted ==
  ASSUME RowsOK, KindsOK, NEW r \in Requests, InsertRow(r)
  PROVE  /\ nextId \notin Ids /\ nextId' = nextId + 1 /\ Ids' \subseteq Ids \cup {nextId}
         /\ rows'[nextId].path = work[r].path /\ rows'[nextId].order = work[r].order
         /\ \A i \in Ids : i \in Ids' /\ rows'[i] = rows[i]
  <1> DEFINE row == NewRow(nextId, work[r].path, work[r].port, work[r].order)
  <1>1. nextId \in 1..MaxRows /\ rows' = [rows EXCEPT ![nextId] = row] /\ nextId' = nextId + 1
    BY TableAssumption DEF InsertRow, RowsOK
  <1>2. row.path = work[r].path /\ row.order = work[r].order
    BY DEF NewRow
  <1> HIDE DEF row
  <1>3. \A i \in Ids : i # nextId
    BY DEF RowsOK
  <1>4. QED
    BY <1>1, <1>2, <1>3 DEF RowsOK, Ids

LEMMA Updated ==
  ASSUME RowsOK, RequestsOK, KindsOK, NEW r \in Requests, UpdateRow(r)
  PROVE  /\ Ids' = Ids /\ nextId' = nextId
         /\ \A i \in Ids : i # work[r].id => rows'[i] = rows[i]
         /\ work[r].id \in Ids =>
              /\ rows'[work[r].id].path = work[r].path
              /\ rows'[work[r].id].order = rows[work[r].id].order
              /\ rows'[work[r].id].times = rows[work[r].id].times
  <1>1. CASE work[r].id \notin Ids
    BY <1>1 DEF UpdateRow, Ids
  <1>2. CASE work[r].id \in Ids
    <2> DEFINE id == work[r].id
               row == [rows[id] EXCEPT !.path = work[r].path, !.port = work[r].port]
    <2>1. rows[id] \in Row /\ rows[id].id = id /\ Ids \subseteq DOMAIN rows
      BY <1>2, TableFacts DEF RowsOK
    <2>2. rows' = [rows EXCEPT ![id] = row] /\ nextId' = nextId
      BY <1>2 DEF UpdateRow
    <2>3. work[r].path \in Paths /\ work[r].port \in BOOLEAN
      BY DEF UpdateRow, RequestsOK, Work, KindsOK, RightStep, StartSteps, StopSteps
    <2>4. /\ row \in Row /\ row.id = id
          /\ row.path = work[r].path /\ row.order = rows[id].order
          /\ row.times = rows[id].times
      BY <2>1, <2>3 DEF Row
    <2> HIDE DEF row
    <2>5. Ids' = Ids
      BY <1>2, <2>2, <2>4, RowChanged
    <2>6. QED
      BY <1>2, <2>1, <2>2, <2>4, <2>5
  <1>3. QED
    BY <1>1, <1>2

LEMMA Deleted ==
  ASSUME RowsOK, NEW r \in Requests, DeleteRow(r)
  PROVE  nextId' = nextId /\ Ids \ {work[r].id} \subseteq Ids'
         /\ \A i \in Ids' : i \in Ids /\ rows'[i] = rows[i]
  BY DEF DeleteRow, RowsOK, Ids

\* Any other step leaves which rows there are, and their paths.
LEMMA RowsKept ==
  ASSUME TypeOK, KindsOK, [Next]_vars,
         \A r \in Requests : ~InsertRow(r) /\ ~UpdateRow(r) /\ ~DeleteRow(r)
  PROVE  /\ Ids' = Ids /\ nextId' = nextId
         /\ \A i \in Ids : rows'[i].path = rows[i].path /\ rows'[i].port = rows[i].port
         /\ \A i \in Ids : "reorder" \notin Kinds => rows'[i].order = rows[i].order
         /\ \A i \in Ids : rows'[i].times # rows[i].times =>
              \E r \in Requests : (RecordStart(r) \/ RecordEnd(r)) /\ i = Current(r).id
  <1>1. RowsOK
    BY Types
  <1>2. CASE UNCHANGED <<rows, nextId>>
    BY <1>2 DEF Ids
  <1>3. ASSUME NEW r \in Requests, Reorder(r)
        PROVE  /\ Ids' = Ids /\ nextId' = nextId /\ "reorder" \in Kinds
               /\ \A i \in Ids : /\ rows'[i].path = rows[i].path /\ rows'[i].port = rows[i].port
                                 /\ rows'[i].times = rows[i].times
    BY <1>1, <1>3, ReorderKeepsRows DEF Reorder, Admitted
  <1>4. ASSUME NEW r \in Requests, RecordStart(r) \/ RecordEnd(r)
        PROVE  /\ SameRows /\ nextId' = nextId
               /\ \A i \in Ids : i # Current(r).id => rows'[i] = rows[i]
    BY <1>1, <1>4, SetTimeKeepsRows DEF RecordStart, RecordEnd
  <1>5. CASE \E r \in Requests : RecordStart(r) \/ RecordEnd(r)
    BY <1>4, <1>5 DEF SameRows
  <1>6. QED
    BY <1>2, <1>3, <1>5
       DEF Next, Arrive, Step, BeginStartAll, BeginStart, BeginStopAll, BeginStop, BeginCreate,
           BeginUpdate, BeginDelete, Begin, CheckNotRunning, RefuseStart, Spawn,
           SpawnFails, HealthCheckPasses, HealthCheckTimesOut, Scan, RefuseStop, Kill,
           KillsDone, KillFailed, ValidatePath, RejectPath, ReadMaxOrder,
           ConfirmStopped, RefuseDelete, RegistryFails,
           Listen, Die, Crash, table, vars

\* Without an update, an id names a row of the same path and port, or none, for ever.
LEMMA PathsStay ==
  ASSUME TypeOK, KindsOK, [Next]_vars, \A r \in Requests : ~UpdateRow(r),
         NEW i \in Nat, i < nextId
  PROVE  /\ i < nextId'
         /\ i \in Ids' => /\ i \in Ids
                          /\ rows'[i].path = rows[i].path /\ rows'[i].port = rows[i].port
  <1>1. RowsOK /\ nextId \in Nat
    BY Types DEF RowsOK
  <1>2. CASE \E r \in Requests : InsertRow(r)
    BY <1>1, <1>2, Inserted
  <1>3. CASE \E r \in Requests : DeleteRow(r)
    BY <1>1, <1>3, Deleted
  <1>4. QED
    BY <1>2, <1>3, RowsKept

-----------------------------------------------------------------------------
(* Where starts come one by one, no program runs twice.                    *)

NoTwins == \A p, q \in Pids : procs[p] # None /\ procs[p] = procs[q] => p = q

OnceIInv ==
  OneByOne({"startAll", "start"}) /\ "scan" \notin Faults =>
    /\ NoTwins
    /\ \A r \in Requests : pc[r] = "spawn" => ~Running(Program(r))

LEMMA OnceKept ==
  ASSUME Base, OnceIInv, [Next]_vars
  PROVE  OnceIInv'
  <1>1. UNCHANGED setting /\ TypeOK /\ KindsOK /\ RequestsOK /\ OsOK
    BY SettingStays, Types DEF Base
  <1>2. SUFFICES ASSUME OneByOne({"startAll", "start"}), "scan" \notin Faults
                 PROVE  NoTwins' /\ \A r \in Requests : pc'[r] = "spawn" => ~Running(Program(r))'
    BY <1>1 DEF OnceIInv, OneByOne, Kinds, Faults
  <1>3. NoTwins /\ \A r \in Requests : pc[r] = "spawn" => ~Running(Program(r))
    BY <1>2 DEF OnceIInv
  <1>4. ASSUME NEW r \in Requests, pc[r] = "spawn" PROVE Program(r) \in Programs /\ Program(r) # None
    <2>1. work[r].list \in Seq(Row) /\ work[r].i \in DOMAIN work[r].list
      BY <1>1, <1>4 DEF RequestsOK, Work, Placed, StartSteps
    <2>2. QED
      BY <2>1, ProgramFacts DEF Program, Current
  <1>5. CASE \A r \in Requests : ~Spawn(r)
    <2>1. NoTwins'
      BY <1>1, <1>3, <1>5, WhoSpawns DEF NoTwins
    <2>2. ASSUME NEW r \in Requests, pc'[r] = "spawn" PROVE ~Running(Program(r))'
      <3>1. CASE UNCHANGED <<pc[r], work[r]>>
        <4>1. PidsOf(Program(r))' \subseteq PidsOf(Program(r))
          BY <1>1, <1>4, <1>5, <2>2, <3>1, WhoSpawns DEF Program, Current, PidsOf
        <4>2. QED
          BY <1>3, <2>2, <3>1, <4>1 DEF Running
      <3>2. CASE Step(r)
        BY <1>1, <1>2, <2>2, <3>2, LeadsTo
           DEF CheckNotRunning, os, Running, PidsOf, Program, Current
      <3>3. ~Arrive(r)
        BY <1>1, <1>3, <1>4, <2>2, ArrivesAdmitted, <3>1 DEF Reorder
      <3>4. QED
        BY <1>1, <2>2, <3>1, <3>2, <3>3, WhoMoved
    <2>3. QED
      BY <2>1, <2>2
  <1>6. ASSUME NEW s \in Requests, Spawn(s)
        PROVE  NoTwins' /\ \A r \in Requests : pc'[r] # "spawn"
    <2>1. PICK p \in FreePids : procs' = [procs EXCEPT ![p] = Program(s)]
      BY <1>6 DEF Spawn
    <2>2. \A q \in Pids : procs[q] # Program(s)
      BY <1>3, <1>6 DEF Spawn, Running, PidsOf
    <2>3. NoTwins'
      BY <1>1, <1>3, <2>1, <2>2 DEF NoTwins, OsOK, FreePids
    <2>4. \A r \in Requests : pc[r] = "spawn" => work[r].kind \in {"startAll", "start"}
      BY <1>1, KindByStep DEF StartSteps
    <2>5. \A r \in Requests : pc[r] = "spawn" => r = s
      BY <1>2, <1>6, <2>4, Excluded DEF Spawn, RequestKinds
    <2>6. pc' = [pc EXCEPT ![s] = "wait"]
      BY <1>6 DEF Spawn, Goto
    <2>7. QED
      BY <1>1, <2>3, <2>5, <2>6 DEF RequestsOK
  <1>7. QED
    BY <1>5, <1>6

\* No program runs twice, for any number of requests, programs and process ids, as
\* long as starts come one by one and process lists can be read.
THEOREM ProgramsRunOnce == Spec => []SingleInstance
  <1>1. Init => OnceIInv
    BY DEF Init, OnceIInv, NoTwins
  <1>2. Base /\ OnceIInv /\ [Next]_vars => OnceIInv'
    BY OnceKept
  <1>3. OnceIInv => SingleInstance
    BY DEF OnceIInv, NoTwins, SingleInstance
  <1>4. QED
    BY <1>1, <1>2, <1>3, BaseInvariant, PTL DEF Spec

-----------------------------------------------------------------------------
(* Where rows are created and updated one by one, they differ.             *)

\* The paths configured at first differ.
DistinctPaths ==
  \A i, j \in DOMAIN Configured : Configured[i].path = Configured[j].path => i = j

PathsDiffer  == \A i, j \in Ids : rows[i].path = rows[j].path => i = j
OrdersDiffer == \A i, j \in Ids : rows[i].order = rows[j].order => i = j

\* What is about to be written differs from every other row.
Fresh(r) ==
  /\ pc[r] \in {"order", "insert"} => \A i \in Ids : rows[i].path # work[r].path
  /\ pc[r] = "update" => \A i \in Ids : rows[i].path = work[r].path => i = work[r].id
  /\ pc[r] = "insert" /\ "reorder" \notin Kinds => \A i \in Ids : rows[i].order < work[r].order

RowsIInv ==
  OneByOne({"create", "update"}) =>
    /\ PathsDiffer
    /\ "reorder" \notin Kinds => OrdersDiffer
    /\ \A r \in Requests : Fresh(r)

LEMMA RowsDifferInitially == ASSUME DistinctPaths, Init PROVE RowsIInv
  <1>1. ASSUME NEW i \in Ids
        PROVE  i \in DOMAIN Configured /\ rows[i].path = Configured[i].path /\ rows[i].order = i
    <2>1. i \in 1..MaxRows /\ rows[i] # None
      BY DEF Ids, Init
    <2>2. QED
      BY <2>1, InitialRows
  <1>2. PathsDiffer /\ OrdersDiffer
    BY <1>1 DEF PathsDiffer, OrdersDiffer, DistinctPaths
  <1>3. \A r \in Requests : Fresh(r)
    BY DEF Init, Fresh
  <1>4. QED
    BY <1>2, <1>3 DEF RowsIInv

\* What a request has found stays so while no other one creates or updates.
LEMMA FreshKept ==
  ASSUME Base, OneByOne({"create", "update"}), RowsIInv, [Next]_vars,
         \A s \in Requests : ~InsertRow(s) /\ ~UpdateRow(s), NEW r \in Requests
  PROVE  Fresh(r)'
  <1>1. UNCHANGED setting /\ RequestsOK /\ RowsOK /\ TypeOK /\ KindsOK
    BY SettingStays, Types DEF Base
  <1>2. PathsDiffer /\ Fresh(r)
    BY DEF RowsIInv
  <1>3. /\ Ids' \subseteq Ids
        /\ \A i \in Ids' : rows'[i].path = rows[i].path
        /\ "reorder" \notin Kinds => \A i \in Ids' : rows'[i].order = rows[i].order
    <2>1. CASE \E s \in Requests : DeleteRow(s)
      BY <1>1, <2>1, Deleted
    <2>2. QED
      BY <1>1, <2>1, RowsKept
  <1>4. CASE UNCHANGED <<pc[r], work[r]>>
    BY <1>1, <1>2, <1>3, <1>4 DEF Fresh, Kinds
  <1>5. CASE ValidatePath(r)
    <2>1. UNCHANGED <<rows, work>> /\ pc'[r] = (IF work[r].kind = "create" THEN "order" ELSE "update")
      BY <1>1, <1>5 DEF ValidatePath, Goto, RequestsOK, table
    <2>2. work[r].kind = "create" => work[r].id = 0
      BY <1>1, <1>5 DEF KindsOK, RightStep, StartSteps, StopSteps, ValidatePath
    <2>3. ASSUME NEW i \in Ids, rows[i].path = work[r].path PROVE i = work[r].id
      <3>1. Ids \subseteq Nat
        BY <1>1, TableFacts
      <3>2. ASSUME NEW j \in Ids, rows[j].path = work[r].path, j < i PROVE FALSE
        <4>1. i = j
          BY <1>2, <2>3, <3>2 DEF PathsDiffer
        <4>2. QED
          BY <3>1, <3>2, <4>1
      <3>3. QED
        BY <1>5, <2>3, <3>2 DEF ValidatePath, PathAccepted
    <2>4. \A i \in Ids : i # 0
      BY <1>1, TableFacts
    <2>5. QED
      BY <2>1, <2>2, <2>3, <2>4 DEF Fresh, Ids
  <1>6. CASE ReadMaxOrder(r)
    <2>1. UNCHANGED rows /\ pc'[r] = "insert" /\ pc[r] = "order"
      BY <1>1, <1>6 DEF ReadMaxOrder, Goto, RequestsOK, table
    <2>2. work'[r].path = work[r].path /\ work'[r].order = MaxOrder + 1
      BY <1>1, <1>6 DEF ReadMaxOrder, Local, RequestsOK, Work
    <2>3. \A i \in Ids : rows[i].order < MaxOrder + 1
      BY <1>1, TableFacts, MaxOrderFacts DEF Row
    <2>4. QED
      BY <1>2, <2>1, <2>2, <2>3 DEF Fresh, Ids
  <1>7. ASSUME pc'[r] \in {"order", "insert", "update"}
        PROVE  UNCHANGED <<pc[r], work[r]>> \/ ValidatePath(r) \/ ReadMaxOrder(r)
    <2>1. CASE Step(r)
      BY <1>1, <1>7, <2>1, LeadsTo
    <2>2. CASE Arrive(r)
      BY <1>1, <1>7, <2>2, ArrivesAdmitted
    <2>3. QED
      BY <1>1, <1>7, <2>1, <2>2, WhoMoved
  <1>8. QED
    BY <1>4, <1>5, <1>6, <1>7 DEF Fresh

LEMMA RowsStayApart ==
  ASSUME Base, RowsIInv, [Next]_vars
  PROVE  RowsIInv'
  <1>1. UNCHANGED setting /\ RequestsOK /\ RowsOK /\ TypeOK /\ KindsOK
    BY SettingStays, Types DEF Base
  <1>2. SUFFICES ASSUME OneByOne({"create", "update"})
                 PROVE  /\ PathsDiffer' /\ ("reorder" \notin Kinds => OrdersDiffer')
                        /\ \A r \in Requests : Fresh(r)'
    BY <1>1 DEF RowsIInv, OneByOne, Kinds
  <1>3. PathsDiffer /\ ("reorder" \notin Kinds => OrdersDiffer) /\ \A r \in Requests : Fresh(r)
    BY <1>2 DEF RowsIInv
  <1>4. ASSUME NEW s \in Requests, InsertRow(s) \/ UpdateRow(s)
        PROVE  \A r \in Requests : Fresh(r)'
    <2>1. \A r \in Requests : pc[r] \in {"order", "insert", "update"} => work[r].kind \in {"create", "update"}
      BY <1>1, KindByStep
    <2>2. \A r \in Requests : pc[r] \in {"order", "insert", "update"} => r = s
      BY <1>2, <1>4, <2>1, Excluded DEF InsertRow, UpdateRow, RequestKinds
    <2>3. pc' = [pc EXCEPT ![s] = "idle"]
      BY <1>4 DEF InsertRow, UpdateRow, Reply, Goto
    <2>4. \A r \in Requests : pc'[r] \notin {"order", "insert", "update"}
      BY <1>1, <2>2, <2>3 DEF RequestsOK
    <2>5. QED
      BY <2>4 DEF Fresh
  <1>5. CASE \E s \in Requests : InsertRow(s)
    <2>1. PICK s \in Requests : InsertRow(s)
      BY <1>5
    <2>2. /\ Ids' \subseteq Ids \cup {nextId}
          /\ rows'[nextId].path = work[s].path /\ rows'[nextId].order = work[s].order
          /\ \A i \in Ids : rows'[i] = rows[i]
      BY <1>1, <2>1, Inserted
    <2>3. \A i \in Ids : rows[i].path # work[s].path
      BY <1>3, <2>1 DEF InsertRow, Fresh
    <2>4. PathsDiffer'
      BY <1>3, <2>2, <2>3 DEF PathsDiffer
    <2>5. ASSUME "reorder" \notin Kinds PROVE OrdersDiffer'
      <3>1. \A i \in Ids : rows[i].order \in Int /\ work[s].order \in Int
        BY <1>1, TableFacts DEF Row, RequestsOK, Work
      <3>2. \A i \in Ids : rows[i].order < work[s].order
        BY <1>3, <2>1, <2>5 DEF InsertRow, Fresh
      <3>3. \A i \in Ids : rows[i].order # work[s].order
        BY <3>1, <3>2
      <3>4. QED
        BY <1>3, <2>2, <2>5, <3>3 DEF OrdersDiffer
    <2>6. QED
      BY <1>4, <2>1, <2>4, <2>5
  <1>6. CASE \E s \in Requests : UpdateRow(s)
    <2>1. PICK s \in Requests : UpdateRow(s)
      BY <1>6
    <2>2. /\ Ids' = Ids /\ \A i \in Ids : i # work[s].id => rows'[i] = rows[i]
          /\ work[s].id \in Ids => /\ rows'[work[s].id].path = work[s].path
                                   /\ rows'[work[s].id].order = rows[work[s].id].order
      BY <1>1, <2>1, Updated
    <2>3. \A i \in Ids : rows[i].path = work[s].path => i = work[s].id
      BY <1>3, <2>1 DEF UpdateRow, Fresh
    <2>4. PathsDiffer'
      BY <1>3, <2>2, <2>3 DEF PathsDiffer
    <2>5. \A i \in Ids : rows'[i].order = rows[i].order
      BY <2>2
    <2>6. "reorder" \notin Kinds => OrdersDiffer'
      BY <1>3, <2>2, <2>5 DEF OrdersDiffer
    <2>7. QED
      BY <1>4, <2>1, <2>4, <2>6
  <1>7. CASE \A s \in Requests : ~InsertRow(s) /\ ~UpdateRow(s)
    <2>1. CASE \E s \in Requests : DeleteRow(s)
      <3>1. \A i \in Ids' : i \in Ids /\ rows'[i] = rows[i]
        BY <1>1, <2>1, Deleted
      <3>2. QED
        BY <1>2, <1>3, <1>7, <3>1, FreshKept DEF PathsDiffer, OrdersDiffer
    <2>2. CASE \A s \in Requests : ~DeleteRow(s)
      <3>1. /\ Ids' = Ids /\ \A i \in Ids : rows'[i].path = rows[i].path
            /\ "reorder" \notin Kinds => \A i \in Ids : rows'[i].order = rows[i].order
        BY <1>1, <1>7, <2>2, RowsKept
      <3>2. QED
        BY <1>2, <1>3, <1>7, <3>1, FreshKept DEF PathsDiffer, OrdersDiffer
    <2>3. QED
      BY <2>1, <2>2
  <1>8. QED
    BY <1>5, <1>6, <1>7

\* No two rows have one path, as long as rows are created and updated one by one
\* and the first ones have paths of their own; nor one place in the sequence, as
\* long as no reorder request arrives: a new row goes behind the largest order,
\* whichever rows were deleted before.
THEOREM RowsStayDistinct == ASSUME DistinctPaths PROVE Spec => []UniqueRows
  <1>1. Init => RowsIInv
    BY RowsDifferInitially
  <1>2. Base /\ RowsIInv /\ [Next]_vars => RowsIInv'
    BY RowsStayApart
  <1>3. RowsIInv => UniqueRows
    BY DEF RowsIInv, PathsDiffer, OrdersDiffer, UniqueRows
  <1>4. QED
    BY <1>1, <1>2, <1>3, BaseInvariant, PTL DEF Spec

-----------------------------------------------------------------------------
(* Where starts, updates and deletions come one by one, the row of a       *)
(* running program stays.                                                  *)

\* A deletion is about the row it has read, whose program was found stopped.
Deletes(r) ==
  /\ work[r].id \in Nat /\ work[r].id < nextId
  /\ work[r].id \in Ids => rows[work[r].id].path = Current(r).path
  /\ Program(r) # None
  /\ pc[r] = "delete" => ~Running(Program(r))

StayIInv ==
  OneByOne({"startAll", "start", "update", "delete"}) =>
    \A r \in Requests : pc[r] \in {"confirm", "delete"} => Deletes(r)

LEMMA StayKept ==
  ASSUME Base, StayIInv, [Next]_vars
  PROVE  StayIInv'
  <1>1. UNCHANGED setting /\ RequestsOK /\ RowsOK /\ TypeOK /\ KindsOK
    BY SettingStays, Types DEF Base
  <1> DEFINE some == {"startAll", "start", "update", "delete"}
  <1>2. SUFFICES ASSUME OneByOne(some), NEW r \in Requests, pc'[r] \in {"confirm", "delete"}
                 PROVE  Deletes(r)'
    BY <1>1 DEF StayIInv, OneByOne, Kinds
  <1>3. \A s \in Requests : pc[s] \in {"confirm", "delete"} => Deletes(s) /\ work[s].kind = "delete"
    BY <1>1, <1>2, KindByStep DEF StayIInv
  <1>4. CASE UNCHANGED <<pc[r], work[r]>>
    <2>1. Deletes(r) /\ work[r].kind \in some
      BY <1>2, <1>3, <1>4
    <2>2. \A s \in Requests : work[s].kind \in some => s = r
      BY <1>2, <2>1, Excluded DEF Base, RequestKinds
    <2>3. \A s \in Requests : ~UpdateRow(s) /\ ~Spawn(s)
      <3>1. ASSUME NEW s \in Requests, pc[s] \in {"update", "spawn"} PROVE work[s].kind \in some \ {"delete"}
        BY <1>1, <3>1, KindByStep DEF StartSteps
      <3>2. QED
        BY <1>2, <1>3, <1>4, <2>2, <3>1 DEF UpdateRow, Spawn
    <2>4. /\ work[r].id < nextId'
          /\ work[r].id \in Ids' => /\ work[r].id \in Ids
                                    /\ rows'[work[r].id].path = rows[work[r].id].path
      BY <1>1, <2>1, <2>3, PathsStay DEF Deletes
    <2>5. PidsOf(Program(r))' \subseteq PidsOf(Program(r))
      <3>1. \A b : b # None => PidsOf(b)' \subseteq PidsOf(b)
        BY <1>1, <2>3, WhoSpawns
      <3>2. Program(r)' = Program(r)
        BY <1>4 DEF Program, Current
      <3>3. QED
        BY <2>1, <3>1, <3>2 DEF Deletes, PidsOf
    <2>6. QED
      BY <1>2, <1>4, <2>1, <2>4, <2>5 DEF Deletes, Program, Current, Running
  <1>5. CASE Step(r)
    <2>1. ConfirmStopped(r)
      BY <1>1, <1>2, <1>5, LeadsTo
    <2>2. Deletes(r)
      BY <1>3, <2>1 DEF ConfirmStopped
    <2>3. QED
      BY <2>1, <2>2
         DEF ConfirmStopped, Deletes, Running, PidsOf, Program, Current, Ids, table, os
  <1>6. CASE Arrive(r)
    <2>1. CASE Reorder(r)
      BY <1>4, <2>1 DEF Reorder
    <2>2. CASE BeginDelete(r)
      <3>1. PICK id \in Ids : Begin(r, "confirm", [NoWork EXCEPT !.kind = "delete", !.id = id,
                                                   !.list = <<rows[id]>>, !.i = 1])
        BY <2>2 DEF BeginDelete
      <3>2. /\ pc'[r] = "confirm" /\ work'[r].id = id
            /\ work'[r].list = <<rows[id]>> /\ work'[r].i = 1
        BY <1>1, <3>1 DEF Begin, Goto, Local, RequestsOK, NoWork
      <3>3. Current(r)' = rows[id]
        BY <3>2 DEF Current
      <3>4. id \in Nat /\ id < nextId /\ rows[id] \in Row
        BY <1>1, TableFacts DEF RowsOK
      <3>5. UNCHANGED <<rows, nextId>>
        BY <3>1 DEF Begin, table
      <3>6. QED
        BY <3>2, <3>3, <3>4, <3>5, ProgramFacts DEF Deletes, Program
    <2>3. ASSUME NEW step, NEW w, Begin(r, step, w), step \in {"check", "scan", "validate"} PROVE FALSE
      BY <1>1, <1>2, <2>3 DEF Begin, Goto, RequestsOK
    <2>4. QED
      BY <1>6, <2>1, <2>2, <2>3
         DEF Arrive, BeginStartAll, BeginStart, BeginStopAll, BeginStop, BeginCreate, BeginUpdate
  <1>7. QED
    BY <1>1, <1>2, <1>4, <1>5, <1>6, WhoMoved

\* No row of a running program is deleted, as long as starts, updates and deletions
\* come one by one, whatever stops, dies or crashes meanwhile.
THEOREM RowsOfRunningStay == Spec => RunningRowsStay
  <1>1. Init => StayIInv
    BY DEF Init, StayIInv
  <1>2. Base /\ StayIInv /\ [Next]_vars => StayIInv'
    BY StayKept
  <1>3. ASSUME Base, StayIInv, [Next]_vars,
               OneByOne({"startAll", "start", "update", "delete"}), NEW i \in Ids \ Ids'
        PROVE  ~Running(Binary[rows[i].path])
    <2>1. RowsOK /\ RequestsOK /\ TypeOK /\ KindsOK
      BY <1>3, Types DEF Base
    <2>2. \A r \in Requests : ~InsertRow(r) /\ ~UpdateRow(r)
      BY <1>3, <2>1, Inserted, Updated
    <2>3. PICK r \in Requests : DeleteRow(r)
      BY <1>3, <2>1, <2>2, RowsKept
    <2>4. i = work[r].id
      BY <1>3, <2>1, <2>3, Deleted
    <2>5. Deletes(r) /\ pc[r] = "delete"
      BY <1>3, <2>3 DEF DeleteRow, StayIInv
    <2>6. QED
      BY <1>3, <2>4, <2>5 DEF Deletes, Program
  <1>4. Base /\ StayIInv /\ [Next]_vars =>
          [OneByOne({"startAll", "start", "update", "delete"}) =>
             \A i \in Ids \ Ids' : ~Running(Binary[rows[i].path])]_vars
    BY <1>3
  <1>5. QED
    BY <1>1, <1>2, <1>4, BaseInvariant, PTL DEF Spec, RunningRowsStay

-----------------------------------------------------------------------------
(* Where starts, stops and updates come one by one, recorded times are true. *)

LEMMA LatestIsLast ==
  ASSUME NEW times \in Times, NEW field \in {"start", "end"}, NEW row, row.times = Latest(times, field)
  PROVE  LastTime(row) = field
  BY DEF Times, Latest, LastTime

\* What a sequence works on is listed as it is in the table, and it has seen what
\* it is about to record.
Sees(r) ==
  /\ \A j \in DOMAIN work[r].list :
       LET row == work[r].list[j] IN
         /\ row.id < nextId
         /\ row.id \in Ids => rows[row.id].path = row.path /\ rows[row.id].port = row.port
  /\ pc[r] = "started" => Healthy(Current(r))
  /\ pc[r] = "kill" /\ ~work[r].failed => PidsOf(Program(r)) \subseteq work[r].targets
  /\ pc[r] = "stopped" => ~Running(Program(r))

TimesIInv ==
  OneByOne({"startAll", "start", "stopAll", "stop", "update"}) /\ "die" \notin Faults =>
    \A r \in Requests : pc[r] \in StartSteps \cup StopSteps => Sees(r)

\* The locals of a request that starts or stops, and of the row it is at.
LEMMA AtRow ==
  ASSUME TypeOK, NEW r \in Requests, pc[r] \in StartSteps \cup StopSteps
  PROVE  /\ work[r] \in Work /\ work[r].list \in Seq(Row) /\ work[r].i \in DOMAIN work[r].list
         /\ Current(r) \in Row /\ Program(r) \in Programs /\ Program(r) # None
         /\ \A j \in DOMAIN work[r].list : work[r].list[j] \in Row
  <1>1. work[r] \in Work /\ work[r].list \in Seq(Row) /\ work[r].i \in DOMAIN work[r].list
    BY Types DEF RequestsOK, Work, Placed
  <1>2. \A j \in DOMAIN work[r].list : work[r].list[j] \in Row
    BY <1>1
  <1>3. Current(r) \in Row
    BY <1>1, <1>2 DEF Current
  <1>4. QED
    BY <1>1, <1>2, <1>3, ProgramFacts DEF Program

LEMMA TimesKept ==
  ASSUME Base, TimesIInv, [Next]_vars
  PROVE  TimesIInv'
  <1>1. UNCHANGED setting /\ RequestsOK /\ RowsOK /\ OsOK /\ TypeOK /\ KindsOK
    BY SettingStays, Types DEF Base
  <1> DEFINE some == {"startAll", "start", "stopAll", "stop", "update"}
  <1>2. SUFFICES ASSUME OneByOne(some), "die" \notin Faults,
                        NEW r \in Requests, pc'[r] \in StartSteps \cup StopSteps
                 PROVE  Sees(r)'
    BY <1>1 DEF TimesIInv, OneByOne, Kinds, Faults
  <1>3. ASSUME pc[r] \in StartSteps \cup StopSteps
        PROVE  /\ Sees(r)
               /\ \A s \in Requests : ~UpdateRow(s)
               /\ \A s \in Requests : Spawn(s) \/ Kill(s) => s = r
    <2>1. work[r].kind \in some
      BY <1>1, <1>3, KindByStep
    <2>2. ASSUME NEW s \in Requests, pc[s] \in StartSteps \cup StopSteps \cup {"update"} PROVE s = r
      <3>1. work[s].kind \in some
        BY <1>1, <2>2, KindByStep
      <3>2. QED
        BY <1>2, <2>1, <3>1, Excluded DEF RequestKinds
    <2>3. QED
      BY <1>2, <1>3, <2>2 DEF TimesIInv, UpdateRow, Spawn, Kill, StartSteps, StopSteps
  <1>4. ASSUME pc[r] \in StartSteps \cup StopSteps, NEW row \in Row, row.id < nextId,
               row.id \in Ids => rows[row.id].path = row.path /\ rows[row.id].port = row.port
        PROVE  /\ row.id < nextId'
               /\ row.id \in Ids' => rows'[row.id].path = row.path /\ rows'[row.id].port = row.port
    <2>1. row.id \in Nat
      BY <1>4, TableAssumption DEF Row
    <2>2. QED
      BY <1>1, <1>3, <1>4, <2>1, PathsStay
  <1>5. ASSUME pc[r] \in StartSteps \cup StopSteps, work'[r].list = work[r].list
        PROVE  \A j \in DOMAIN work'[r].list :
                 LET row == work'[r].list[j] IN
                   /\ row.id < nextId'
                   /\ row.id \in Ids' => rows'[row.id].path = row.path /\ rows'[row.id].port = row.port
    BY <1>1, <1>3, <1>4, <1>5, AtRow DEF Sees
  <1>6. CASE UNCHANGED <<pc[r], work[r]>>
    <2>1. /\ pc[r] \in StartSteps \cup StopSteps
          /\ Current(r)' = Current(r) /\ Program(r)' = Program(r)
          /\ work'[r].list = work[r].list
      BY <1>2, <1>6 DEF Current, Program
    <2>2. \A s \in Requests : ~(Spawn(s) /\ s # r) /\ ~(Kill(s) /\ s # r)
      BY <1>3, <2>1
    <2>3. ~Spawn(r)
      BY <1>1, <1>6 DEF Spawn, Goto, RequestsOK
    <2>4. ~Kill(r)
      <3>1. ASSUME NEW p \in work[r].targets, NEW fails \in BOOLEAN,
                   Local(r, [work[r] EXCEPT !.targets = @ \ {p}, !.failed = @ \/ fails])
            PROVE  work'[r].targets = work[r].targets \ {p}
        BY <1>1, <3>1 DEF Local, RequestsOK, Work
      <3>2. ASSUME Kill(r) PROVE \E p \in work[r].targets : work'[r].targets = work[r].targets \ {p}
        BY <3>1, <3>2 DEF Kill
      <3>3. QED
        BY <1>6, <3>2
    <2>5. PidsOf(Program(r))' \subseteq PidsOf(Program(r))
      <3>1. \A b : b # None => PidsOf(b)' \subseteq PidsOf(b)
        BY <1>1, <2>2, <2>3, WhoSpawns
      <3>2. QED
        BY <1>1, <2>1, <3>1, AtRow DEF PidsOf
    <2>6. Healthy(Current(r)) => Healthy(Current(r))'
      <3>1. \A p \in Pids : ~Die(p)
        BY <1>2 DEF Die
      <3>2. \A row \in Row : Healthy(row) => Healthy(row)'
        BY <1>1, <2>2, <2>4, <3>1, WhoKills
      <3>3. QED
        BY <1>1, <2>1, <3>2, AtRow DEF Healthy, Running, PidsOf, PortOpen
    <2>7. QED
      BY <1>3, <1>5, <1>6, <2>1, <2>5, <2>6 DEF Sees, Running
  <1>7. CASE Step(r)
    <2>1. pc[r] \in StartSteps \cup StopSteps
      BY <1>1, <1>2, <1>7, StaysInRegistry
    <2>2. /\ Sees(r) /\ work[r] \in Work /\ work[r].list \in Seq(Row)
          /\ Current(r) \in Row /\ Program(r) # None
      BY <1>1, <1>3, <2>1, AtRow
    <2>3. CASE pc[r] \in StartSteps
      <3>1. work'[r].list = work[r].list
        BY <1>1, <1>2, <1>7, <2>2, <2>3, StartingSteps DEF Replies, StartSteps, StopSteps, Work
      <3>2. pc'[r] \in {"spawn", "wait", "check"} \/ (HealthCheckPasses(r) /\ work'[r] = work[r])
        BY <1>1, <1>2, <1>7, <2>3, StartingSteps DEF Replies, StartSteps, StopSteps
      <3>3. pc'[r] = "started" => Healthy(Current(r))'
        BY <3>2 DEF HealthCheckPasses, Healthy, Running, PidsOf, PortOpen, Current, os
      <3>4. pc'[r] \notin {"kill", "stopped"}
        BY <1>1, <3>2 DEF HealthCheckPasses, Goto, RequestsOK
      <3>5. QED
        BY <1>5, <2>1, <3>1, <3>3, <3>4 DEF Sees
    <2>4. CASE Scan(r) /\ pc'[r] = "kill" /\ work'[r] = [work[r] EXCEPT !.targets = PidsOf(Program(r))]
      <3>1. /\ work'[r].list = work[r].list /\ work'[r].i = work[r].i
            /\ work'[r].targets = PidsOf(Program(r))
        BY <2>2, <2>4 DEF Work
      <3>2. PidsOf(Program(r))' = PidsOf(Program(r))
        BY <2>4, <3>1 DEF Scan, PidsOf, Program, Current, os
      <3>3. QED
        BY <1>5, <2>1, <2>4, <3>1, <3>2 DEF Sees
    <2>5. CASE Kill(r) /\ pc'[r] = "kill"
      <3>1. PICK p \in work[r].targets, fails \in BOOLEAN :
              /\ procs' = [procs EXCEPT ![p] = None] \/ (UNCHANGED procs /\ fails)
              /\ work'[r] = [work[r] EXCEPT !.targets = @ \ {p}, !.failed = @ \/ fails]
        BY <1>1, <1>2, <1>7, <2>5, StoppingSteps
           DEF Kill, Scan, KillsDone, RecordEnd, Replies, StartSteps, StopSteps
      <3>2. /\ work'[r].list = work[r].list /\ work'[r].i = work[r].i
            /\ work'[r].targets = work[r].targets \ {p}
            /\ work'[r].failed \/ (work'[r].failed = work[r].failed /\ procs' = [procs EXCEPT ![p] = None])
        BY <2>2, <3>1 DEF Work
      <3>3. Program(r)' = Program(r)
        BY <3>2 DEF Program, Current
      <3>4. ASSUME ~work'[r].failed PROVE PidsOf(Program(r))' \subseteq work'[r].targets
        <4>1. PidsOf(Program(r)) \subseteq work[r].targets
          BY <2>2, <2>5, <3>2, <3>4 DEF Sees, Kill
        <4>2. p \in Pids /\ procs' = [procs EXCEPT ![p] = None]
          BY <2>2, <3>2, <3>4 DEF Work
        <4>3. PidsOf(Program(r))' \subseteq PidsOf(Program(r)) \ {p}
          BY <1>1, <2>2, <3>3, <4>2 DEF PidsOf, OsOK
        <4>4. QED
          BY <3>2, <4>1, <4>3
      <3>5. QED
        BY <1>5, <2>1, <2>5, <3>2, <3>4 DEF Sees
    <2>6. CASE KillsDone(r) /\ pc'[r] = "stopped" /\ work'[r] = work[r]
      <3>1. ~Running(Program(r))
        BY <2>2, <2>6 DEF Sees, KillsDone, Running
      <3>2. ~Running(Program(r))'
        BY <2>6, <3>1 DEF KillsDone, Running, PidsOf, Program, Current, os
      <3>3. QED
        BY <1>5, <2>1, <2>6, <3>2 DEF Sees
    <2>7. CASE pc'[r] = "scan" /\ work'[r] = [work[r] EXCEPT !.i = @ - 1]
      <3>1. work'[r].list = work[r].list
        BY <2>2, <2>7 DEF Work
      <3>2. QED
        BY <1>5, <2>1, <2>7, <3>1 DEF Sees
    <2>8. ~Replies(r)
      BY <1>2 DEF Replies, StartSteps, StopSteps
    <2>9. QED
      BY <1>1, <1>7, <2>1, <2>3, <2>4, <2>5, <2>6, <2>7, <2>8, StoppingSteps
  <1>8. CASE Arrive(r)
    <2>1. CASE Reorder(r)
      BY <1>6, <2>1 DEF Reorder
    <2>2. ASSUME NEW step \in {"check", "scan"}, NEW w, Begin(r, step, w),
                 \A j \in DOMAIN w.list : w.list[j] \in {rows[i] : i \in Ids}
          PROVE  Sees(r)'
      <3>1. pc'[r] = step /\ work'[r] = w /\ UNCHANGED <<rows, nextId>>
        BY <1>1, <2>2 DEF Begin, Goto, Local, RequestsOK, table
      <3>2. \A i \in Ids : rows[i].id = i /\ i < nextId
        BY <1>1 DEF RowsOK
      <3>3. QED
        BY <2>2, <3>1, <3>2 DEF Sees, Ids
    <2>3. CASE BeginStartAll(r) \/ BeginStopAll(r)
      BY <1>1, <2>2, <2>3, ListingFacts DEF BeginStartAll, BeginStopAll, NoWork
    <2>4. CASE BeginStart(r) \/ BeginStop(r)
      <3>1. PICK id \in Ids : \E kind \in {"start", "stop"}, step \in {"check", "scan"} :
              Begin(r, step, OnList(kind, <<rows[id]>>, 1))
        BY <2>4 DEF BeginStart, BeginStop, OnList
      <3>2. PICK kind \in {"start", "stop"}, step \in {"check", "scan"} :
              Begin(r, step, OnList(kind, <<rows[id]>>, 1))
        BY <3>1
      <3>3. OnList(kind, <<rows[id]>>, 1).list = <<rows[id]>>
        BY DEF OnList, NoWork
      <3>4. \A j \in DOMAIN <<rows[id]>> : <<rows[id]>>[j] = rows[id]
        OBVIOUS
      <3>5. QED
        BY <2>2, <3>2, <3>3, <3>4
    <2>5. ASSUME NEW step \in {"validate", "confirm"}, NEW w, Begin(r, step, w) PROVE FALSE
      BY <1>1, <1>2, <2>5 DEF Begin, Goto, RequestsOK, StartSteps, StopSteps
    <2>6. QED
      BY <1>8, <2>1, <2>3, <2>4, <2>5 DEF Arrive, BeginCreate, BeginUpdate, BeginDelete
  <1>9. QED
    BY <1>1, <1>2, <1>6, <1>7, <1>8, NothingToDo, WhoMoved DEF StartSteps, StopSteps

\* A start_time is recorded only of a process that is up and healthy, an end_time
\* only when nothing of the program runs, as long as starts, stops and updates come
\* one by one and no process dies by itself.
THEOREM TimesTellTheTruth == Spec => TimesAreTrue
  <1> DEFINE Cond == /\ OneByOne({"startAll", "start", "stopAll", "stop", "update"})
                     /\ "die" \notin Faults
  <1>1. Init => TimesIInv
    BY DEF Init, TimesIInv, StartSteps, StopSteps
  <1>2. Base /\ TimesIInv /\ [Next]_vars => TimesIInv'
    BY TimesKept
  <1>3. ASSUME Base, TimesIInv, [Next]_vars, Cond, NEW i \in Ids \cap Ids',
               rows'[i].times # rows[i].times
        PROVE  IF LastTime(rows'[i]) = "start" THEN Healthy(rows[i])
               ELSE ~Running(Binary[rows[i].path])
    <2>1. RowsOK /\ RequestsOK /\ TypeOK /\ KindsOK
      BY <1>3, Types DEF Base
    <2>2. \A r \in Requests : ~InsertRow(r) /\ ~UpdateRow(r) /\ ~DeleteRow(r)
      BY <1>3, <2>1, Inserted, Updated, Deleted
    <2>3. PICK r \in Requests : (RecordStart(r) \/ RecordEnd(r)) /\ i = Current(r).id
      BY <1>3, <2>1, <2>2, RowsKept
    <2>4. pc[r] \in StartSteps \cup StopSteps
      BY <2>3 DEF RecordStart, RecordEnd, StartSteps, StopSteps
    <2>5. /\ Sees(r) /\ Current(r) = work[r].list[work[r].i]
          /\ work[r].i \in DOMAIN work[r].list
      BY <1>3, <2>1, <2>4, AtRow DEF TimesIInv, Current
    <2>6. rows[i].path = Current(r).path /\ rows[i].port = Current(r).port
      BY <2>3, <2>5 DEF Sees
    <2>7. rows[i] \in Row /\ rows[i].times \in Times
      BY <2>1, TableFacts DEF Row
    <2>8. ASSUME NEW field \in {"start", "end"}, SetTime(r, field) PROVE LastTime(rows'[i]) = field
      <3>1. rows'[i].times = Latest(rows[i].times, field)
        <4>1. rows' = [rows EXCEPT ![i].times = Latest(@, field)]
          BY <1>3, <2>3, <2>8 DEF SetTime
        <4>2. i \in DOMAIN rows
          BY <2>1, TableFacts
        <4>3. QED
          BY <2>7, <4>1, <4>2 DEF Row
      <3>2. QED
        BY <2>7, <3>1, LatestIsLast
    <2>9. CASE RecordStart(r)
      BY <2>5, <2>6, <2>8, <2>9 DEF RecordStart, Sees, Healthy
    <2>10. CASE RecordEnd(r)
      BY <2>5, <2>6, <2>8, <2>10 DEF RecordEnd, Sees, Program
    <2>11. QED
      BY <2>3, <2>9, <2>10
  <1>4. Base /\ TimesIInv /\ [Next]_vars =>
          [Cond => \A i \in Ids \cap Ids' : rows'[i].times # rows[i].times =>
             IF LastTime(rows'[i]) = "start" THEN Healthy(rows[i])
             ELSE ~Running(Binary[rows[i].path])]_vars
    BY <1>3
  <1>5. QED
    BY <1>1, <1>2, <1>4, BaseInvariant, PTL DEF Spec, TimesAreTrue

=============================================================================
