--------------------------- MODULE ServerProcesses ---------------------------
(***************************************************************************)
(* The registry of server processes and the supervisor that starts and     *)
(* stops them.                                                             *)
(*                                                                         *)
(* HTTP handlers (goroutines) maintain a table of processes and start or   *)
(* stop one of them or the whole sequence.  No handler locks anything:     *)
(* what one checked (no such path yet, not running, the list of rows) may  *)
(* have changed when it acts on it.  Processes listen when they are ready, *)
(* die by themselves, and outlive the agent.                               *)
(***************************************************************************)
EXTENDS Integers, Sequences, FiniteSets

CONSTANTS
  Requests,    \* requests the server may be serving at one time
  Paths,       \* cleaned paths of existing .exe, .bat and .cmd files
  Binary,      \* path -> the program it names (normalizePath ignores case)
  Pids,        \* process ids of the operating system
  Configured,  \* rows the table holds at first: <<[path, port], ...>>
  Settings,    \* environments to look at, see Setting
  None,        \* no program, no path, no row, no kind of request
  MaxRows,     \* bound: ids the table hands out
  Places,      \* bound: values of sequence_order a reorder request may carry
  Ports        \* bound: whether a create or update request may carry a port

RequestKinds == {"startAll", "stopAll", "start", "stop",
                 "create", "update", "delete", "reorder"}
FaultKinds   == {"scan", "file", "spawn", "slow", "kill", "wait", "db", "die", "crash"}
Programs     == {Binary[p] : p \in Paths}

\* Which requests arrive, which kinds of them come one by one (as from one
\* administrator who waits for the answer), and which faults occur.
Setting == [kinds : SUBSET RequestKinds, alone : SUBSET RequestKinds,
            faults : SUBSET FaultKinds]

\* Which of start_time and end_time a row has, the later one last.
Times == {<<>>, <<"start">>, <<"end">>, <<"start", "end">>, <<"end", "start">>}

\* port: whether a port is configured (the one the program listens on).
Row == [id : 1..MaxRows, path : Paths, port : BOOLEAN, order : Int, times : Times]

ASSUME TableAssumption ==
  /\ MaxRows \in Nat
  /\ Configured \in Seq([path : Paths, port : BOOLEAN])
  /\ Len(Configured) <= MaxRows
ASSUME NoneAssumption == None \notin Programs \cup Paths \cup Row \cup RequestKinds
ASSUME EnvironmentAssumption == Settings \subseteq Setting
ASSUME InputAssumption == Places \subseteq Int /\ Ports \subseteq BOOLEAN

VARIABLES
  setting,    \* the environment, which stays as it is
  rows,       \* server_processes: id -> row, or None
  nextId,     \* AUTOINCREMENT: ids are not handed out twice
  procs,      \* pid -> program it runs, or None
  listening,  \* pids of processes whose port is open
  pc,         \* where each request is
  work        \* the locals of each request

table == <<rows, nextId>>
os    == <<procs, listening>>
vars  == <<setting, rows, nextId, procs, listening, pc, work>>

Kinds  == setting.kinds
Faults == setting.faults

\* A request of this kind may begin.
Admitted(kind) ==
  /\ kind \in Kinds
  /\ kind \in setting.alone => \A r \in Requests : work[r].kind \notin setting.alone

-----------------------------------------------------------------------------
(* The table and the operating system.                                     *)

Ids == {i \in DOMAIN rows : rows[i] # None}

NewRow(id, path, port, order) ==
  [id |-> id, path |-> path, port |-> port, order |-> order, times |-> <<>>]

\* GetServerProcesses: the rows by sequence_order, equal ones in any order.
Listings ==
  {list \in [1..Cardinality(Ids) -> {rows[i] : i \in Ids}] :
     \A j, k \in DOMAIN list :
       j < k => list[j].id # list[k].id /\ list[j].order <= list[k].order}

MaxOrder == IF Ids = {} THEN 0
            ELSE CHOOSE n \in {rows[i].order : i \in Ids} :
                   \A i \in Ids : rows[i].order <= n

\* validateServerProcessPath: GetServerProcessByPath returns one row, the first.
PathAccepted(path, id) ==
  \A i \in Ids : rows[i].path = path =>
    i = id \/ \E j \in Ids : rows[j].path = path /\ j < i

PidsOf(b)    == {p \in Pids : procs[p] = b}
Running(b)   == PidsOf(b) # {}
PortOpen(b)  == PidsOf(b) \cap listening # {}

\* WaitForPort where a port is configured, WaitForProcess where not.
Healthy(row) ==
  IF row.port THEN PortOpen(Binary[row.path]) ELSE Running(Binary[row.path])

-----------------------------------------------------------------------------
(* Requests.                                                               *)

StartSteps    == {"check", "spawn", "wait", "started"}
StopSteps     == {"scan", "kill", "stopped"}
RegistrySteps == {"validate", "order", "insert", "update", "confirm", "delete"}
Steps         == StartSteps \cup StopSteps \cup RegistrySteps \cup {"idle"}

\* list, i: the rows to start or stop and the position reached; targets: pids
\* still to be terminated; failed: one of them could not be.
Work == [kind : RequestKinds \cup {None}, list : Seq(Row), i : Nat,
         targets : SUBSET Pids, failed : BOOLEAN,
         id : 0..MaxRows, path : Paths \cup {None}, port : BOOLEAN, order : Int]

NoWork == [kind |-> None, list |-> <<>>, i |-> 0, targets |-> {}, failed |-> FALSE,
           id |-> 0, path |-> None, port |-> FALSE, order |-> 0]

Current(r)    == work[r].list[work[r].i]
Program(r)    == Binary[Current(r).path]
\* Every step of a request goes somewhere, and leaves the setting as it is.
Goto(r, step) == pc' = [pc EXCEPT ![r] = step] /\ UNCHANGED setting
Local(r, w)   == work' = [work EXCEPT ![r] = w]
Reply(r)      == Goto(r, "idle") /\ Local(r, NoWork)
Begin(r, step, w) ==
  /\ pc[r] = "idle" /\ Admitted(w.kind)
  /\ Goto(r, step) /\ Local(r, w)
  /\ UNCHANGED <<table, os>>

\* The agent may be restarted while processes it started run.
Init ==
  /\ setting \in Settings
  /\ procs \in {f \in [Pids -> {Binary[Configured[i].path] : i \in DOMAIN Configured}
                               \cup {None}] :
                  \A p, q \in Pids : p # q /\ f[p] # None => f[p] # f[q]}
  /\ listening = {p \in Pids : procs[p] # None}
  /\ rows = [i \in 1..MaxRows |->
               IF i > Len(Configured) THEN None
               ELSE LET row == NewRow(i, Configured[i].path, Configured[i].port, i)
                    IN  IF Running(Binary[row.path])
                        THEN [row EXCEPT !.times = <<"start">>] ELSE row]
  /\ nextId = Len(Configured) + 1
  /\ pc = [r \in Requests |-> "idle"]
  /\ work = [r \in Requests |-> NoWork]

-----------------------------------------------------------------------------
(* Starting.                                                               *)

\* The list is read once, when the sequence begins.
BeginStartAll(r) ==
  \E list \in Listings :
    /\ list # <<>>
    /\ Begin(r, "check", [NoWork EXCEPT !.kind = "startAll", !.list = list, !.i = 1])

BeginStart(r) ==
  \E id \in Ids :
    Begin(r, "check", [NoWork EXCEPT !.kind = "start", !.list = <<rows[id]>>, !.i = 1])

\* Mutant: StartProcess does not look for a running process.
CheckSkipped(r) ==
  /\ pc[r] = "check"
  /\ Goto(r, "spawn")
  /\ UNCHANGED <<table, os, work>>

\* A process list that cannot be read counts as "not running".
CheckNotRunning(r) ==
  /\ pc[r] = "check"
  /\ ~Running(Program(r)) \/ "scan" \in Faults
  /\ Goto(r, "spawn")
  /\ UNCHANGED <<table, os, work>>

\* "process is already running", or the file is gone: a sequence ends here.
RefuseStart(r) ==
  /\ pc[r] = "check"
  /\ Running(Program(r)) \/ "file" \in Faults
  /\ Reply(r)
  /\ UNCHANGED <<table, os>>

\* Pids that no stop request is about to use.
FreePids == {p \in Pids : procs[p] = None /\ \A r \in Requests : p \notin work[r].targets}

Spawn(r) ==
  /\ pc[r] = "spawn"
  /\ \E p \in FreePids : procs' = [procs EXCEPT ![p] = Program(r)]
  /\ Goto(r, "wait")
  /\ UNCHANGED <<table, listening, work>>

SpawnFails(r) ==
  /\ pc[r] = "spawn"
  /\ "spawn" \in Faults \/ FreePids = {}
  /\ Reply(r)
  /\ UNCHANGED <<table, os>>

HealthCheckPasses(r) ==
  /\ pc[r] = "wait"
  /\ Healthy(Current(r))
  /\ Goto(r, "started")
  /\ UNCHANGED <<table, os, work>>

\* Mutant: a timeout is logged and the sequence goes on.
TimeoutIgnored(r) ==
  /\ pc[r] = "wait"
  /\ ~Healthy(Current(r))
  /\ "slow" \in Faults \/ ~Running(Program(r))
  /\ Goto(r, "started")
  /\ UNCHANGED <<table, os, work>>

\* Mutant: the timeout never fires.
WaitForever(r) ==
  /\ pc[r] = "wait"
  /\ ~Healthy(Current(r))
  /\ UNCHANGED vars

\* 60 seconds without success; the process is left as it is.
HealthCheckTimesOut(r) ==
  /\ pc[r] = "wait"
  /\ ~Healthy(Current(r))
  /\ "slow" \in Faults \/ ~Running(Program(r))
  /\ Reply(r)
  /\ UNCHANGED <<table, os>>

\* Now the field has the later one of the two times.
Latest(times, field) ==
  IF times \in {<<>>, <<field>>} THEN <<field>>
  ELSE IF field = "start" THEN <<"end", "start">> ELSE <<"start", "end">>

\* UpdateProcessStartTime and UpdateProcessEndTime only log a failure, and do
\* nothing where the row is gone.
SetTime(r, field) ==
  LET id == Current(r).id
  IN  \/ /\ id \in Ids
         /\ rows' = [rows EXCEPT ![id].times = Latest(@, field)]
      \/ (id \notin Ids \/ "db" \in Faults) /\ UNCHANGED rows

RecordStart(r) ==
  /\ pc[r] = "started"
  /\ SetTime(r, "start")
  /\ IF work[r].i < Len(work[r].list)
     THEN Goto(r, "check") /\ Local(r, [work[r] EXCEPT !.i = @ + 1])
     ELSE Reply(r)
  /\ UNCHANGED <<nextId, os>>

-----------------------------------------------------------------------------
(* Stopping.                                                               *)

BeginStopAll(r) ==
  \E list \in Listings :
    /\ list # <<>>
    /\ Begin(r, "scan", [NoWork EXCEPT !.kind = "stopAll", !.list = list, !.i = Len(list)])

BeginStop(r) ==
  \E id \in Ids :
    Begin(r, "scan", [NoWork EXCEPT !.kind = "stop", !.list = <<rows[id]>>, !.i = 1])

\* Mutant: only the first process found is terminated.
FirstTarget(r) ==
  /\ pc[r] = "scan"
  /\ \E p \in PidsOf(Program(r)) : Local(r, [work[r] EXCEPT !.targets = {p}])
  /\ Goto(r, "kill")
  /\ UNCHANGED <<table, os>>

Scan(r) ==
  /\ pc[r] = "scan"
  /\ Running(Program(r))
  /\ Local(r, [work[r] EXCEPT !.targets = PidsOf(Program(r))])
  /\ Goto(r, "kill")
  /\ UNCHANGED <<table, os>>

\* "process not found": a stop sequence ends at a process that is not running.
RefuseStop(r) ==
  /\ pc[r] = "scan"
  /\ ~Running(Program(r)) \/ "scan" \in Faults
  /\ Reply(r)
  /\ UNCHANGED <<table, os>>

\* terminateProcess: whether p ends and whether that is reported as an error are
\* two things.  A process that stays is an error ("kill"); so is one that is
\* gone, unless it still has to be waited for; and Wait fails for a process that
\* an earlier agent started, although SIGTERM ends it ("wait").
Kill(r) ==
  /\ pc[r] = "kill"
  /\ \E p \in work[r].targets, fails \in BOOLEAN :
       /\ \/ /\ procs' = [procs EXCEPT ![p] = None]
             /\ listening' = listening \ {p}
             /\ fails => "wait" \in Faults
          \/ /\ UNCHANGED os
             /\ fails /\ (procs[p] = None \/ "kill" \in Faults)
       /\ Local(r, [work[r] EXCEPT !.targets = @ \ {p}, !.failed = @ \/ fails])
  /\ UNCHANGED <<setting, table, pc>>

KillsDone(r) ==
  /\ pc[r] = "kill" /\ work[r].targets = {} /\ ~work[r].failed
  /\ Goto(r, "stopped")
  /\ UNCHANGED <<table, os, work>>

\* Mutant: the last error of terminateProcess is dropped.
KillFailureIgnored(r) ==
  /\ pc[r] = "kill" /\ work[r].targets = {} /\ work[r].failed
  /\ Goto(r, "stopped")
  /\ Local(r, [work[r] EXCEPT !.failed = FALSE])
  /\ UNCHANGED <<table, os>>

KillFailed(r) ==
  /\ pc[r] = "kill" /\ work[r].targets = {} /\ work[r].failed
  /\ Reply(r)
  /\ UNCHANGED <<table, os>>

RecordEnd(r) ==
  /\ pc[r] = "stopped"
  /\ SetTime(r, "end")
  /\ IF work[r].i > 1
     THEN Goto(r, "scan") /\ Local(r, [work[r] EXCEPT !.i = @ - 1])
     ELSE Reply(r)
  /\ UNCHANGED <<nextId, os>>

-----------------------------------------------------------------------------
(* The registry.                                                           *)

BeginCreate(r) ==
  \E path \in Paths, port \in Ports :
    Begin(r, "validate", [NoWork EXCEPT !.kind = "create", !.path = path, !.port = port])

BeginUpdate(r) ==
  \E id \in 1..MaxRows, path \in Paths, port \in Ports :
    Begin(r, "validate",
          [NoWork EXCEPT !.kind = "update", !.id = id, !.path = path, !.port = port])

ValidatePath(r) ==
  /\ pc[r] = "validate"
  /\ PathAccepted(work[r].path, work[r].id)
  /\ Goto(r, IF work[r].kind = "create" THEN "order" ELSE "update")
  /\ UNCHANGED <<table, os, work>>

RejectPath(r) ==
  /\ pc[r] = "validate"
  /\ ~PathAccepted(work[r].path, work[r].id) \/ Faults \cap {"file", "db"} # {}
  /\ Reply(r)
  /\ UNCHANGED <<table, os>>

\* Mutant: the new row gets the number of rows that are left.
CountOfRows(r) ==
  /\ pc[r] = "order"
  /\ Local(r, [work[r] EXCEPT !.order = Cardinality(Ids) + 1])
  /\ Goto(r, "insert")
  /\ UNCHANGED <<table, os>>

ReadMaxOrder(r) ==
  /\ pc[r] = "order"
  /\ Local(r, [work[r] EXCEPT !.order = MaxOrder + 1])
  /\ Goto(r, "insert")
  /\ UNCHANGED <<table, os>>

InsertRow(r) ==
  /\ pc[r] = "insert"
  /\ nextId <= MaxRows
  /\ rows' = [rows EXCEPT ![nextId] =
                NewRow(nextId, work[r].path, work[r].port, work[r].order)]
  /\ nextId' = nextId + 1
  /\ Reply(r)
  /\ UNCHANGED os

\* Times and order stay; a row that was deleted meanwhile stays deleted.
UpdateRow(r) ==
  /\ pc[r] = "update"
  /\ rows' = IF work[r].id \in Ids
             THEN [rows EXCEPT ![work[r].id] =
                     [@ EXCEPT !.path = work[r].path, !.port = work[r].port]]
             ELSE rows
  /\ Reply(r)
  /\ UNCHANGED <<nextId, os>>

BeginDelete(r) ==
  \E id \in Ids :
    Begin(r, "confirm", [NoWork EXCEPT !.kind = "delete", !.id = id,
                                       !.list = <<rows[id]>>, !.i = 1])

\* Mutant: the row is deleted whether the process runs or not.
ConfirmAnyway(r) ==
  /\ pc[r] = "confirm"
  /\ Goto(r, "delete")
  /\ UNCHANGED <<table, os, work>>

ConfirmStopped(r) ==
  /\ pc[r] = "confirm"
  /\ ~Running(Program(r))
  /\ Goto(r, "delete")
  /\ UNCHANGED <<table, os, work>>

RefuseDelete(r) ==
  /\ pc[r] = "confirm"
  /\ Running(Program(r)) \/ "scan" \in Faults
  /\ Reply(r)
  /\ UNCHANGED <<table, os>>

DeleteRow(r) ==
  /\ pc[r] = "delete"
  /\ rows' = [rows EXCEPT ![work[r].id] = None]
  /\ Reply(r)
  /\ UNCHANGED <<nextId, os>>

\* A statement fails, or (create) the bound on the table is reached.
RegistryFails(r) ==
  /\ \/ pc[r] \in {"order", "insert", "update", "delete"} /\ "db" \in Faults
     \/ pc[r] = "insert" /\ nextId > MaxRows
  /\ Reply(r)
  /\ UNCHANGED <<table, os>>

\* The places a request carries are written as they are, in one transaction:
\* the list the page made them from may be an old one.  Ids of rows that are gone
\* update nothing.
Reorder(r) ==
  /\ pc[r] = "idle" /\ Admitted("reorder")
  /\ \E ids \in SUBSET Ids : \E place \in [ids -> Places] :
       rows' = [i \in 1..MaxRows |->
                  IF i \in ids THEN [rows[i] EXCEPT !.order = place[i]] ELSE rows[i]]
  /\ UNCHANGED <<setting, nextId, os, pc, work>>

-----------------------------------------------------------------------------
(* The environment.                                                        *)

\* A process has opened its port.
Listen(p) ==
  /\ procs[p] # None /\ p \notin listening
  /\ listening' = listening \cup {p}
  /\ UNCHANGED <<setting, table, procs, pc, work>>

Die(p) ==
  /\ "die" \in Faults /\ procs[p] # None
  /\ procs' = [procs EXCEPT ![p] = None]
  /\ listening' = listening \ {p}
  /\ UNCHANGED <<setting, table, pc, work>>

\* The agent dies and is started again; server processes go on.
Crash ==
  /\ "crash" \in Faults
  /\ pc' = [r \in Requests |-> "idle"]
  /\ work' = [r \in Requests |-> NoWork]
  /\ UNCHANGED <<setting, table, os>>

Arrive(r) ==
  \/ BeginStartAll(r) \/ BeginStart(r) \/ BeginStopAll(r) \/ BeginStop(r)
  \/ BeginCreate(r) \/ BeginUpdate(r) \/ BeginDelete(r) \/ Reorder(r)

\* A step of a request in progress.
Step(r) ==
  \/ CheckNotRunning(r) \/ RefuseStart(r) \/ Spawn(r) \/ SpawnFails(r)
  \/ HealthCheckPasses(r) \/ HealthCheckTimesOut(r) \/ RecordStart(r)
  \/ Scan(r) \/ RefuseStop(r) \/ Kill(r) \/ KillsDone(r) \/ KillFailed(r)
  \/ RecordEnd(r)
  \/ ValidatePath(r) \/ RejectPath(r) \/ ReadMaxOrder(r) \/ InsertRow(r)
  \/ UpdateRow(r) \/ ConfirmStopped(r) \/ RefuseDelete(r) \/ DeleteRow(r)
  \/ RegistryFails(r)

Next ==
  \/ \E r \in Requests : Arrive(r) \/ Step(r)
  \/ \E p \in Pids : Listen(p) \/ Die(p)
  \/ Crash

Spec == Init /\ [][Next]_vars

\* A request in progress is served; nothing has to arrive, listen or die.
FairSpec == Spec /\ \A r \in Requests : WF_vars(Step(r))

-----------------------------------------------------------------------------
(* Properties.                                                             *)

\* Every variable has its type, and a request that starts, stops or deletes
\* has a row to do it to.
TypeOK ==
  /\ setting \in Settings
  /\ rows \in [1..MaxRows -> Row \cup {None}]
  /\ nextId \in 1..(MaxRows + 1)
  /\ procs \in [Pids -> Programs \cup {None}]
  /\ listening \subseteq {p \in Pids : procs[p] # None}
  /\ pc \in [Requests -> Steps]
  /\ work \in [Requests -> Work]
  /\ \A i \in Ids : rows[i].id = i /\ i < nextId
  /\ \A r \in Requests : pc[r] \in StartSteps \cup StopSteps \cup {"confirm"} =>
       work[r].i \in DOMAIN work[r].list

Rows(r) == {work[r].list[j] : j \in DOMAIN work[r].list}

\* Settings in which no process stops, in which none starts, and in which requests
\* of these kinds, as far as they arrive at all, come one by one.
NothingStops   == Kinds \subseteq {"startAll", "start", "update", "reorder"} /\ "die" \notin Faults
NothingStarts  == Kinds \subseteq {"stopAll", "stop", "update", "delete"}
OneByOne(some) == Kinds \cap some \subseteq setting.alone

\* Sequential startup: while a start sequence works on a process, every
\* process that precedes it in sequence_order is up and healthy, whatever was
\* refused, failed to start, timed out or was edited meanwhile.
EarlierAreUp ==
  NothingStops => \A r \in Requests : work[r].kind = "startAll" =>
    \A row \in Rows(r) : row.order < Current(r).order => Healthy(row)

\* Reverse-order shutdown: while a stop sequence works on a process, every
\* process that follows it in sequence_order is down, whatever failed, died or
\* was edited meanwhile.
LaterAreDown ==
  NothingStarts => \A r \in Requests : work[r].kind = "stopAll" =>
    \A row \in Rows(r) : row.order > Current(r).order => ~Running(Binary[row.path])

\* As long as rows are created and updated one by one, no two rows have one path,
\* whatever is deleted, started, reordered, fails or crashes meanwhile; and no two
\* have one place in the sequence, unless a reorder request gives them one.
UniqueRows ==
  OneByOne({"create", "update"}) => \A i, j \in Ids :
    \/ rows[i].path = rows[j].path
    \/ rows[i].order = rows[j].order /\ "reorder" \notin Kinds
    => i = j

\* As long as starts come one by one and process lists can be read, no program
\* runs twice, whatever is stopped, edited or deleted, dies or crashes meanwhile.
SingleInstance ==
  OneByOne({"startAll", "start"}) /\ "scan" \notin Faults =>
    \A p, q \in Pids : procs[p] # None /\ procs[p] = procs[q] => p = q

\* "Cannot delete a process that is currently running": as long as starts, updates
\* and deletions come one by one, no row of a running program is deleted, whatever
\* stops, fails or crashes meanwhile.  (A program may still lose its row: an update
\* of the path does not look whether the program runs.)
RunningRowsStay ==
  [][OneByOne({"startAll", "start", "update", "delete"}) =>
       \A i \in Ids \ Ids' : ~Running(Binary[rows[i].path])]_vars

LastTime(row) == IF row.times = <<>> THEN "none" ELSE row.times[Len(row.times)]

\* As long as starts, stops and updates come one by one and no process dies by
\* itself, a time is recorded only when it is true: a start_time of a process that
\* is up and healthy, an end_time when nothing runs any more, whatever times out,
\* resists, cannot be read or written, or is registered, reordered and deleted
\* meanwhile.  (That every start and end is recorded is not so: a health check
\* that times out, a failed stop, a failed write, a crash and an update of the path
\* leave the times as they are.)
TimesAreTrue ==
  [][OneByOne({"startAll", "start", "stopAll", "stop", "update"}) /\ "die" \notin Faults =>
       \A i \in Ids \cap Ids' : rows'[i].times # rows[i].times =>
         IF LastTime(rows'[i]) = "start" THEN Healthy(rows[i])
         ELSE ~Running(Binary[rows[i].path])]_vars

\* Every request is answered: health checks time out, refused or failing
\* steps end a sequence, and nobody waits for anybody.
RequestsAnswered == \A r \in Requests : pc[r] # "idle" ~> pc[r] = "idle"
=============================================================================
