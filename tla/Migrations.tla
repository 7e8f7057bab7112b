----------------------------- MODULE Migrations -----------------------------
(***************************************************************************)
(* The schema migrations, run by every agent that starts on a database.    *)
(*                                                                         *)
(* A migration is a check of its mark, a script of statements that commit  *)
(* one by one, and the insertion of the mark.  Agents that start together  *)
(* on one database interleave at each of these; an agent may die between   *)
(* any two of them, or end on an error, and be started again.              *)
(***************************************************************************)
EXTENDS Integers, Sequences, FiniteSets

CONSTANTS
  Agents,
  Jobs,         \* what they run: "up" (main does), "down"
  Last,         \* number of migrations
  Creates,      \* migration -> the objects its statements create, in order
  Drops,        \* migration -> the objects its rollback drops, in order
  References,   \* object -> the objects its foreign keys refer to
  QuietChecks,  \* rollbacks that take a failed check for a missing mark
  Faults        \* "check", "quiet", "statement", "mark", "crash"

Versions   == 1..Last
ObjectsOf(m) == {Creates[m][i] : i \in DOMAIN Creates[m]}
Objects    == UNION {ObjectsOf(m) : m \in Versions}

\* How the scripts are written: no two migrations create one object, a rollback
\* drops what its migration created, and a table refers to tables that are
\* created before it.
ASSUME JobAssumption   == Jobs \subseteq {"up", "down"} /\ Last \in Nat \ {0}
ASSUME FaultAssumption ==
  Faults \subseteq {"check", "quiet", "statement", "mark", "crash"} /\ QuietChecks \subseteq Versions
ASSUME ScriptAssumption ==
  /\ \A m \in Versions : /\ Creates[m] \in Seq(ObjectsOf(m)) \ {<<>>}
                         /\ Drops[m] \in Seq(ObjectsOf(m)) \ {<<>>}
                         /\ ObjectsOf(m) = {Drops[m][i] : i \in DOMAIN Drops[m]}
  /\ \A m, n \in Versions : m # n => ObjectsOf(m) \cap ObjectsOf(n) = {}
  /\ \A m \in Versions : \A i \in DOMAIN Creates[m] :
       References[Creates[m][i]] \subseteq
         (UNION {ObjectsOf(n) : n \in 1..(m - 1)}) \cup {Creates[m][j] : j \in 1..(i - 1)}

VARIABLES
  objects,  \* the schema
  marks,    \* rows of the table migrations
  pc,       \* where each agent is
  work      \* its locals: its job, the migration it is at, the next statement

vars == <<objects, marks, pc, work>>

-----------------------------------------------------------------------------

Steps   == {"off", "check", "run", "mark", "done", "failed"}
Running == {"check", "run", "mark"}

Script(job, m) == IF job = "up" THEN Creates[m] ELSE Drops[m]
First(job)     == IF job = "up" THEN 1 ELSE Last
IsLast(job, m) == IF job = "up" THEN m = Last ELSE m = 1
After(job, m)  == IF job = "up" THEN m + 1 ELSE m - 1

Goto(a, step) == pc' = [pc EXCEPT ![a] = step]
Fail(a)       == Goto(a, "failed") /\ UNCHANGED <<objects, work>>

\* On to the next migration, or the end of the job.
Advance(a) ==
  LET w == work[a] IN
  IF IsLast(w.job, w.at)
  THEN Goto(a, "done") /\ UNCHANGED work
  ELSE Goto(a, "check") /\ work' = [work EXCEPT ![a].at = After(w.job, w.at)]

Init ==
  /\ objects = {} /\ marks = {}
  /\ pc = [a \in Agents |-> "off"]
  /\ work = [a \in Agents |-> [job |-> "up", at |-> 1, next |-> 1]]

-----------------------------------------------------------------------------

\* MigrateUp or MigrateDown is called: on a start, or after an error.
Start(a) ==
  /\ pc[a] \notin Running
  /\ \E job \in Jobs :
       /\ Goto(a, "check")
       /\ work' = [work EXCEPT ![a] = [job |-> job, at |-> First(job), next |-> 1]]
  /\ UNCHANGED <<objects, marks>>

\* Mutant: a migration is due if its first object is missing.
DueByObject(a) ==
  work[a].job = "up" <=> Creates[work[a].at][1] \notin objects

\* There is something to do if the migration is not applied, or is to be rolled back.
Due(a) == work[a].job = "up" <=> work[a].at \notin marks

Check(a) ==
  /\ pc[a] = "check"
  /\ IF Due(a)
     THEN Goto(a, "run") /\ work' = [work EXCEPT ![a].next = 1]
     ELSE Advance(a)
  /\ UNCHANGED <<objects, marks>>

\* An error, except that some rollbacks only log it and skip the migration.
CheckFails(a) ==
  /\ pc[a] = "check"
  /\ IF work[a].job = "down" /\ work[a].at \in QuietChecks
     THEN "quiet" \in Faults /\ Advance(a) /\ UNCHANGED objects
     ELSE "check" \in Faults /\ Fail(a)
  /\ UNCHANGED marks

\* Mutant: CREATE without IF NOT EXISTS.
StrictStatement(a) ==
  LET w == work[a]
      o == Script(w.job, w.at)[w.next]
  IN  /\ pc[a] = "run" /\ UNCHANGED marks
      /\ IF w.job = "up" /\ o \in objects
         THEN Fail(a)
         ELSE /\ objects' = IF w.job = "up" THEN objects \cup {o} ELSE objects \ {o}
              /\ IF w.next = Len(Script(w.job, w.at))
                 THEN Goto(a, "mark") /\ UNCHANGED work
                 ELSE work' = [work EXCEPT ![a].next = @ + 1] /\ UNCHANGED pc

\* One statement, CREATE ... IF NOT EXISTS or DROP ... IF EXISTS.
Statement(a) ==
  LET w == work[a]
      o == Script(w.job, w.at)[w.next]
  IN  /\ pc[a] = "run"
      /\ objects' = IF w.job = "up" THEN objects \cup {o} ELSE objects \ {o}
      /\ IF w.next = Len(Script(w.job, w.at))
         THEN Goto(a, "mark") /\ UNCHANGED work
         ELSE work' = [work EXCEPT ![a].next = @ + 1] /\ UNCHANGED pc
      /\ UNCHANGED marks

StatementFails(a) ==
  /\ pc[a] = "run" /\ "statement" \in Faults
  /\ Fail(a) /\ UNCHANGED marks

\* markMigrationApplied, markMigrationRolledBack.
Mark(a) ==
  LET w == work[a] IN
  /\ pc[a] = "mark"
  /\ w.job = "up" => w.at \notin marks
  /\ marks' = IF w.job = "up" THEN marks \cup {w.at} ELSE marks \ {w.at}
  /\ Advance(a) /\ UNCHANGED objects

\* Mutant: the error is logged and the next migration begun.
MarkErrorIgnored(a) ==
  LET w == work[a] IN
  /\ pc[a] = "mark"
  /\ "mark" \in Faults \/ (w.job = "up" /\ w.at \in marks)
  /\ Advance(a) /\ UNCHANGED <<objects, marks>>

\* The name of a migration is unique: another agent has inserted it.
MarkFails(a) ==
  LET w == work[a] IN
  /\ pc[a] = "mark"
  /\ "mark" \in Faults \/ (w.job = "up" /\ w.at \in marks)
  /\ Fail(a) /\ UNCHANGED marks

Crash(a) ==
  /\ "crash" \in Faults
  /\ pc[a] \in Running \cup {"done"}
  /\ Goto(a, "off") /\ UNCHANGED <<objects, marks, work>>

-----------------------------------------------------------------------------

Step(a) ==
  \/ Check(a) \/ CheckFails(a)
  \/ Statement(a) \/ StatementFails(a)
  \/ Mark(a) \/ MarkFails(a)

Next == \E a \in Agents : Start(a) \/ Step(a) \/ Crash(a)

Spec == Init /\ [][Next]_vars

-----------------------------------------------------------------------------
(* Properties.                                                             *)

TypeOK ==
  /\ objects \subseteq Objects
  /\ marks \subseteq Versions
  /\ pc \in [Agents -> Steps]
  /\ work \in [Agents -> [job : {"up", "down"}, at : Versions, next : Nat \ {0}]]

\* An agent that serves has the whole schema, whoever created it, however often
\* the agents died on the way, and although the mark is a statement of its own.
ServesWholeSchema ==
  \A a \in Agents : pc[a] = "done" /\ work[a].job = "up" => objects = Objects

\* Migrations are applied in order: the marks have no gap.
NoGap == \A m \in marks : 1..m \subseteq marks

\* No foreign key refers to a table that is not there.
ReferencesResolve == \A o \in objects : References[o] \subseteq objects

\* Agents that start together do not all give up on each other's marks: as long
\* as no statement fails for another reason, one of them has not failed.
SomebodyGoesOn == \E a \in Agents : pc[a] # "failed"

\* A rollback that has ended without an error leaves nothing behind.
DownLeavesNothing ==
  \A a \in Agents : pc[a] = "done" /\ work[a].job = "down" => objects = {} /\ marks = {}
=============================================================================
