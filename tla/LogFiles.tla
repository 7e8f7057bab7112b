------------------------------ MODULE LogFiles ------------------------------
(***************************************************************************)
(* The daily log file: goroutines write lines, a goroutine rotates the     *)
(* file every hour, and main closes it.                                    *)
(*                                                                         *)
(* The file is guarded by a sync.RWMutex, the closed flag is atomic and    *)
(* is read without it.  A writer decides under the read lock, rotates      *)
(* under the write lock, and writes under the read lock again: between     *)
(* these sections midnight may pass, others may rotate, fail or close.     *)
(***************************************************************************)
EXTENDS Naturals, FiniteSets

CONSTANTS
  Writers,  \* goroutines that log
  Rotator,  \* the goroutine of autoRotate
  Closer,   \* the goroutine that calls Close
  Handles,  \* open files (*os.File): reused when nobody refers to them
  Faults,   \* "open": a log file cannot be opened
  None,     \* no file, no owner, no day
  MaxDay    \* bound: the last day

Threads == Writers \cup {Rotator, Closer}
Days    == 1..MaxDay

ASSUME ThreadAssumption == Rotator # Closer /\ {Rotator, Closer} \cap Writers = {}
ASSUME NoneAssumption   == None \notin Threads \cup Handles \cup Days
ASSUME BoundAssumption  == MaxDay \in Nat \ {0} /\ Handles # {} /\ Faults \subseteq {"open"}

VARIABLES
  today,      \* the day on the clock
  closed,     \* the atomic flag
  cancelled,  \* the context of the rotator
  file,       \* w.file
  currDate,   \* w.currDate
  opened,     \* handle -> day of the log file it is open on, or None
  owner,      \* who holds mu for writing, or has announced that it will
  readers,    \* who holds mu for reading
  pc, local,  \* where each goroutine is, and its locals
  line        \* history: days of the last line, [called, written, in]

mu   == <<owner, readers>>
log  == <<file, currDate, opened>>
vars == <<today, closed, cancelled, file, currDate, opened, owner, readers, pc, local, line>>

-----------------------------------------------------------------------------

\* seen: the file a writer refers to (currentFile); called: the day on which it
\* was called; date: the day rotateInternal read; ok: it did not fail.
Local   == [seen : Handles \cup {None}, called : Days, date : Days, ok : BOOLEAN]
NoLocal == [seen |-> None, called |-> 1, date |-> 1, ok |-> TRUE]
Steps   == {"idle", "check", "look", "announce", "acquire", "locked", "open", "unlock",
            "enter", "append", "cancel", "wait", "done"}

Goto(t, step)   == pc' = [pc EXCEPT ![t] = step]
SetLocal(t, l)  == local' = [local EXCEPT ![t] = l]
Return(t)       == Goto(t, "idle") /\ SetLocal(t, NoLocal)

\* Handles that no goroutine and no variable refers to.
Unreachable == {h \in Handles : h # file /\ opened[h] = None
                                /\ \A t \in Threads : local[t].seen # h}

NeedsRotation == file = None \/ currDate # today

\* The first rotation, in NewDailyFileWriter.
Init ==
  /\ today = 1 /\ currDate = 1
  /\ file \in Handles
  /\ opened = [h \in Handles |-> IF h = file THEN 1 ELSE None]
  /\ closed = FALSE /\ cancelled = FALSE
  /\ owner = None /\ readers = {}
  /\ pc = [t \in Threads |-> "idle"]
  /\ local = [t \in Threads |-> NoLocal]
  /\ line = [called |-> 1, written |-> 1, in |-> 1]

-----------------------------------------------------------------------------
(* sync.RWMutex: a writer that has announced itself keeps new readers out   *)
(* and waits for the readers that are in.                                  *)

Announce(t) ==
  /\ pc[t] = "announce"
  /\ owner = None
  /\ owner' = t
  /\ Goto(t, "acquire")
  /\ UNCHANGED <<today, closed, cancelled, log, readers, local, line>>

Acquire(t) ==
  /\ pc[t] = "acquire"
  /\ readers = {}
  /\ Goto(t, "locked")
  /\ UNCHANGED <<today, closed, cancelled, log, mu, local, line>>

\* A writer goes on with the file that is current now, unless rotation failed.
Unlock(t) ==
  /\ pc[t] = "unlock"
  /\ owner' = None
  /\ IF t \in Writers /\ local[t].ok
     THEN Goto(t, "enter") /\ SetLocal(t, [local[t] EXCEPT !.seen = file])
     ELSE Goto(t, IF t = Closer THEN "done" ELSE "idle") /\ SetLocal(t, NoLocal)
  /\ UNCHANGED <<today, closed, cancelled, log, readers, line>>

-----------------------------------------------------------------------------
(* rotateInternal, with mu held for writing.                               *)

Rotating(t) == pc[t] = "locked" /\ (t = Rotator \/ (t \in Writers /\ NeedsRotation))

\* Mutant: the file is replaced without being closed.
ReplaceFile(t) ==
  /\ Rotating(t) /\ ~closed
  /\ file' = None
  /\ SetLocal(t, [local[t] EXCEPT !.date = today])
  /\ Goto(t, "open")
  /\ UNCHANGED <<today, closed, cancelled, currDate, opened, mu, line>>

RotateClosed(t) ==
  /\ Rotating(t) /\ closed
  /\ SetLocal(t, [local[t] EXCEPT !.ok = FALSE])
  /\ Goto(t, "unlock")
  /\ UNCHANGED <<today, closed, cancelled, log, mu, line>>

\* The file is of today and was opened less than a minute ago.
RotatedAlready(t) ==
  /\ Rotating(t) /\ ~closed /\ ~NeedsRotation
  /\ Goto(t, "unlock")
  /\ UNCHANGED <<today, closed, cancelled, log, mu, local, line>>

CloseFile == IF file = None THEN opened ELSE [opened EXCEPT ![file] = None]

\* Mutant: whether the writer is closed is not asked again under the lock.
CloseOldAnyway(t) ==
  /\ Rotating(t)
  /\ file' = None /\ opened' = CloseFile
  /\ SetLocal(t, [local[t] EXCEPT !.date = today])
  /\ Goto(t, "open")
  /\ UNCHANGED <<today, closed, cancelled, currDate, mu, line>>

CloseOld(t) ==
  /\ Rotating(t) /\ ~closed
  /\ file' = None /\ opened' = CloseFile
  /\ SetLocal(t, [local[t] EXCEPT !.date = today])
  /\ Goto(t, "open")
  /\ UNCHANGED <<today, closed, cancelled, currDate, mu, line>>

OpenNew(t) ==
  /\ pc[t] = "open"
  /\ \E h \in Unreachable :
       file' = h /\ opened' = [opened EXCEPT ![h] = local[t].date]
  /\ currDate' = local[t].date
  /\ Goto(t, "unlock")
  /\ UNCHANGED <<today, closed, cancelled, mu, local, line>>

\* Mutant: a rotation that failed is tried again at once, under the lock.
OpenRetried(t) ==
  /\ pc[t] = "open" /\ "open" \in Faults
  /\ Goto(t, "locked")
  /\ UNCHANGED <<today, closed, cancelled, log, mu, local, line>>

OpenFails(t) ==
  /\ pc[t] = "open" /\ ("open" \in Faults \/ Unreachable = {})
  /\ SetLocal(t, [local[t] EXCEPT !.ok = FALSE])
  /\ Goto(t, "unlock")
  /\ UNCHANGED <<today, closed, cancelled, log, mu, line>>

-----------------------------------------------------------------------------
(* Write                                                                   *)

BeginWrite(t) ==
  /\ t \in Writers /\ pc[t] = "idle"
  /\ SetLocal(t, [NoLocal EXCEPT !.called = today])
  /\ Goto(t, "check")
  /\ UNCHANGED <<today, closed, cancelled, log, mu, line>>

CheckClosed(t) ==
  /\ pc[t] = "check"
  /\ IF closed THEN Return(t) ELSE Goto(t, "look") /\ UNCHANGED local
  /\ UNCHANGED <<today, closed, cancelled, log, mu, line>>

\* The first section under the read lock.
Look(t) ==
  /\ pc[t] = "look"
  /\ owner = None
  /\ SetLocal(t, [local[t] EXCEPT !.seen = file])
  /\ Goto(t, IF NeedsRotation THEN "announce" ELSE "enter")
  /\ UNCHANGED <<today, closed, cancelled, log, mu, line>>

\* Another goroutine has rotated the file while this one waited for mu.
NoNeedAnyMore(t) ==
  /\ t \in Writers /\ pc[t] = "locked" /\ ~NeedsRotation
  /\ Goto(t, "unlock")
  /\ UNCHANGED <<today, closed, cancelled, log, mu, local, line>>

Enter(t) ==
  /\ pc[t] = "enter"
  /\ owner = None
  /\ readers' = readers \cup {t}
  /\ Goto(t, "append")
  /\ UNCHANGED <<today, closed, cancelled, log, owner, local, line>>

\* Mutant: the file that was current when the writer looked.
SeenFile(t) == local[t].seen

\* The file is compared once more with the one that was seen.
FileOf(t) == IF file # local[t].seen THEN file ELSE local[t].seen

Append(t) ==
  /\ pc[t] = "append"
  /\ file # None
  /\ line' = [called |-> local[t].called, written |-> today, in |-> opened[FileOf(t)]]
  /\ readers' = readers \ {t}
  /\ Return(t)
  /\ UNCHANGED <<today, closed, cancelled, log, owner>>

NotOpen(t) ==
  /\ pc[t] = "append"
  /\ file = None
  /\ readers' = readers \ {t}
  /\ Return(t)
  /\ UNCHANGED <<today, closed, cancelled, log, owner, line>>

-----------------------------------------------------------------------------
(* autoRotate and Close                                                    *)

RotatorTick ==
  /\ pc[Rotator] = "idle"
  /\ Goto(Rotator, IF closed THEN "done" ELSE "announce")
  /\ UNCHANGED <<today, closed, cancelled, log, mu, local, line>>

RotatorEnds ==
  /\ pc[Rotator] = "idle" /\ cancelled
  /\ Goto(Rotator, "done")
  /\ UNCHANGED <<today, closed, cancelled, log, mu, local, line>>

BeginClose ==
  /\ pc[Closer] = "idle" /\ ~closed
  /\ closed' = TRUE
  /\ Goto(Closer, "cancel")
  /\ UNCHANGED <<today, cancelled, log, mu, local, line>>

Cancel ==
  /\ pc[Closer] = "cancel"
  /\ cancelled' = TRUE
  /\ Goto(Closer, "wait")
  /\ UNCHANGED <<today, closed, log, mu, local, line>>

\* Mutant: Close waits for the rotator with the lock held.
WaitLocked ==
  /\ pc[Closer] = "wait" /\ owner \in {None, Closer}
  /\ owner' = Closer
  /\ Goto(Closer, IF pc[Rotator] = "done" THEN "acquire" ELSE "wait")
  /\ UNCHANGED <<today, closed, cancelled, log, readers, local, line>>

WaitForRotator ==
  /\ pc[Closer] = "wait" /\ pc[Rotator] = "done"
  /\ Goto(Closer, "announce")
  /\ UNCHANGED <<today, closed, cancelled, log, mu, local, line>>

CloseLast ==
  /\ pc[Closer] = "locked"
  /\ file' = None /\ opened' = CloseFile
  /\ Goto(Closer, "unlock")
  /\ UNCHANGED <<today, closed, cancelled, currDate, mu, local, line>>

Midnight ==
  /\ today < MaxDay
  /\ today' = today + 1
  /\ UNCHANGED <<closed, cancelled, log, mu, pc, local, line>>

-----------------------------------------------------------------------------

\* A step of a goroutine that has begun something.
Step(t) ==
  \/ RotateClosed(t) \/ RotatedAlready(t) \/ CloseOld(t) \/ OpenNew(t) \/ OpenFails(t)
  \/ CheckClosed(t) \/ NoNeedAnyMore(t) \/ Append(t) \/ NotOpen(t)
  \/ Acquire(t) \/ Unlock(t)

\* Steps that need mu.
LockStep(t) == Look(t) \/ Enter(t) \/ Announce(t)

CloserStep == Cancel \/ WaitForRotator \/ CloseLast

Next ==
  \/ \E t \in Threads : Step(t) \/ LockStep(t)
  \/ \E t \in Writers : BeginWrite(t)
  \/ RotatorTick \/ RotatorEnds \/ BeginClose \/ CloserStep
  \/ Midnight

Spec == Init /\ [][Next]_vars

\* A goroutine that can go on does, and sync.RWMutex hands itself on: whoever
\* waits for it gets it.  Nothing has to be logged, and Close need not be called.
FairSpec ==
  /\ Spec
  /\ \A t \in Threads : WF_vars(Step(t)) /\ SF_vars(LockStep(t))
  /\ WF_vars(RotatorEnds) /\ WF_vars(CloserStep)

-----------------------------------------------------------------------------
(* Properties.                                                             *)

Line == [called : Days, written : Days, in : Days \cup {None}]

\* Every variable has its type.
TypeOK ==
  /\ today \in Days /\ currDate \in Days
  /\ closed \in BOOLEAN /\ cancelled \in BOOLEAN
  /\ file \in Handles \cup {None}
  /\ opened \in [Handles -> Days \cup {None}]
  /\ owner \in Threads \cup {None} /\ readers \subseteq Writers
  /\ pc \in [Threads -> Steps] /\ local \in [Threads -> Local]
  /\ line \in Line

\* A line goes to an open file, of a day not before Write was called and not
\* after the line was written, although midnight, rotations and failures come
\* between the sections of Write.
LinesInTheirDay == line.in \in line.called..line.written

\* No file stays open but the current one, whoever replaced it, also when
\* opening the next one failed.
NoLeak == \A h \in Handles : opened[h] # None <=> h = file

\* Once Close has returned no log file is open and none is opened again, by a
\* writer that saw the flag unset or by the rotator.
ClosedForGood ==
  pc[Closer] = "done" => \A h \in Handles : opened[h] = None

\* Every call of Write returns, with or without having written its line.
WritesReturn == \A t \in Writers : pc[t] # "idle" ~> pc[t] = "idle"

\* Close returns: it waits for the rotator only while that does not wait for it.
CloseReturns == pc[Closer] # "idle" ~> pc[Closer] = "done"
=============================================================================
