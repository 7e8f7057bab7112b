--------------------------- MODULE LogFilesProofs ---------------------------
(***************************************************************************)
(* Safety of LogFiles for every number of writers, of files and of days.   *)
(***************************************************************************)
EXTENDS LogFiles, TLAPS

-----------------------------------------------------------------------------
(* The inductive invariant.                                                *)

Holding == {"acquire", "locked", "open", "unlock"}
Alone   == {"locked", "open", "unlock"}

\* Who may be where, and the mutual exclusion of the lock.
Excl ==
  /\ \A t \in Threads :
       /\ pc[t] \in Holding <=> owner = t
       /\ pc[t] = "append" <=> t \in readers
       /\ pc[t] \in Alone => readers = {}
       /\ pc[t] \in {"check", "look", "enter", "append"} => t \in Writers
       /\ pc[t] \in {"cancel", "wait"} => t = Closer
       /\ pc[t] = "done" => t \notin Writers
       /\ pc[t] = "open" => t # Closer
  /\ pc[Closer] # "idle" => closed

\* The current file is the only open one, and of a day that has begun.
FileInv ==
  /\ \A h \in Handles : opened[h] # None <=> h = file
  /\ file # None => opened[file] = currDate
  /\ currDate <= today
  /\ \A t \in Threads : pc[t] = "open" =>
       /\ file = None
       /\ currDate <= local[t].date /\ local[t].date <= today
       /\ t \in Writers => local[t].called <= local[t].date
       /\ \A u \in Writers : pc[u] = "enter" => local[u].called <= local[t].date

\* A writer that has found or made the file current wrote it off to no earlier day.
WriterInv ==
  \A t \in Writers :
    /\ local[t].called <= today
    /\ pc[t] \in {"enter", "append"} /\ file # None => local[t].called <= currDate
    /\ pc[t] = "unlock" /\ local[t].ok /\ file # None => local[t].called <= currDate

CloseInv ==
  /\ pc[Closer] = "unlock" => file = None
  /\ pc[Closer] = "done" => file = None /\ \A t \in Threads : pc[t] # "open"

IInv == TypeOK /\ Excl /\ FileInv /\ WriterInv /\ CloseInv /\ LinesInTheirDay

-----------------------------------------------------------------------------
(* Initial states, and facts about threads and days.                       *)

LEMMA ThreadFacts ==
  /\ Rotator \in Threads /\ Closer \in Threads /\ Writers \subseteq Threads
  /\ Rotator # Closer /\ Rotator \notin Writers /\ Closer \notin Writers
  /\ None \notin Threads /\ None \notin Handles /\ None \notin Days
  /\ 1 \in Days /\ Days \subseteq Nat /\ \A d \in Days : 1 <= d
  BY ThreadAssumption, NoneAssumption, BoundAssumption DEF Threads, Days

LEMMA Initial == Init => IInv
  <1> SUFFICES ASSUME Init PROVE IInv
    OBVIOUS
  <1>1. NoLocal \in Local
    BY ThreadFacts DEF NoLocal, Local
  <1>2. TypeOK
    BY <1>1, ThreadFacts DEF Init, TypeOK, Steps, Line
  <1>3. Excl /\ FileInv /\ CloseInv
    BY ThreadFacts DEF Init, Excl, FileInv, CloseInv, Holding, Alone
  <1>4. WriterInv /\ LinesInTheirDay
    BY ThreadFacts DEF Init, WriterInv, LinesInTheirDay, NoLocal, Days
  <1>5. QED
    BY <1>2, <1>3, <1>4 DEF IInv

\* What Goto and SetLocal do to the others.
LEMMA GotoOthers ==
  ASSUME TypeOK, NEW t \in Threads, NEW step \in Steps, Goto(t, step)
  PROVE  /\ pc' \in [Threads -> Steps] /\ pc'[t] = step
         /\ \A u \in Threads : u # t => pc'[u] = pc[u]
  BY DEF TypeOK, Goto

LEMMA LocalOthers ==
  ASSUME TypeOK, NEW t \in Threads, NEW l \in Local, SetLocal(t, l)
  PROVE  /\ local' \in [Threads -> Local] /\ local'[t] = l
         /\ \A u \in Threads : u # t => local'[u] = local[u]
  BY DEF TypeOK, SetLocal

LEMMA LocalTypes ==
  ASSUME TypeOK, NEW t \in Threads
  PROVE  /\ local[t] \in Local
         /\ NoLocal \in Local
         /\ [local[t] EXCEPT !.ok = FALSE] \in Local
         /\ [local[t] EXCEPT !.date = today] \in Local
         /\ [local[t] EXCEPT !.seen = file] \in Local
         /\ [NoLocal EXCEPT !.called = today] \in Local
  BY ThreadFacts DEF TypeOK, Local, NoLocal

-----------------------------------------------------------------------------
(* The steps.                                                              *)

LEMMA LockKeeps ==
  ASSUME IInv, NEW t \in Threads, Announce(t) \/ Acquire(t) \/ Enter(t)
  PROVE  IInv'
  <1> USE ThreadFacts DEF IInv, Holding, Alone
  <1>1. CASE Announce(t)
    <2>1. /\ pc' \in [Threads -> Steps] /\ pc'[t] = "acquire"
          /\ \A u \in Threads : u # t => pc'[u] = pc[u]
      BY <1>1, GotoOthers DEF Announce, Steps
    <2>2. TypeOK'
      BY <1>1, <2>1 DEF Announce, TypeOK, log
    <2>3. Excl'
      BY <1>1, <2>1 DEF Announce, Excl
    <2>4. FileInv' /\ WriterInv' /\ CloseInv' /\ LinesInTheirDay'
      BY <1>1, <2>1 DEF Announce, log, FileInv, WriterInv, CloseInv, LinesInTheirDay
    <2>5. QED
      BY <2>2, <2>3, <2>4
  <1>2. CASE Acquire(t)
    <2>1. /\ pc' \in [Threads -> Steps] /\ pc'[t] = "locked"
          /\ \A u \in Threads : u # t => pc'[u] = pc[u]
      BY <1>2, GotoOthers DEF Acquire, Steps
    <2>2. TypeOK'
      BY <1>2, <2>1 DEF Acquire, TypeOK, log, mu
    <2>3. Excl'
      BY <1>2, <2>1 DEF Acquire, Excl, mu
    <2>4. FileInv' /\ WriterInv' /\ CloseInv' /\ LinesInTheirDay'
      BY <1>2, <2>1 DEF Acquire, log, FileInv, WriterInv, CloseInv, LinesInTheirDay
    <2>5. QED
      BY <2>2, <2>3, <2>4
  <1>3. CASE Enter(t)
    <2>1. /\ pc' \in [Threads -> Steps] /\ pc'[t] = "append"
          /\ \A u \in Threads : u # t => pc'[u] = pc[u]
      BY <1>3, GotoOthers DEF Enter, Steps
    <2>2. TypeOK'
      BY <1>3, <2>1 DEF Enter, TypeOK, log, Excl
    <2>3. Excl'
      BY <1>3, <2>1 DEF Enter, Excl
    <2>4. FileInv' /\ WriterInv' /\ CloseInv' /\ LinesInTheirDay'
      BY <1>3, <2>1 DEF Enter, log, FileInv, WriterInv, CloseInv, LinesInTheirDay
    <2>5. QED
      BY <2>2, <2>3, <2>4
  <1>4. QED
    BY <1>1, <1>2, <1>3

LEMMA ReadingKeeps ==
  ASSUME IInv, NEW t \in Threads, BeginWrite(t) \/ Look(t) \/ NoNeedAnyMore(t)
  PROVE  IInv'
  <1> USE ThreadFacts DEF IInv, Holding, Alone
  <1>1. CASE BeginWrite(t)
    <2>1. /\ pc' \in [Threads -> Steps] /\ pc'[t] = "check"
          /\ \A u \in Threads : u # t => pc'[u] = pc[u]
      BY <1>1, GotoOthers DEF BeginWrite, Return, Steps
    <2>2. /\ local' \in [Threads -> Local] /\ local'[t] = [NoLocal EXCEPT !.called = today]
          /\ \A u \in Threads : u # t => local'[u] = local[u]
      BY <1>1, LocalOthers, LocalTypes DEF BeginWrite, Return
    <2>3. TypeOK'
      BY <1>1, <2>1, <2>2 DEF BeginWrite, NoLocal, log, mu, TypeOK, Line
    <2>4. Excl'
      BY <1>1, <2>1, <2>2 DEF BeginWrite, NoLocal, log, mu, Excl
    <2>5. FileInv'
      BY <1>1, <2>1, <2>2 DEF BeginWrite, NoLocal, log, mu, FileInv, Excl
    <2>6. WriterInv'
      BY <1>1, <2>1, <2>2 DEF BeginWrite, NoLocal, log, mu, WriterInv, FileInv, Excl, Local
    <2>7. CloseInv' /\ LinesInTheirDay'
      BY <1>1, <2>1, <2>2 DEF BeginWrite, NoLocal, log, mu, CloseInv, FileInv, LinesInTheirDay, Excl
    <2>8. QED
      BY <2>3, <2>4, <2>5, <2>6, <2>7
  <1>2. CASE Look(t)
    <2>1. /\ pc' \in [Threads -> Steps] /\ pc'[t] = (IF NeedsRotation THEN "announce" ELSE "enter")
          /\ \A u \in Threads : u # t => pc'[u] = pc[u]
      BY <1>2, GotoOthers DEF Look, Return, Steps
    <2>2. /\ local' \in [Threads -> Local] /\ local'[t] = [local[t] EXCEPT !.seen = file]
          /\ \A u \in Threads : u # t => local'[u] = local[u]
      BY <1>2, LocalOthers, LocalTypes DEF Look, Return
    <2>3. TypeOK'
      BY <1>2, <2>1, <2>2 DEF Look, NeedsRotation, log, mu, TypeOK, Line
    <2>4. Excl'
      BY <1>2, <2>1, <2>2 DEF Look, NeedsRotation, log, mu, Excl
    <2>5. FileInv'
      BY <1>2, <2>1, <2>2 DEF Look, NeedsRotation, log, mu, FileInv, Excl
    <2>6. WriterInv'
      BY <1>2, <2>1, <2>2 DEF Look, NeedsRotation, log, mu, WriterInv, FileInv, Excl, Local
    <2>7. CloseInv' /\ LinesInTheirDay'
      BY <1>2, <2>1, <2>2 DEF Look, NeedsRotation, log, mu, CloseInv, FileInv, LinesInTheirDay, Excl
    <2>8. QED
      BY <2>3, <2>4, <2>5, <2>6, <2>7
  <1>3. CASE NoNeedAnyMore(t)
    <2>1. /\ pc' \in [Threads -> Steps] /\ pc'[t] = "unlock"
          /\ \A u \in Threads : u # t => pc'[u] = pc[u]
      BY <1>3, GotoOthers DEF NoNeedAnyMore, Return, Steps
    <2>2. local' = local
      BY <1>3 DEF NoNeedAnyMore
    <2>3. TypeOK'
      BY <1>3, <2>1, <2>2 DEF NoNeedAnyMore, NeedsRotation, log, mu, TypeOK, Line
    <2>4. Excl'
      BY <1>3, <2>1, <2>2 DEF NoNeedAnyMore, NeedsRotation, log, mu, Excl
    <2>5. FileInv'
      BY <1>3, <2>1, <2>2 DEF NoNeedAnyMore, NeedsRotation, log, mu, FileInv, Excl
    <2>6. WriterInv'
      BY <1>3, <2>1, <2>2 DEF NoNeedAnyMore, NeedsRotation, log, mu, WriterInv, FileInv, Excl, Local
    <2>7. CloseInv' /\ LinesInTheirDay'
      BY <1>3, <2>1, <2>2 DEF NoNeedAnyMore, NeedsRotation, log, mu, CloseInv, FileInv, LinesInTheirDay, Excl
    <2>8. QED
      BY <2>3, <2>4, <2>5, <2>6, <2>7
  <1>4. QED
    BY <1>1, <1>2, <1>3

LEMMA RotationKeeps ==
  ASSUME IInv, NEW t \in Threads, RotateClosed(t) \/ RotatedAlready(t) \/ CloseOld(t) \/ OpenNew(t) \/ OpenFails(t)
  PROVE  IInv'
  <1> USE ThreadFacts DEF IInv, Holding, Alone
  <1>1. CASE RotateClosed(t)
    <2>1. /\ pc' \in [Threads -> Steps] /\ pc'[t] = "unlock"
          /\ \A u \in Threads : u # t => pc'[u] = pc[u]
      BY <1>1, GotoOthers DEF RotateClosed, Return, Steps
    <2>2. /\ local' \in [Threads -> Local] /\ local'[t] = [local[t] EXCEPT !.ok = FALSE]
          /\ \A u \in Threads : u # t => local'[u] = local[u]
      BY <1>1, LocalOthers, LocalTypes DEF RotateClosed, Return
    <2>3. TypeOK'
      BY <1>1, <2>1, <2>2 DEF RotateClosed, Rotating, log, mu, TypeOK, Line
    <2>4. Excl'
      BY <1>1, <2>1, <2>2 DEF RotateClosed, Rotating, log, mu, Excl
    <2>5. FileInv'
      BY <1>1, <2>1, <2>2 DEF RotateClosed, Rotating, log, mu, FileInv, Excl
    <2>6. WriterInv'
      BY <1>1, <2>1, <2>2 DEF RotateClosed, Rotating, log, mu, WriterInv, FileInv, Excl, Local
    <2>7. CloseInv' /\ LinesInTheirDay'
      BY <1>1, <2>1, <2>2 DEF RotateClosed, Rotating, log, mu, CloseInv, FileInv, LinesInTheirDay, Excl
    <2>8. QED
      BY <2>3, <2>4, <2>5, <2>6, <2>7
  <1>2. CASE RotatedAlready(t)
    <2>1. /\ pc' \in [Threads -> Steps] /\ pc'[t] = "unlock"
          /\ \A u \in Threads : u # t => pc'[u] = pc[u]
      BY <1>2, GotoOthers DEF RotatedAlready, Return, Steps
    <2>2. local' = local
      BY <1>2 DEF RotatedAlready
    <2>3. TypeOK'
      BY <1>2, <2>1, <2>2 DEF RotatedAlready, Rotating, NeedsRotation, log, mu, TypeOK, Line
    <2>4. Excl'
      BY <1>2, <2>1, <2>2 DEF RotatedAlready, Rotating, NeedsRotation, log, mu, Excl
    <2>5. FileInv'
      BY <1>2, <2>1, <2>2 DEF RotatedAlready, Rotating, NeedsRotation, log, mu, FileInv, Excl
    <2>6. WriterInv'
      BY <1>2, <2>1, <2>2 DEF RotatedAlready, Rotating, NeedsRotation, log, mu, WriterInv, FileInv, Excl, Local
    <2>7. CloseInv' /\ LinesInTheirDay'
      BY <1>2, <2>1, <2>2 DEF RotatedAlready, Rotating, NeedsRotation, log, mu, CloseInv, FileInv, LinesInTheirDay, Excl
    <2>8. QED
      BY <2>3, <2>4, <2>5, <2>6, <2>7
  <1>3. CASE CloseOld(t)
    <2>1. /\ pc' \in [Threads -> Steps] /\ pc'[t] = "open"
          /\ \A u \in Threads : u # t => pc'[u] = pc[u]
      BY <1>3, GotoOthers DEF CloseOld, Return, Steps
    <2>2. /\ local' \in [Threads -> Local] /\ local'[t] = [local[t] EXCEPT !.date = today]
          /\ \A u \in Threads : u # t => local'[u] = local[u]
      BY <1>3, LocalOthers, LocalTypes DEF CloseOld, Return
    <2>3. TypeOK'
      BY <1>3, <2>1, <2>2 DEF CloseOld, Rotating, CloseFile, log, mu, TypeOK, Line
    <2>4. Excl'
      BY <1>3, <2>1, <2>2 DEF CloseOld, Rotating, CloseFile, log, mu, Excl
    <2>5. FileInv'
      <3>1. /\ file' = None /\ \A h \in Handles : opened'[h] = None
            /\ today' = today /\ currDate' = currDate /\ today \in Nat
        BY <1>3 DEF CloseOld, CloseFile, FileInv, TypeOK
      <3>2. \A u \in Threads : u # t => pc[u] # "open"
        BY <1>3 DEF CloseOld, Rotating, Excl
      <3>3. local'[t].date = today /\ local'[t].called = local[t].called
        BY <2>2, LocalTypes DEF Local
      <3>4. \A u \in Writers : local[u].called <= today
        BY DEF WriterInv
      <3>5. \A u \in Writers : local'[u].called <= today
        BY <3>3, <3>4, <2>2
      <3>6. ASSUME NEW u \in Threads, pc'[u] = "open" PROVE u = t
        BY <3>2, <3>6, <2>1
      <3>7. currDate' <= today'
        BY <3>1 DEF FileInv
      <3>8. QED
        BY <3>1, <3>3, <3>5, <3>6, <3>7 DEF FileInv
    <2>6. WriterInv'
      BY <1>3, <2>1, <2>2 DEF CloseOld, Rotating, CloseFile, log, mu, WriterInv, FileInv, Excl, Local
    <2>7. CloseInv' /\ LinesInTheirDay'
      BY <1>3, <2>1, <2>2 DEF CloseOld, Rotating, CloseFile, log, mu, CloseInv, FileInv, LinesInTheirDay, Excl
    <2>8. QED
      BY <2>3, <2>4, <2>5, <2>6, <2>7
  <1>4. CASE OpenNew(t)
    <2>1. /\ pc' \in [Threads -> Steps] /\ pc'[t] = "unlock"
          /\ \A u \in Threads : u # t => pc'[u] = pc[u]
      BY <1>4, GotoOthers DEF OpenNew, Steps
    <2>2. local' = local /\ today' = today /\ UNCHANGED <<closed, mu, line>>
      BY <1>4 DEF OpenNew
    <2>3. /\ local[t].date \in Days /\ local[t].called \in Days /\ currDate \in Days
          /\ today \in Days /\ file = None
          /\ currDate <= local[t].date /\ local[t].date <= today
          /\ t \in Writers => local[t].called <= local[t].date
      BY <1>4 DEF OpenNew, TypeOK, Local, FileInv
    <2>4. PICK h \in Handles :
            /\ file' = h /\ opened' = [opened EXCEPT ![h] = local[t].date]
            /\ currDate' = local[t].date
      BY <1>4 DEF OpenNew, Unreachable
    <2>5. opened' \in [Handles -> Days \cup {None}] /\ opened'[h] = local[t].date
          /\ \A g \in Handles : g # h => opened'[g] = opened[g]
      BY <2>3, <2>4 DEF TypeOK
    <2>6. TypeOK'
      BY <1>4, <2>1, <2>2, <2>3, <2>4, <2>5 DEF OpenNew, TypeOK, mu
    <2>7. Excl'
      BY <1>4, <2>1, <2>2 DEF OpenNew, Excl, mu
    <2>8. \A u \in Threads : pc'[u] # "open"
      BY <1>4, <2>1 DEF OpenNew, Excl
    <2>9. FileInv'
      <3>1. \A g \in Handles : opened'[g] # None <=> g = file'
        BY <2>3, <2>4, <2>5 DEF FileInv
      <3>2. QED
        BY <3>1, <2>2, <2>3, <2>4, <2>5, <2>8 DEF FileInv
    <2>10. WriterInv'
      <3>1. ASSUME NEW u \in Writers
            PROVE  /\ local[u].called <= today
                   /\ pc'[u] \in {"enter", "append"} => local[u].called <= currDate'
                   /\ pc'[u] = "unlock" => local[u].called <= currDate'
        <4>1. local[u].called \in Nat /\ local[u].called <= today
          BY DEF TypeOK, Local, WriterInv
        <4>2. CASE u = t
          BY <4>1, <4>2, <2>1, <2>3, <2>4
        <4>3. CASE u # t
          <5>1. pc'[u] = pc[u] /\ pc[u] \notin Alone /\ pc[u] # "append"
            BY <4>3, <1>4, <2>1 DEF OpenNew, Excl
          <5>2. pc[u] = "enter" => local[u].called <= currDate'
            BY <1>4, <2>4 DEF OpenNew, FileInv
          <5>3. QED
            BY <5>1, <5>2, <4>1
        <4>4. QED
          BY <4>2, <4>3
      <3>2. QED
        BY <3>1, <2>2 DEF WriterInv
    <2>11. CloseInv' /\ LinesInTheirDay'
      BY <1>4, <2>1, <2>2, <2>8 DEF OpenNew, CloseInv, Excl, LinesInTheirDay
    <2>12. QED
      BY <2>6, <2>7, <2>9, <2>10, <2>11
  <1>5. CASE OpenFails(t)
    <2>1. /\ pc' \in [Threads -> Steps] /\ pc'[t] = "unlock"
          /\ \A u \in Threads : u # t => pc'[u] = pc[u]
      BY <1>5, GotoOthers DEF OpenFails, Return, Steps
    <2>2. /\ local' \in [Threads -> Local] /\ local'[t] = [local[t] EXCEPT !.ok = FALSE]
          /\ \A u \in Threads : u # t => local'[u] = local[u]
      BY <1>5, LocalOthers, LocalTypes DEF OpenFails, Return
    <2>3. TypeOK'
      BY <1>5, <2>1, <2>2 DEF OpenFails, log, mu, TypeOK, Line
    <2>4. Excl'
      BY <1>5, <2>1, <2>2 DEF OpenFails, log, mu, Excl
    <2>5. FileInv'
      BY <1>5, <2>1, <2>2 DEF OpenFails, log, mu, FileInv, Excl
    <2>6. WriterInv'
      BY <1>5, <2>1, <2>2 DEF OpenFails, log, mu, WriterInv, FileInv, Excl, Local
    <2>7. CloseInv' /\ LinesInTheirDay'
      BY <1>5, <2>1, <2>2 DEF OpenFails, log, mu, CloseInv, FileInv, LinesInTheirDay, Excl
    <2>8. QED
      BY <2>3, <2>4, <2>5, <2>6, <2>7
  <1>6. QED
    BY <1>1, <1>2, <1>3, <1>4, <1>5

LEMMA WritingKeeps ==
  ASSUME IInv, NEW t \in Threads, Append(t) \/ NotOpen(t)
  PROVE  IInv'
  <1> USE ThreadFacts DEF IInv, Holding, Alone
  <1>1. CASE Append(t)
    <2>1. /\ pc' \in [Threads -> Steps] /\ pc'[t] = "idle"
          /\ \A u \in Threads : u # t => pc'[u] = pc[u]
      BY <1>1, GotoOthers DEF Append, Return, Steps
    <2>2. /\ local' \in [Threads -> Local] /\ local'[t] = NoLocal
          /\ \A u \in Threads : u # t => local'[u] = local[u]
      BY <1>1, LocalOthers, LocalTypes DEF Append, Return
    <2>3. TypeOK'
      <3>1. FileOf(t) \in Handles
        BY <1>1 DEF Append, FileOf, TypeOK
      <3>2. line' \in Line
        BY <1>1, <3>1 DEF Append, Line, TypeOK, Local
      <3>3. QED
        BY <1>1, <2>1, <2>2, <3>2 DEF Append, log, TypeOK
    <2>4. Excl'
      BY <1>1, <2>1, <2>2 DEF Append, NoLocal, FileOf, log, mu, Excl
    <2>5. FileInv'
      BY <1>1, <2>1, <2>2 DEF Append, NoLocal, FileOf, log, mu, FileInv, Excl
    <2>6. WriterInv'
      BY <1>1, <2>1, <2>2 DEF Append, NoLocal, log, WriterInv, TypeOK
    <2>7. CloseInv' /\ LinesInTheirDay'
      <3>1. /\ FileOf(t) = file /\ opened[file] = currDate /\ currDate <= today
            /\ local[t].called <= currDate
            /\ {currDate, today, local[t].called} \subseteq Nat
        BY <1>1 DEF Append, FileOf, FileInv, WriterInv, Excl, TypeOK, Local
      <3>2. LinesInTheirDay'
        BY <1>1, <3>1 DEF Append, LinesInTheirDay
      <3>3. CloseInv'
        BY <1>1, <2>1 DEF Append, log, CloseInv
      <3>4. QED
        BY <3>2, <3>3
    <2>8. QED
      BY <2>3, <2>4, <2>5, <2>6, <2>7
  <1>2. CASE NotOpen(t)
    <2>1. /\ pc' \in [Threads -> Steps] /\ pc'[t] = "idle"
          /\ \A u \in Threads : u # t => pc'[u] = pc[u]
      BY <1>2, GotoOthers DEF NotOpen, Return, Steps
    <2>2. /\ local' \in [Threads -> Local] /\ local'[t] = NoLocal
          /\ \A u \in Threads : u # t => local'[u] = local[u]
      BY <1>2, LocalOthers, LocalTypes DEF NotOpen, Return
    <2>3. TypeOK'
      BY <1>2, <2>1, <2>2 DEF NotOpen, NoLocal, log, mu, TypeOK, Line
    <2>4. Excl'
      BY <1>2, <2>1, <2>2 DEF NotOpen, NoLocal, log, mu, Excl
    <2>5. FileInv'
      BY <1>2, <2>1, <2>2 DEF NotOpen, NoLocal, log, mu, FileInv, Excl
    <2>6. WriterInv'
      BY <1>2, <2>1, <2>2 DEF NotOpen, NoLocal, log, WriterInv, TypeOK
    <2>7. CloseInv' /\ LinesInTheirDay'
      BY <1>2, <2>1, <2>2 DEF NotOpen, NoLocal, log, mu, CloseInv, FileInv, LinesInTheirDay, Excl
    <2>8. QED
      BY <2>3, <2>4, <2>5, <2>6, <2>7
  <1>3. QED
    BY <1>1, <1>2

LEMMA CheckKeeps ==
  ASSUME IInv, NEW t \in Threads, CheckClosed(t) PROVE IInv'
  <1> USE ThreadFacts DEF IInv, Holding, Alone
  <1> DEFINE step == IF closed THEN "idle" ELSE "look"
             l    == IF closed THEN NoLocal ELSE local[t]
  <1>1. Goto(t, step) /\ SetLocal(t, l) /\ l \in Local /\ l.called <= today
    BY LocalTypes DEF CheckClosed, Return, SetLocal, TypeOK, NoLocal, WriterInv, Excl
  <1>2. /\ pc' \in [Threads -> Steps] /\ pc'[t] = step
        /\ \A u \in Threads : u # t => pc'[u] = pc[u]
    BY <1>1, GotoOthers DEF Steps
  <1>3. /\ local' \in [Threads -> Local] /\ local'[t] = l
        /\ \A u \in Threads : u # t => local'[u] = local[u]
    BY <1>1, LocalOthers
  <1> HIDE DEF l
  <1>4. TypeOK'
    BY <1>2, <1>3 DEF CheckClosed, TypeOK, log, mu
  <1>5. Excl'
    BY <1>2 DEF CheckClosed, Excl, mu
  <1>6. FileInv'
    BY <1>2, <1>3 DEF CheckClosed, FileInv, Excl, log
  <1>7. WriterInv'
    BY <1>1, <1>2, <1>3 DEF CheckClosed, WriterInv, log
  <1>8. CloseInv' /\ LinesInTheirDay'
    BY <1>2 DEF CheckClosed, CloseInv, LinesInTheirDay, log
  <1>9. QED
    BY <1>4, <1>5, <1>6, <1>7, <1>8

LEMMA UnlockKeeps ==
  ASSUME IInv, NEW t \in Threads, Unlock(t) PROVE IInv'
  <1> USE ThreadFacts DEF IInv, Holding, Alone
  <1> DEFINE on   == t \in Writers /\ local[t].ok
             step == IF on THEN "enter" ELSE IF t = Closer THEN "done" ELSE "idle"
             l    == IF on THEN [local[t] EXCEPT !.seen = file] ELSE NoLocal
  <1>1. Goto(t, step) /\ SetLocal(t, l) /\ owner' = None
        /\ UNCHANGED <<today, closed, log, readers, line>>
    BY DEF Unlock
  <1>2. /\ l \in Local /\ l.called <= today
        /\ step = "enter" => t \in Writers /\ l.called = local[t].called
        /\ step = "enter" /\ file # None => l.called <= currDate
    BY LocalTypes DEF Unlock, WriterInv, NoLocal, TypeOK, Local
  <1>3. /\ pc' \in [Threads -> Steps] /\ pc'[t] = step
        /\ \A u \in Threads : u # t => pc'[u] = pc[u]
    BY <1>1, GotoOthers DEF Steps
  <1>4. /\ local' \in [Threads -> Local] /\ local'[t] = l
        /\ \A u \in Threads : u # t => local'[u] = local[u]
    BY <1>1, <1>2, LocalOthers
  <1>5. \A u \in Threads : u # t => pc[u] \notin Holding
    BY DEF Unlock, Excl
  <1>6. step \in {"enter", "idle", "done"} /\ (step = "done" <=> t = Closer)
    OBVIOUS
  <1> HIDE DEF l, step
  <1>7. TypeOK'
    BY <1>1, <1>3, <1>4 DEF Unlock, TypeOK, log
  <1>8. Excl'
    BY <1>1, <1>2, <1>3, <1>5, <1>6 DEF Unlock, Excl
  <1>9. FileInv'
    BY <1>1, <1>3, <1>5, <1>6 DEF FileInv, log
  <1>10. WriterInv'
    BY <1>1, <1>2, <1>3, <1>4, <1>6 DEF WriterInv, log
  <1>11. CloseInv' /\ LinesInTheirDay'
    BY <1>1, <1>3, <1>5, <1>6 DEF Unlock, CloseInv, LinesInTheirDay, log
  <1>12. QED
    BY <1>7, <1>8, <1>9, <1>10, <1>11

LEMMA RotatorKeeps == ASSUME IInv, RotatorTick \/ RotatorEnds PROVE IInv'
  <1> USE ThreadFacts DEF IInv, Holding, Alone
  <1>1. PICK step \in {"done", "announce"} : Goto(Rotator, step)
    BY DEF RotatorTick, RotatorEnds
  <1>2. /\ pc[Rotator] = "idle"
        /\ UNCHANGED <<today, closed, cancelled, log, mu, local, line>>
    BY DEF RotatorTick, RotatorEnds
  <1>3. /\ pc' \in [Threads -> Steps] /\ pc'[Rotator] = step
        /\ \A u \in Threads : u # Rotator => pc'[u] = pc[u]
    BY <1>1, GotoOthers DEF Steps
  <1>4. TypeOK' /\ Excl'
    BY <1>2, <1>3 DEF TypeOK, Excl, log, mu
  <1>5. FileInv' /\ WriterInv' /\ CloseInv' /\ LinesInTheirDay'
    BY <1>2, <1>3 DEF FileInv, WriterInv, CloseInv, LinesInTheirDay, log
  <1>6. QED
    BY <1>4, <1>5

LEMMA CloserKeeps == ASSUME IInv, BeginClose \/ CloserStep PROVE IInv'
  <1> USE ThreadFacts DEF IInv, Holding, Alone
  <1>1. CASE BeginClose \/ Cancel \/ WaitForRotator
    <2>1. PICK step \in {"cancel", "wait", "announce"} : Goto(Closer, step)
      BY <1>1 DEF BeginClose, Cancel, WaitForRotator
    <2>2. /\ pc[Closer] \in {"idle", "cancel", "wait"} /\ closed' /\ closed' \in BOOLEAN
          /\ cancelled' \in BOOLEAN /\ UNCHANGED <<today, log, mu, local, line>>
      BY <1>1 DEF BeginClose, Cancel, WaitForRotator, Excl, TypeOK
    <2>3. /\ pc' \in [Threads -> Steps] /\ pc'[Closer] = step
          /\ \A u \in Threads : u # Closer => pc'[u] = pc[u]
      BY <2>1, GotoOthers DEF Steps
    <2>4. TypeOK' /\ Excl'
      BY <2>2, <2>3 DEF TypeOK, Excl, log, mu
    <2>5. FileInv' /\ WriterInv' /\ CloseInv' /\ LinesInTheirDay'
      BY <2>2, <2>3 DEF FileInv, WriterInv, CloseInv, LinesInTheirDay, log
    <2>6. QED
      BY <2>4, <2>5
  <1>2. CASE CloseLast
    <2>1. /\ pc' \in [Threads -> Steps] /\ pc'[Closer] = "unlock"
          /\ \A u \in Threads : u # Closer => pc'[u] = pc[u]
      BY <1>2, GotoOthers DEF CloseLast, Steps
    <2>2. /\ file' = None /\ \A h \in Handles : opened'[h] = None
          /\ opened' \in [Handles -> Days \cup {None}]
      BY <1>2 DEF CloseLast, CloseFile, FileInv, TypeOK
    <2>3. \A u \in Threads : u # Closer => pc[u] \notin Holding
      BY <1>2 DEF CloseLast, Excl
    <2>4. TypeOK' /\ Excl'
      BY <1>2, <2>1, <2>2, <2>3 DEF CloseLast, TypeOK, Excl, mu
    <2>5. FileInv' /\ WriterInv' /\ CloseInv' /\ LinesInTheirDay'
      BY <1>2, <2>1, <2>2, <2>3 DEF CloseLast, FileInv, WriterInv, CloseInv, LinesInTheirDay
    <2>6. QED
      BY <2>4, <2>5
  <1>3. QED
    BY <1>1, <1>2 DEF CloserStep

LEMMA MidnightKeeps == ASSUME IInv, Midnight PROVE IInv'
  <1> USE ThreadFacts DEF IInv
  <1>1. /\ today \in Nat /\ today' = today + 1 /\ today' \in Days
        /\ UNCHANGED <<closed, cancelled, log, mu, pc, local, line>>
    BY BoundAssumption DEF Midnight, TypeOK, Days
  <1>2. TypeOK' /\ Excl'
    BY <1>1 DEF TypeOK, Excl, log, mu
  <1>3. currDate \in Nat /\ \A t \in Threads : /\ local[t].date \in Nat
                                               /\ local[t].called \in Nat
    BY DEF TypeOK, Local
  <1>4. FileInv' /\ WriterInv'
    BY <1>1, <1>3 DEF FileInv, WriterInv, log
  <1>5. CloseInv' /\ LinesInTheirDay'
    BY <1>1 DEF CloseInv, LinesInTheirDay, log
  <1>6. QED
    BY <1>2, <1>4, <1>5

LEMMA NextKeeps == ASSUME IInv, [Next]_vars PROVE IInv'
  <1>1. ASSUME NEW t \in Threads, Step(t) PROVE IInv'
    BY <1>1, RotationKeeps, ReadingKeeps, WritingKeeps, CheckKeeps, LockKeeps, UnlockKeeps
       DEF Step
  <1>2. ASSUME NEW t \in Threads, LockStep(t) PROVE IInv'
    BY <1>2, ReadingKeeps, LockKeeps DEF LockStep
  <1>3. ASSUME NEW t \in Writers, BeginWrite(t) PROVE IInv'
    BY <1>3, ReadingKeeps, ThreadFacts
  <1>4. CASE RotatorTick \/ RotatorEnds \/ BeginClose \/ CloserStep \/ Midnight
    BY <1>4, RotatorKeeps, CloserKeeps, MidnightKeeps
  <1>5. CASE UNCHANGED vars
    <2>1. TypeOK' /\ Excl'
      BY <1>5 DEF vars, IInv, TypeOK, Excl, Holding, Alone
    <2>2. FileInv' /\ WriterInv' /\ CloseInv' /\ LinesInTheirDay'
      BY <1>5 DEF vars, IInv, FileInv, WriterInv, CloseInv, LinesInTheirDay
    <2>3. QED
      BY <2>1, <2>2 DEF IInv
  <1>6. QED
    BY <1>1, <1>2, <1>3, <1>4, <1>5 DEF Next

-----------------------------------------------------------------------------
(* The theorems.                                                           *)

LEMMA Inductive == Spec => []IInv
  <1>1. Init => IInv
    BY Initial
  <1>2. IInv /\ [Next]_vars => IInv'
    BY NextKeeps
  <1>3. QED
    BY <1>1, <1>2, PTL DEF Spec

\* Every variable has its type.
THEOREM TypeCorrect == Spec => []TypeOK
  <1>1. IInv => TypeOK
    BY DEF IInv
  <1>2. QED
    BY <1>1, Inductive, PTL

\* The sections of Write fit together: a line is in the file of a day between
\* the call of Write and the write, whatever happens between the sections.
THEOREM LinesAreInTheirDay == Spec => []LinesInTheirDay
  <1>1. IInv => LinesInTheirDay
    BY DEF IInv
  <1>2. QED
    BY <1>1, Inductive, PTL

\* Rotations and Close leave no file open but the current one.
THEOREM FilesDoNotLeak == Spec => []NoLeak
  <1>1. IInv => NoLeak
    BY DEF IInv, FileInv, NoLeak
  <1>2. QED
    BY <1>1, Inductive, PTL

\* Nothing reopens a log file once Close has returned.
THEOREM ClosedIsForGood == Spec => []ClosedForGood
  <1>1. IInv => ClosedForGood
    BY ThreadFacts DEF IInv, TypeOK, FileInv, CloseInv, ClosedForGood
  <1>2. QED
    BY <1>1, Inductive, PTL
=============================================================================
