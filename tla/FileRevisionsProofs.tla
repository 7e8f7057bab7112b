------------------------- MODULE FileRevisionsProofs -------------------------
(***************************************************************************)
(* Safety of FileRevisions for every number of handlers, files, contents,  *)
(* revisions and for every set of faults, and the refinement of UndoLog by *)
(* CalmEditing.                                                            *)
(***************************************************************************)
EXTENDS CalmEditing, TLAPS

-----------------------------------------------------------------------------
(* Type correctness.                                                       *)

\* The revision table stays within its bound: a draft is inserted only where
\* its row fits, and SQLite's write lock lets one draft exist at a time.
RowsFit ==
  /\ Len(revs) <= MaxRev
  /\ \A h \in Handlers : pc[h] \in {"backup", "commit"} =>
       writer = h /\ Len(revs) < MaxRev

LEMMA InitType == Init => TypeOK
  <1> SUFFICES ASSUME Init PROVE TypeOK
    OBVIOUS
  <1>1. revs \in Seq(Row)
    BY DEF Init
  <1>2. NoRequest \in Request
    BY DEF NoRequest, Request
  <1>3. QED
    BY <1>1, <1>2 DEF Init, TypeOK, Versions, Steps, EditSteps

\* What a step does to the handler that takes it, and to nobody else.
LEMMA OthersKeep ==
  ASSUME TypeOK, NEW h \in Handlers, NEW step \in Steps, Goto(h, step)
  PROVE  /\ pc' \in [Handlers -> Steps]
         /\ pc'[h] = step
         /\ \A g \in Handlers : g # h => pc'[g] = pc[g]
  BY DEF TypeOK, Goto

LEMMA OthersKeepLocals ==
  ASSUME TypeOK, NEW h \in Handlers, NEW r \in Request, Local(h, r)
  PROVE  /\ req' \in [Handlers -> Request]
         /\ req'[h] = r
         /\ \A g \in Handlers : g # h => req'[g] = req[g]
  BY DEF TypeOK, Local

\* The part of TypeOK about the handlers holds after a step of h if it holds
\* for h after that step.
LEMMA HandlerType ==
  ASSUME TypeOK, NEW h \in Handlers,
         NEW step \in Steps, Goto(h, step),
         NEW r \in Request, Local(h, r),
         step # "idle" => r.path \in Paths,
         step \in EditSteps \cup {"mark", "ropen", "rwrite"} => r.data \in Versions,
         step \in EditSteps \ {"read"} => r.seen \in Versions
  PROVE  /\ pc' \in [Handlers -> Steps]
         /\ req' \in [Handlers -> Request]
         /\ \A g \in Handlers :
              /\ pc'[g] # "idle" => req'[g].path \in Paths
              /\ pc'[g] \in EditSteps \cup {"mark", "ropen", "rwrite"}
                   => req'[g].data \in Versions
              /\ pc'[g] \in EditSteps \ {"read"} => req'[g].seen \in Versions
  <1>1. /\ pc' \in [Handlers -> Steps] /\ pc'[h] = step
        /\ \A g \in Handlers : g # h => pc'[g] = pc[g]
    BY OthersKeep
  <1>2. /\ req' \in [Handlers -> Request] /\ req'[h] = r
        /\ \A g \in Handlers : g # h => req'[g] = req[g]
    BY OthersKeepLocals
  <1>3. QED
    BY <1>1, <1>2 DEF TypeOK, PathOf

\* A reply resets the handler.
LEMMA ReplyType ==
  ASSUME TypeOK, NEW h \in Handlers, Reply(h)
  PROVE  /\ pc' \in [Handlers -> Steps]
         /\ req' \in [Handlers -> Request]
         /\ \A g \in Handlers :
              /\ pc'[g] # "idle" => req'[g].path \in Paths
              /\ pc'[g] \in EditSteps \cup {"mark", "ropen", "rwrite"}
                   => req'[g].data \in Versions
              /\ pc'[g] \in EditSteps \ {"read"} => req'[g].seen \in Versions
  <1>1. NoRequest \in Request /\ "idle" \in Steps
    BY DEF NoRequest, Request, Steps
  <1>2. "idle" \notin EditSteps
    BY DEF EditSteps
  <1>3. Goto(h, "idle") /\ Local(h, NoRequest)
    BY DEF Reply
  <1>4. QED
    BY <1>1, <1>2, <1>3, HandlerType

\* A step that only moves h from one step to another with its locals kept.
LEMMA MoveType ==
  ASSUME TypeOK, NEW h \in Handlers, pc[h] # "idle",
         NEW step \in Steps, Goto(h, step), UNCHANGED req,
         step \in EditSteps \cup {"mark", "ropen", "rwrite"} => req[h].data \in Versions,
         step \in EditSteps \ {"read"} => req[h].seen \in Versions
  PROVE  /\ pc' \in [Handlers -> Steps]
         /\ req' \in [Handlers -> Request]
         /\ \A g \in Handlers :
              /\ pc'[g] # "idle" => req'[g].path \in Paths
              /\ pc'[g] \in EditSteps \cup {"mark", "ropen", "rwrite"}
                   => req'[g].data \in Versions
              /\ pc'[g] \in EditSteps \ {"read"} => req'[g].seen \in Versions
  BY OthersKeep DEF TypeOK, PathOf

LEMMA NextType ==
  ASSUME TypeOK, RowsFit, RevertTargetsLatest, [Next]_vars
  PROVE  TypeOK'
  <1> DEFINE Handled ==
        /\ pc' \in [Handlers -> Steps]
        /\ req' \in [Handlers -> Request]
        /\ \A g \in Handlers :
             /\ pc'[g] # "idle" => req'[g].path \in Paths
             /\ pc'[g] \in EditSteps \cup {"mark", "ropen", "rwrite"}
                  => req'[g].data \in Versions
             /\ pc'[g] \in EditSteps \ {"read"} => req'[g].seen \in Versions
  <1> DEFINE Stored ==
        /\ disk' \in [Paths -> Versions]
        /\ locks' \subseteq FileIds
        /\ revs' \in Seq(Row)
        /\ backups' \in [FileIds \X (1..MaxRev) -> Versions \cup {Absent}]
        /\ writer' \in Handlers \cup {None}
        /\ now' \in Nat
  <1>1. SUFFICES Handled /\ Stored
    BY DEF TypeOK, PathOf
  <1> HIDE DEF Handled
  <1>2. ASSUME NEW h \in Handlers, BeginEdit(h) PROVE Handled /\ Stored
    <2>1. PICK p \in Paths, c \in Contents :
            Goto(h, "read") /\ Local(h, [NoRequest EXCEPT !.path = p, !.data = c])
      BY <1>2 DEF BeginEdit
    <2>2. [NoRequest EXCEPT !.path = p, !.data = c] \in Request
      BY DEF NoRequest, Request, Versions
    <2>3. Handled
      BY <2>1, <2>2, HandlerType DEF Handled, NoRequest, Steps, EditSteps, Versions
    <2>4. QED
      BY <1>2, <2>3 DEF BeginEdit, shared, TypeOK
  <1>3. ASSUME NEW h \in Handlers, BeginRevert(h) PROVE Handled /\ Stored
    <2>1. PICK p \in Paths :
            Goto(h, "revert") /\ Local(h, [NoRequest EXCEPT !.path = p])
      BY <1>3 DEF BeginRevert
    <2>2. [NoRequest EXCEPT !.path = p] \in Request
      BY DEF NoRequest, Request, Versions
    <2>3. Handled
      BY <2>1, <2>2, HandlerType DEF Handled, NoRequest, Steps, EditSteps, RevertSteps
    <2>4. QED
      BY <1>3, <2>3 DEF BeginRevert, shared, TypeOK
  <1>4. ASSUME NEW h \in Handlers, ReadPrevious(h) PROVE Handled /\ Stored
    <2> DEFINE r == [req[h] EXCEPT !.seen = disk[PathOf(h)]]
    <2>1. PathOf(h) \in Paths /\ disk[PathOf(h)] \in Versions /\ req[h].data \in Versions
      BY <1>4 DEF ReadPrevious, TypeOK, EditSteps, PathOf
    <2>2. r \in Request /\ r.path \in Paths /\ r.data \in Versions /\ r.seen \in Versions
      BY <2>1 DEF TypeOK, Request, PathOf
    <2>3. Goto(h, "acquire") /\ Local(h, r)
      BY <1>4 DEF ReadPrevious
    <2> HIDE DEF r
    <2>4. Handled
      BY <2>2, <2>3, HandlerType DEF Handled, Steps, EditSteps
    <2>5. QED
      BY <1>4, <2>4 DEF ReadPrevious, shared, TypeOK
  <1>5. ASSUME NEW h \in Handlers, NoEdit(h) \/ Conflict(h) PROVE Handled /\ Stored
    BY <1>5, ReplyType DEF NoEdit, Conflict, Handled, shared, TypeOK
  <1>6. ASSUME NEW h \in Handlers, AcquireFileLock(h) PROVE Handled /\ Stored
    <2>1. FileAt(h) \in FileIds
      BY <1>6 DEF AcquireFileLock, TypeOK, PathOf, FileAt, FileIds
    <2>2. CASE pc[h] = "acquire"
      <3>1. Goto(h, "insert") /\ UNCHANGED req
        BY <1>6, <2>2 DEF AcquireFileLock
      <3>2. req[h].data \in Versions /\ req[h].seen \in Versions
        BY <2>2 DEF TypeOK, EditSteps
      <3>3. Handled
        BY <2>2, <3>1, <3>2, MoveType DEF Handled, Steps, EditSteps
      <3>4. QED
        BY <1>6, <2>1, <3>3 DEF AcquireFileLock, TypeOK
    <2>3. CASE pc[h] = "revert"
      <3>1. Goto(h, "lookup") /\ UNCHANGED req
        BY <1>6, <2>3 DEF AcquireFileLock
      <3>2. Handled
        BY <2>3, <3>1, MoveType DEF Handled, Steps, EditSteps, RevertSteps
      <3>3. QED
        BY <1>6, <2>1, <3>2 DEF AcquireFileLock, TypeOK
    <2>4. QED
      BY <1>6, <2>2, <2>3 DEF AcquireFileLock
  <1>7. ASSUME NEW h \in Handlers, InsertDraft(h) PROVE Handled /\ Stored
    <2> DEFINE r == [req[h] EXCEPT !.at = now]
    <2>1. r \in Request /\ r.path \in Paths /\ r.data \in Versions /\ r.seen \in Versions
      BY <1>7 DEF InsertDraft, TypeOK, Request, PathOf, EditSteps
    <2>2. Goto(h, "backup") /\ Local(h, r)
      BY <1>7 DEF InsertDraft
    <2> HIDE DEF r
    <2>3. Handled
      BY <2>1, <2>2, HandlerType DEF Handled, Steps, EditSteps
    <2>4. QED
      BY <1>7, <2>3 DEF InsertDraft, TypeOK
  <1>8. ASSUME NEW h \in Handlers, InsertFails(h) \/ NoRevision(h) \/ RevertFails(h)
        PROVE  Handled /\ Stored
    <2>1. pc[h] # "idle" /\ Goto(h, "unlock") /\ UNCHANGED <<shared, req>>
      BY <1>8 DEF InsertFails, NoRevision, RevertFails
    <2>2. Handled
      BY <2>1, MoveType DEF Handled, Steps, EditSteps
    <2>3. QED
      BY <2>1, <2>2 DEF shared, TypeOK
  <1>9. ASSUME NEW h \in Handlers, SaveBackup(h) PROVE Handled /\ Stored
    <2>1. req[h].data \in Versions /\ req[h].seen \in Versions
      BY <1>9 DEF SaveBackup, TypeOK, EditSteps
    <2>2. Handled
      BY <1>9, <2>1, MoveType DEF SaveBackup, Handled, Steps, EditSteps
    <2>3. backups' \in [FileIds \X (1..MaxRev) -> Versions \cup {Absent}]
      BY <1>9, <2>1 DEF SaveBackup, BackupContent, TypeOK
    <2>4. QED
      BY <1>9, <2>2, <2>3 DEF SaveBackup, TypeOK
  <1>10. ASSUME NEW h \in Handlers, SaveBackupFails(h) \/ CommitFails(h)
         PROVE  Handled /\ Stored
    <2>1. pc[h] # "idle" /\ Goto(h, "unlock") /\ UNCHANGED req
      BY <1>10 DEF SaveBackupFails, CommitFails
    <2>2. Handled
      BY <2>1, MoveType DEF Handled, Steps, EditSteps
    <2>3. FileAt(h) \in FileIds
      BY <2>1 DEF TypeOK, PathOf, FileAt, FileIds
    <2>4. backups' \in [FileIds \X (1..MaxRev) -> Versions \cup {Absent}]
      <3>1. CASE CommitFails(h)
        BY <3>1 DEF CommitFails, TypeOK
      <3>2. CASE SaveBackupFails(h)
        <4> DEFINE b == <<FileAt(h), NextRev>>
        <4>1. PICK left \in {backups[b], Absent, Torn} :
                backups' = [backups EXCEPT ![b] = left]
          BY <3>2 DEF SaveBackupFails
        <4>2. left \in Versions \cup {Absent} \/ b \notin FileIds \X (1..MaxRev)
          BY <4>1 DEF TypeOK, Versions
        <4> HIDE DEF b
        <4>3. QED
          BY <4>1, <4>2 DEF TypeOK
      <3>3. QED
        BY <1>10, <3>1, <3>2
    <2>5. writer' = None /\ UNCHANGED <<disk, locks, revs, now>>
      BY <1>10 DEF SaveBackupFails, CommitFails
    <2>6. QED
      BY <2>2, <2>4, <2>5 DEF TypeOK
  <1>11. ASSUME NEW h \in Handlers, CommitRevision(h) PROVE Handled /\ Stored
    <2>1. req[h].data \in Versions /\ req[h].seen \in Versions /\ PathOf(h) \in Paths
      BY <1>11 DEF CommitRevision, TypeOK, EditSteps
    <2>2. Handled
      BY <1>11, <2>1, MoveType DEF CommitRevision, Handled, Steps, EditSteps
    <2>3. CompletedRow(h) \in Row
      <3>1. FileAt(h) \in FileIds
        BY <2>1 DEF FileAt, FileIds
      <3>2. req[h].at \in Nat
        BY DEF TypeOK, Request
      <3>3. QED
        BY <2>1, <3>1, <3>2 DEF CompletedRow, Row
    <2>4. QED
      BY <1>11, <2>2, <2>3 DEF CommitRevision, TypeOK
  <1>12. ASSUME NEW h \in Handlers, ReleaseBeforeWrite(h) PROVE Handled /\ Stored
    <2>1. req[h].data \in Versions /\ req[h].seen \in Versions
      BY <1>12 DEF ReleaseBeforeWrite, TypeOK, EditSteps
    <2>2. Handled
      BY <1>12, <2>1, MoveType DEF ReleaseBeforeWrite, Handled, Steps, EditSteps
    <2>3. QED
      BY <1>12, <2>2 DEF ReleaseBeforeWrite, RemoveLock, TypeOK
  <1>13. ASSUME NEW h \in Handlers, ReleaseAndReply(h) PROVE Handled /\ Stored
    BY <1>13, ReplyType DEF ReleaseAndReply, RemoveLock, Handled, TypeOK
  <1>14. ASSUME NEW h \in Handlers, pc[h] \in {"open", "write", "ropen", "rwrite"},
                AfterWrite(h)
         PROVE  Handled
    <2>1. CASE Reply(h)
      BY <2>1, ReplyType DEF Handled
    <2>2. CASE Goto(h, "unlock") /\ UNCHANGED req
      BY <1>14, <2>2, MoveType DEF Handled, Steps, EditSteps
    <2>3. QED
      BY <1>14, <2>1, <2>2 DEF AfterWrite
  <1>15. ASSUME NEW h \in Handlers, Truncate(h) PROVE Handled /\ Stored
    <2>1. req[h].data \in Versions
      BY <1>15 DEF Truncate, TypeOK, EditSteps
    <2>2. pc[h] = "open" => req[h].seen \in Versions
      BY DEF TypeOK, EditSteps
    <2>3. Handled
      <3>1. CASE pc[h] = "open"
        BY <1>15, <2>1, <2>2, <3>1, MoveType DEF Truncate, Handled, Steps, EditSteps
      <3>2. CASE pc[h] = "ropen"
        BY <1>15, <2>1, <3>2, MoveType DEF Truncate, Handled, Steps, EditSteps, RevertSteps
      <3>3. QED
        BY <1>15, <3>1, <3>2 DEF Truncate
    <2>4. QED
      BY <1>15, <2>3 DEF Truncate, TypeOK, Versions
  <1>16. ASSUME NEW h \in Handlers, OpenFails(h) PROVE Handled /\ Stored
    BY <1>14, <1>16 DEF OpenFails, shared, TypeOK
  <1>17. ASSUME NEW h \in Handlers, WriteData(h) PROVE Handled /\ Stored
    <2>1. req[h].data \in Versions /\ Torn \in Versions
      BY <1>17 DEF WriteData, TypeOK, EditSteps, Versions
    <2>2. QED
      BY <1>14, <1>17, <2>1 DEF WriteData, TypeOK
  <1>18. ASSUME NEW h \in Handlers, WriteFails(h) PROVE Handled /\ Stored
    <2>1. PICK result \in {disk[PathOf(h)], Torn} :
            disk' = [disk EXCEPT ![PathOf(h)] = result]
      BY <1>18 DEF WriteFails
    <2>2. PathOf(h) \in Paths
      BY <1>18 DEF WriteFails, TypeOK
    <2>3. result \in Versions
      BY <2>1, <2>2 DEF TypeOK, Versions
    <2>4. QED
      BY <1>14, <1>18, <2>1, <2>3 DEF WriteFails, TypeOK
  <1>19. ASSUME NEW h \in Handlers, LookUpRevision(h) PROVE Handled /\ Stored
    <2>1. PICK i \in Newest(FileAt(h)) : Local(h, [req[h] EXCEPT !.rid = i])
      BY <1>19 DEF LookUpRevision
    <2>2. i \in Nat
      BY <2>1 DEF Newest, Completed, TypeOK
    <2> DEFINE r == [req[h] EXCEPT !.rid = i]
    <2>3. r \in Request /\ r.path \in Paths
      BY <1>19, <2>2 DEF LookUpRevision, TypeOK, Request, PathOf
    <2>4. Goto(h, "load") /\ Local(h, r)
      BY <1>19, <2>1 DEF LookUpRevision
    <2> HIDE DEF r
    <2>5. Handled
      BY <2>3, <2>4, HandlerType DEF Handled, Steps, EditSteps, RevertSteps
    <2>6. QED
      BY <1>19, <2>5 DEF LookUpRevision, shared, TypeOK
  <1>20. ASSUME NEW h \in Handlers, LoadBackup(h) PROVE Handled /\ Stored
    <2>1. PathOf(h) \in Paths /\ FileAt(h) \in FileIds
      BY <1>20 DEF LoadBackup, TypeOK, PathOf, FileAt, FileIds
    <2>2. req[h].rid \in 1..MaxRev
      <3>1. req[h].rid \in DOMAIN revs
        BY <1>20 DEF LoadBackup, RevertTargetsLatest, Completed
      <3>2. DOMAIN revs = 1..Len(revs) /\ Len(revs) \in Nat /\ Len(revs) <= MaxRev
        BY DEF TypeOK, RowsFit
      <3>3. QED
        BY <3>1, <3>2, BoundsAssumption
    <2>3. BackupOf(h) \in Versions
      BY <1>20, <2>1, <2>2 DEF LoadBackup, BackupOf, TypeOK
    <2> DEFINE r == [req[h] EXCEPT !.data = BackupOf(h)]
    <2>4. r \in Request /\ r.path \in Paths /\ r.data \in Versions
      BY <2>1, <2>3 DEF TypeOK, Request, PathOf
    <2>5. Goto(h, "mark") /\ Local(h, r)
      BY <1>20 DEF LoadBackup
    <2> HIDE DEF r
    <2>6. Handled
      BY <2>4, <2>5, HandlerType DEF Handled, Steps, EditSteps, RevertSteps
    <2>7. QED
      BY <1>20, <2>6 DEF LoadBackup, shared, TypeOK
  <1>21. ASSUME NEW h \in Handlers, MarkCorrupted(h) \/ MarkReverted(h)
         PROVE  Handled /\ Stored
    <2>1. PICK status \in {"corrupted", "reverted"} : revs' = WithStatus(req[h].rid, status)
      BY <1>21 DEF MarkCorrupted, MarkReverted
    <2>2. req[h].rid \in DOMAIN revs
      BY <1>21 DEF MarkCorrupted, MarkReverted, RevertTargetsLatest, Completed
    <2>3. revs' \in Seq(Row)
      <3>1. revs[req[h].rid] \in Row
        BY <2>2 DEF TypeOK
      <3>2. [revs[req[h].rid] EXCEPT !.status = status] \in Row
        BY <3>1 DEF Row
      <3>3. QED
        BY <2>1, <2>2, <3>2 DEF WithStatus, TypeOK
    <2>4. Handled
      <3>1. CASE MarkCorrupted(h)
        BY <3>1, MoveType DEF MarkCorrupted, Handled, Steps, EditSteps
      <3>2. CASE MarkReverted(h)
        <4>1. req[h].data \in Versions
          BY <3>2 DEF MarkReverted, TypeOK
        <4>2. QED
          BY <3>2, <4>1, MoveType DEF MarkReverted, Handled, Steps, EditSteps, RevertSteps
      <3>3. QED
        BY <1>21, <3>1, <3>2
    <2>5. QED
      BY <1>21, <2>3, <2>4 DEF MarkCorrupted, MarkReverted, TypeOK
  <1>22. CASE Crash
    <2>1. NoRequest \in Request /\ "idle" \in Steps /\ "idle" \notin EditSteps
      BY DEF NoRequest, Request, Steps, EditSteps
    <2>2. Handled
      BY <1>22, <2>1 DEF Crash, Handled
    <2>3. QED
      BY <1>22, <2>2 DEF Crash, TypeOK, Versions
  <1>23. CASE DeleteBackup
    BY <1>23 DEF DeleteBackup, Handled, TypeOK, PathOf
  <1>24. CASE Tick
    BY <1>24 DEF Tick, Handled, TypeOK, PathOf
  <1>25. CASE UNCHANGED vars
    BY <1>25 DEF vars, Handled, TypeOK, PathOf
  <1>26. QED
    BY <1>2, <1>3, <1>4, <1>5, <1>6, <1>7, <1>8, <1>9, <1>10, <1>11, <1>12, <1>13,
       <1>15, <1>16, <1>17, <1>18, <1>19, <1>20, <1>21, <1>22, <1>23, <1>24, <1>25
       DEF Next, Step

-----------------------------------------------------------------------------
(* The lock section.                                                       *)

\* A handler in the lock section holds the lock file of its file id.
HoldsLock == \A h \in Handlers : pc[h] \in Critical => FileAt(h) \in locks

\* Only the handler that takes a step changes; it keeps its path, and it
\* enters the lock section only by creating a lock file that did not exist.
LEMMA StepFrame ==
  ASSUME TypeOK, NEW h \in Handlers, BeginEdit(h) \/ BeginRevert(h) \/ Step(h)
  PROVE  /\ \A g \in Handlers : g # h => pc'[g] = pc[g] /\ req'[g] = req[g]
         /\ pc'[h] \in Critical => req'[h].path = req[h].path
         /\ \/ pc'[h] \in Critical /\ pc[h] \in Critical /\ locks' = locks
            \/ /\ pc'[h] \in Critical
               /\ FileAt(h) \notin locks /\ locks' = locks \cup {FileAt(h)}
            \/ pc'[h] \notin Critical /\ locks' = locks
            \/ /\ pc'[h] \notin Critical
               /\ pc[h] \in Critical /\ locks' = locks \ {FileAt(h)}
  <1> USE DEF TypeOK, Goto, Local, Reply, Critical, shared, RemoveLock, AfterWrite, Request
  <1>1. CASE BeginEdit(h) \/ BeginRevert(h)
    BY <1>1 DEF BeginEdit, BeginRevert
  <1>2. CASE ReadPrevious(h) \/ NoEdit(h) \/ Conflict(h)
    BY <1>2 DEF ReadPrevious, NoEdit, Conflict
  <1>3. CASE AcquireFileLock(h)
    BY <1>3 DEF AcquireFileLock, LockFree
  <1>4. CASE InsertDraft(h)
    BY <1>4 DEF InsertDraft
  <1>5. CASE InsertFails(h) \/ SaveBackup(h) \/ SaveBackupFails(h)
    BY <1>5 DEF InsertFails, SaveBackup, SaveBackupFails
  <1>6. CASE CommitRevision(h) \/ CommitFails(h)
    BY <1>6 DEF CommitRevision, CommitFails
  <1>7. CASE ReleaseBeforeWrite(h) \/ ReleaseAndReply(h)
    BY <1>7 DEF ReleaseBeforeWrite, ReleaseAndReply
  <1>8. CASE Truncate(h) \/ OpenFails(h)
    BY <1>8 DEF Truncate, OpenFails
  <1>9. CASE WriteData(h) \/ WriteFails(h)
    BY <1>9 DEF WriteData, WriteFails
  <1>10. CASE LookUpRevision(h) \/ NoRevision(h)
    BY <1>10 DEF LookUpRevision, NoRevision
  <1>11. CASE LoadBackup(h) \/ MarkCorrupted(h)
    BY <1>11 DEF LoadBackup, MarkCorrupted
  <1>12. CASE MarkReverted(h) \/ RevertFails(h)
    BY <1>12 DEF MarkReverted, RevertFails
  <1>13. QED
    BY <1>1, <1>2, <1>3, <1>4, <1>5, <1>6, <1>7, <1>8, <1>9, <1>10, <1>11, <1>12 DEF Step

LEMMA LockNext ==
  ASSUME TypeOK, HoldsLock, LockExclusion, [Next]_vars
  PROVE  HoldsLock' /\ LockExclusion'
  <1>1. ASSUME NEW h \in Handlers, BeginEdit(h) \/ BeginRevert(h) \/ Step(h)
        PROVE  HoldsLock' /\ LockExclusion'
    <2>1. HoldsLock'
      BY <1>1, StepFrame DEF HoldsLock, LockExclusion, FileAt, PathOf
    <2>2. LockExclusion'
      BY <1>1, StepFrame DEF HoldsLock, LockExclusion, FileAt, PathOf
    <2>3. QED
      BY <2>1, <2>2
  <1>2. CASE Crash
    BY <1>2 DEF Crash, HoldsLock, LockExclusion, Critical
  <1>3. CASE DeleteBackup \/ Tick \/ UNCHANGED vars
    BY <1>3 DEF DeleteBackup, Tick, vars, HoldsLock, LockExclusion, FileAt, PathOf
  <1>4. QED
    BY <1>1, <1>2, <1>3 DEF Next
-----------------------------------------------------------------------------
(* Revisions, their copies, and the handlers that use them.                *)

\* The steps at which a handler relies on the revision table or on a copy.
Relying == {"backup", "commit", "load", "mark", "ropen", "rwrite"}

\* A handler with a draft owns SQLite's write lock, so the id of the draft
\* stays the next one, and at "commit" its copy has been made.
DraftInv(g) ==
  /\ pc[g] \in {"backup", "commit"} => writer = g /\ Len(revs) < MaxRev
  /\ pc[g] = "commit" =>
       \/ backups[<<FileAt(g), NextRev>>] = req[g].seen
       \/ "operator" \in Faults /\ backups[<<FileAt(g), NextRev>>] = Absent

\* A revert that found a revision has the latest one, and what it loaded is
\* what the revision replaced.
TargetInv(g) ==
  /\ pc[g] \in {"load", "mark"} =>
       /\ req[g].rid \in Completed(FileAt(g))
       /\ \A j \in Completed(FileAt(g)) : revs[j].at <= revs[req[g].rid].at
  /\ pc[g] = "mark" => req[g].data = revs[req[g].rid].prev

\* A committed revert writes what its revision replaced.
WritingInv(g) ==
  pc[g] \in {"ropen", "rwrite"} =>
    /\ req[g].rid \in DOMAIN revs
    /\ revs[req[g].rid].file = FileAt(g)
    /\ revs[req[g].rid].status = "reverted"
    /\ revs[req[g].rid].prev = req[g].data

HandlerInv(g) == DraftInv(g) /\ TargetInv(g) /\ WritingInv(g)

RowsInv ==
  /\ Len(revs) <= MaxRev
  /\ \A g \in Handlers : HandlerInv(g)
  /\ CompletedHasBackup

\* The inductive invariant.
IInv == TypeOK /\ HoldsLock /\ LockExclusion /\ RowsInv

LEMMA RowFields ==
  ASSUME TypeOK, NEW i \in DOMAIN revs
  PROVE  revs[i] \in Row /\ revs[i].file \in FileIds
  <1>1. revs[i] \in Row
    BY DEF TypeOK
  <1>2. QED
    BY <1>1 DEF Row

LEMMA KeepHandler ==
  ASSUME NEW g \in Handlers, HandlerInv(g), pc'[g] = pc[g], req'[g] = req[g],
         UNCHANGED <<revs, backups, writer>>
  PROVE  HandlerInv(g)'
  BY DEF HandlerInv, DraftInv, TargetInv, WritingInv, FileAt, PathOf, NextRev, Completed

LEMMA NotRelying ==
  ASSUME NEW g \in Handlers, pc'[g] \notin Relying
  PROVE  HandlerInv(g)'
  BY DEF HandlerInv, DraftInv, TargetInv, WritingInv, Relying

\* A step that touches neither the table nor the copies nor the write lock.
LEMMA QuietStep ==
  ASSUME RowsInv, NEW h \in Handlers, UNCHANGED <<revs, backups, writer>>,
         \A g \in Handlers : g # h => pc'[g] = pc[g] /\ req'[g] = req[g],
         HandlerInv(h)'
  PROVE  RowsInv'
  <1>1. \A g \in Handlers : HandlerInv(g)'
    BY KeepHandler DEF RowsInv
  <1>2. CompletedHasBackup'
    BY DEF RowsInv, CompletedHasBackup
  <1>3. QED
    BY <1>1, <1>2 DEF RowsInv

\* The steps of a handler that end where it relies on nothing.
LEMMA LeavingSteps ==
  ASSUME TypeOK, NEW h \in Handlers,
         \/ BeginEdit(h) \/ BeginRevert(h) \/ ReadPrevious(h) \/ NoEdit(h)
         \/ AcquireFileLock(h) \/ Conflict(h) \/ InsertFails(h)
         \/ ReleaseBeforeWrite(h) \/ ReleaseAndReply(h) \/ NoRevision(h)
         \/ RevertFails(h) \/ OpenFails(h) \/ WriteData(h) \/ WriteFails(h)
         \/ Truncate(h) /\ pc[h] = "open"
  PROVE  pc'[h] \notin Relying /\ UNCHANGED <<revs, backups, writer>>
  <1> USE DEF TypeOK, Goto, Reply, AfterWrite, Relying, shared
  <1>1. CASE BeginEdit(h) \/ BeginRevert(h) \/ ReadPrevious(h) \/ NoEdit(h)
    BY <1>1 DEF BeginEdit, BeginRevert, ReadPrevious, NoEdit
  <1>2. CASE AcquireFileLock(h) \/ Conflict(h) \/ InsertFails(h)
    BY <1>2 DEF AcquireFileLock, Conflict, InsertFails
  <1>3. CASE ReleaseBeforeWrite(h) \/ ReleaseAndReply(h) \/ NoRevision(h) \/ RevertFails(h)
    BY <1>3 DEF ReleaseBeforeWrite, ReleaseAndReply, NoRevision, RevertFails
  <1>4. CASE OpenFails(h) \/ WriteData(h) \/ WriteFails(h)
    BY <1>4 DEF OpenFails, WriteData, WriteFails
  <1>5. CASE Truncate(h) /\ pc[h] = "open"
    BY <1>5 DEF Truncate
  <1>6. QED
    BY <1>1, <1>2, <1>3, <1>4, <1>5

\* The two steps of a revert that read: the row, then its copy.
LEMMA LookUpStep ==
  ASSUME IInv, NEW h \in Handlers, LookUpRevision(h)
  PROVE  HandlerInv(h)'
  <1>1. PICK i \in Newest(FileAt(h)) : Local(h, [req[h] EXCEPT !.rid = i])
    BY DEF LookUpRevision
  <1>2. pc'[h] = "load" /\ UNCHANGED <<revs, backups, writer>>
    BY DEF LookUpRevision, Goto, IInv, TypeOK, shared
  <1>3. req'[h].rid = i /\ req'[h].path = req[h].path
    BY <1>1 DEF Local, IInv, TypeOK, Request
  <1>4. QED
    BY <1>2, <1>3 DEF HandlerInv, DraftInv, TargetInv, WritingInv, Newest, Completed,
       FileAt, PathOf

LEMMA LoadStep ==
  ASSUME IInv, NEW h \in Handlers, LoadBackup(h)
  PROVE  HandlerInv(h)'
  <1>1. pc[h] = "load" /\ pc'[h] = "mark" /\ UNCHANGED <<revs, backups, writer>>
    BY DEF LoadBackup, Goto, IInv, TypeOK, shared
  <1>2. /\ req'[h].rid = req[h].rid /\ req'[h].path = req[h].path
        /\ req'[h].data = BackupOf(h)
    BY DEF LoadBackup, Local, IInv, TypeOK, Request
  <1>3. TargetInv(h) /\ CompletedHasBackup
    BY DEF IInv, RowsInv, HandlerInv
  <1>4. BackupOf(h) = revs[req[h].rid].prev
    BY <1>1, <1>3 DEF LoadBackup, TargetInv, CompletedHasBackup, BackupOf, Completed
  <1>5. QED
    BY <1>1, <1>2, <1>3, <1>4 DEF HandlerInv, DraftInv, TargetInv, WritingInv, Completed,
       FileAt, PathOf

\* A committed revert truncates its file and goes on.
LEMMA TruncateStep ==
  ASSUME IInv, NEW h \in Handlers, Truncate(h), pc[h] = "ropen"
  PROVE  HandlerInv(h)' /\ UNCHANGED <<revs, backups, writer>>
  <1>1. pc'[h] = "rwrite" /\ UNCHANGED <<revs, backups, writer, req>>
    BY DEF Truncate, Goto, IInv, TypeOK
  <1>2. WritingInv(h)
    BY DEF IInv, RowsInv, HandlerInv
  <1>3. QED
    BY <1>1, <1>2 DEF HandlerInv, DraftInv, TargetInv, WritingInv, FileAt, PathOf

\* The write lock is free, so nobody has a draft, and h starts one.
LEMMA InsertStep ==
  ASSUME IInv, NEW h \in Handlers, InsertDraft(h)
  PROVE  RowsInv'
  <1>1. /\ UNCHANGED <<revs, backups>> /\ writer = None /\ writer' = h
        /\ pc'[h] = "backup" /\ Len(revs) < MaxRev
    BY DEF InsertDraft, CanWrite, Goto, IInv, TypeOK
  <1>2. \A g \in Handlers : g # h => pc'[g] = pc[g] /\ req'[g] = req[g]
    BY DEF InsertDraft, Goto, Local, IInv, TypeOK
  <1>3. HandlerInv(h)'
    BY <1>1 DEF HandlerInv, DraftInv, TargetInv, WritingInv
  <1>4. ASSUME NEW g \in Handlers, g # h PROVE HandlerInv(g)'
    <2>1. HandlerInv(g) /\ pc'[g] = pc[g] /\ req'[g] = req[g]
      BY <1>2, <1>4 DEF IInv, RowsInv
    <2>2. pc[g] \notin {"backup", "commit"}
      BY <1>1, <2>1, ValuesAssumption DEF HandlerInv, DraftInv
    <2>3. QED
      BY <1>1, <2>1, <2>2 DEF HandlerInv, DraftInv, TargetInv, WritingInv, FileAt,
         PathOf, Completed
  <1>5. CompletedHasBackup'
    BY <1>1 DEF IInv, RowsInv, CompletedHasBackup
  <1>6. QED
    BY <1>1, <1>3, <1>4, <1>5 DEF IInv, RowsInv

\* Copies are only made, spoilt or removed under the id of the one draft, which
\* is the id of no row.
LEMMA CopyStep ==
  ASSUME IInv, NEW h \in Handlers, pc[h] \in {"backup", "commit"},
         NEW copy, backups' = [backups EXCEPT ![<<FileAt(h), NextRev>>] = copy],
         revs' = revs, writer' \in {writer, None},
         \A g \in Handlers : g # h => pc'[g] = pc[g] /\ req'[g] = req[g],
         HandlerInv(h)'
  PROVE  RowsInv'
  <1>1. writer = h
    BY DEF IInv, RowsInv, HandlerInv, DraftInv
  <1>2. \A i \in DOMAIN revs, f \in FileIds : backups'[<<f, i>>] = backups[<<f, i>>]
    <2>1. \A i \in DOMAIN revs : i # NextRev
      BY DEF IInv, TypeOK, NextRev
    <2>2. ASSUME NEW i \in DOMAIN revs, NEW f \in FileIds
          PROVE  backups'[<<f, i>>] = backups[<<f, i>>]
      <3>1. i \in 1..MaxRev
        BY BoundsAssumption DEF IInv, RowsInv, TypeOK
      <3>2. <<f, i>> # <<FileAt(h), NextRev>> /\ <<f, i>> \in FileIds \X (1..MaxRev)
        BY <2>1, <3>1
      <3>3. QED
        BY <3>2 DEF IInv, TypeOK
    <2>3. QED
      BY <2>2
  <1>3. ASSUME NEW g \in Handlers, g # h PROVE HandlerInv(g)'
    <2>1. HandlerInv(g) /\ pc'[g] = pc[g] /\ req'[g] = req[g]
      BY <1>3 DEF IInv, RowsInv
    <2>2. pc[g] \notin {"backup", "commit"}
      BY <1>1, <1>3, <2>1 DEF HandlerInv, DraftInv
    <2>3. QED
      BY <2>1, <2>2 DEF HandlerInv, DraftInv, TargetInv, WritingInv, FileAt, PathOf,
         Completed
  <1>4. CompletedHasBackup'
    <2>1. \A i \in DOMAIN revs : revs[i].file \in FileIds
      BY RowFields DEF IInv
    <2>2. QED
      BY <1>2, <2>1 DEF IInv, RowsInv, CompletedHasBackup
  <1>5. QED
    BY <1>3, <1>4 DEF IInv, RowsInv

\* The draft becomes a row whose copy exists.  Reverts in progress are of other
\* files, so the latest revision they found is still their latest.
LEMMA CommitStep ==
  ASSUME IInv, NEW h \in Handlers, CommitRevision(h)
  PROVE  RowsInv'
  <1>1. /\ pc[h] = "commit" /\ pc'[h] = "release" /\ writer = h
        /\ Len(revs) < MaxRev /\ UNCHANGED <<backups, req>>
    BY DEF CommitRevision, Goto, IInv, TypeOK, RowsInv, HandlerInv, DraftInv
  <1>2. \A g \in Handlers : g # h => pc'[g] = pc[g]
    BY DEF CommitRevision, Goto, IInv, TypeOK
  <1>3. CompletedRow(h) \in Row /\ CompletedRow(h).file = FileAt(h)
    <2>1. req[h].data \in Versions /\ req[h].seen \in Versions /\ PathOf(h) \in Paths
      BY <1>1 DEF IInv, TypeOK, EditSteps
    <2>2. FileAt(h) \in FileIds /\ req[h].at \in Nat
      BY <2>1 DEF FileAt, FileIds, IInv, TypeOK, Request
    <2>3. QED
      BY <2>1, <2>2 DEF CompletedRow, Row
  <1>4. /\ DOMAIN revs' = DOMAIN revs \cup {NextRev} /\ NextRev \notin DOMAIN revs
        /\ revs'[NextRev] = CompletedRow(h) /\ Len(revs') = Len(revs) + 1
        /\ \A i \in DOMAIN revs : revs'[i] = revs[i]
    BY <1>3 DEF CommitRevision, NextRev, IInv, TypeOK
  <1>5. HandlerInv(h)'
    BY <1>1, NotRelying DEF Relying
  <1>6. ASSUME NEW g \in Handlers, g # h PROVE HandlerInv(g)'
    <2>1. HandlerInv(g) /\ pc'[g] = pc[g] /\ req'[g] = req[g]
      BY <1>1, <1>2, <1>6 DEF IInv, RowsInv
    <2>2. pc[g] \notin {"backup", "commit"}
      BY <1>1, <1>6, <2>1 DEF HandlerInv, DraftInv
    <2>3. CASE pc[g] \notin Relying
      BY <2>1, <2>3, NotRelying
    <2>4. CASE pc[g] \in {"load", "mark", "ropen", "rwrite"}
      <3>1. FileAt(g) # FileAt(h)
        BY <1>1, <1>6, <2>4 DEF IInv, LockExclusion, Critical
      <3>2. (Completed(FileAt(g)))' = Completed(FileAt(g))
        BY <1>3, <1>4, <2>1, <3>1 DEF Completed, FileAt, PathOf
      <3>3. Completed(FileAt(g)) \subseteq DOMAIN revs
        BY DEF Completed
      <3>4. TargetInv(g)' /\ WritingInv(g)'
        BY <1>4, <2>1, <3>2, <3>3 DEF HandlerInv, TargetInv, WritingInv, FileAt, PathOf
      <3>5. QED
        BY <2>1, <2>4, <3>4 DEF HandlerInv, DraftInv
    <2>5. QED
      BY <2>2, <2>3, <2>4 DEF Relying
  <1>7. CompletedHasBackup'
    <2>1. \/ backups[<<FileAt(h), NextRev>>] = req[h].seen
          \/ "operator" \in Faults /\ backups[<<FileAt(h), NextRev>>] = Absent
      BY <1>1 DEF IInv, RowsInv, HandlerInv, DraftInv
    <2>2. CompletedRow(h).prev = req[h].seen
      BY DEF CompletedRow
    <2>3. QED
      BY <1>1, <1>3, <1>4, <2>1, <2>2 DEF IInv, RowsInv, CompletedHasBackup
  <1>8. Len(revs') <= MaxRev
    BY <1>1, <1>4, BoundsAssumption DEF IInv, TypeOK
  <1>9. QED
    BY <1>5, <1>6, <1>7, <1>8 DEF RowsInv

\* The revision of a revert is marked: other handlers use other rows.
LEMMA MarkStep ==
  ASSUME IInv, NEW h \in Handlers, MarkCorrupted(h) \/ MarkReverted(h)
  PROVE  RowsInv'
  <1> DEFINE r == req[h].rid
  <1>1. PICK status \in {"corrupted", "reverted"} :
          /\ revs' = WithStatus(r, status)
          /\ \/ pc'[h] = "unlock"
             \/ pc[h] = "mark" /\ pc'[h] = "ropen" /\ status = "reverted"
    BY DEF MarkCorrupted, MarkReverted, Goto, IInv, TypeOK
  <1>2. /\ UNCHANGED <<backups, writer, req>> /\ pc[h] \in {"load", "mark"}
        /\ \A g \in Handlers : g # h => pc'[g] = pc[g]
    BY DEF MarkCorrupted, MarkReverted, Goto, IInv, TypeOK
  <1>3. r \in DOMAIN revs /\ revs[r].file = FileAt(h)
    BY <1>2 DEF IInv, RowsInv, HandlerInv, TargetInv, Completed
  <1>4. /\ DOMAIN revs' = DOMAIN revs /\ Len(revs') = Len(revs)
        /\ \A i \in DOMAIN revs : i # r => revs'[i] = revs[i]
    BY <1>1, <1>3 DEF WithStatus, IInv, TypeOK
  <1>5. /\ revs'[r].file = revs[r].file /\ revs'[r].prev = revs[r].prev
        /\ revs'[r].status = status
    <2>1. revs[r] \in Row
      BY <1>3, RowFields DEF IInv
    <2>2. revs'[r] = [revs[r] EXCEPT !.status = status]
      BY <1>1, <1>3 DEF WithStatus, IInv, TypeOK
    <2> HIDE DEF r
    <2>3. QED
      BY <2>1, <2>2 DEF Row
  <1> HIDE DEF r
  <1>6. HandlerInv(h)'
    <2>1. CASE pc'[h] = "unlock"
      BY <2>1, NotRelying DEF Relying
    <2>2. CASE pc[h] = "mark" /\ pc'[h] = "ropen" /\ status = "reverted"
      <3>1. req[h].data = revs[r].prev
        BY <2>2 DEF IInv, RowsInv, HandlerInv, TargetInv, r
      <3>2. QED
        BY <1>2, <1>3, <1>4, <1>5, <2>2, <3>1 DEF HandlerInv, DraftInv, TargetInv,
           WritingInv, FileAt, PathOf, r
    <2>3. QED
      BY <1>1, <2>1, <2>2
  <1>7. ASSUME NEW g \in Handlers, g # h PROVE HandlerInv(g)'
    <2>1. HandlerInv(g) /\ pc'[g] = pc[g] /\ req'[g] = req[g]
      BY <1>2, <1>7 DEF IInv, RowsInv
    <2>2. DraftInv(g)'
      BY <1>2, <1>4, <2>1 DEF HandlerInv, DraftInv, NextRev, FileAt, PathOf
    <2>3. CASE pc[g] \in {"load", "mark", "ropen", "rwrite"}
      <3>1. FileAt(g) # FileAt(h)
        BY <1>2, <1>7, <2>3 DEF IInv, LockExclusion, Critical
      <3>2. (Completed(FileAt(g)))' = Completed(FileAt(g))
        BY <1>3, <1>4, <1>5, <2>1, <3>1 DEF Completed, FileAt, PathOf
      <3>3. Completed(FileAt(g)) \subseteq DOMAIN revs /\ r \notin Completed(FileAt(g))
        BY <1>3, <3>1 DEF Completed
      <3>4. TargetInv(g)'
        BY <1>4, <2>1, <3>2, <3>3 DEF HandlerInv, TargetInv, FileAt, PathOf
      <3>5. WritingInv(g)'
        BY <1>3, <1>4, <2>1, <3>1 DEF HandlerInv, WritingInv, FileAt, PathOf
      <3>6. QED
        BY <2>2, <3>4, <3>5 DEF HandlerInv
    <2>4. CASE pc[g] \notin {"load", "mark", "ropen", "rwrite"}
      BY <2>1, <2>2, <2>4 DEF HandlerInv, TargetInv, WritingInv
    <2>5. QED
      BY <2>3, <2>4
  <1>8. CompletedHasBackup'
    BY <1>1, <1>2, <1>4, <1>5 DEF IInv, RowsInv, CompletedHasBackup
  <1>9. QED
    BY <1>4, <1>6, <1>7, <1>8 DEF IInv, RowsInv

\* A crash ends every request; rows and copies survive it.
LEMMA CrashStep ==
  ASSUME IInv, Crash
  PROVE  RowsInv'
  <1>1. \A g \in Handlers : HandlerInv(g)'
    BY NotRelying DEF Crash, Relying
  <1>2. CompletedHasBackup'
    BY DEF Crash, IInv, RowsInv, CompletedHasBackup
  <1>3. QED
    BY <1>1, <1>2 DEF Crash, IInv, RowsInv

LEMMA DeleteStep ==
  ASSUME IInv, DeleteBackup
  PROVE  RowsInv'
  <1>1. "operator" \in Faults /\ UNCHANGED <<revs, writer, pc, req>>
    BY DEF DeleteBackup
  <1>2. ASSUME NEW f \in FileIds, NEW i \in 1..MaxRev
        PROVE  backups'[<<f, i>>] \in {backups[<<f, i>>], Absent}
    BY DEF DeleteBackup, IInv, TypeOK
  <1>3. ASSUME NEW g \in Handlers PROVE HandlerInv(g)'
    <2>1. HandlerInv(g)
      BY DEF IInv, RowsInv
    <2>2. DraftInv(g)'
      <3>1. CASE pc[g] = "commit"
        <4>1. FileAt(g) \in FileIds
          BY <3>1 DEF IInv, TypeOK, FileAt, PathOf, FileIds
        <4>2. NextRev \in 1..MaxRev
          BY <2>1, <3>1, BoundsAssumption DEF HandlerInv, DraftInv, NextRev, IInv, TypeOK
        <4>3. QED
          BY <1>1, <1>2, <2>1, <3>1, <4>1, <4>2 DEF HandlerInv, DraftInv, FileAt,
             PathOf, NextRev
      <3>2. CASE pc[g] # "commit"
        BY <1>1, <2>1, <3>2 DEF HandlerInv, DraftInv
      <3>3. QED
        BY <3>1, <3>2
    <2>3. QED
      BY <1>1, <2>1, <2>2 DEF HandlerInv, TargetInv, WritingInv, FileAt, PathOf, Completed
  <1>4. CompletedHasBackup'
    <2>1. \A i \in DOMAIN revs : i \in 1..MaxRev /\ revs[i].file \in FileIds
      BY RowFields, BoundsAssumption DEF IInv, RowsInv, TypeOK
    <2>2. QED
      BY <1>1, <1>2, <2>1 DEF IInv, RowsInv, CompletedHasBackup
  <1>5. QED
    BY <1>1, <1>3, <1>4 DEF IInv, RowsInv

LEMMA RowsNext ==
  ASSUME IInv, [Next]_vars
  PROVE  RowsInv'
  <1>1. ASSUME NEW h \in Handlers, BeginEdit(h) \/ BeginRevert(h) \/ Step(h)
        PROVE  RowsInv'
    <2>1. \A g \in Handlers : g # h => pc'[g] = pc[g] /\ req'[g] = req[g]
      BY <1>1, StepFrame DEF IInv
    <2>2. CASE pc'[h] \notin Relying /\ UNCHANGED <<revs, backups, writer>>
      BY <2>1, <2>2, NotRelying, QuietStep DEF IInv
    <2>3. CASE LookUpRevision(h)
      BY <2>1, <2>3, LookUpStep, QuietStep DEF IInv, LookUpRevision, shared
    <2>4. CASE LoadBackup(h)
      BY <2>1, <2>4, LoadStep, QuietStep DEF IInv, LoadBackup, shared
    <2>5. CASE Truncate(h) /\ pc[h] = "ropen"
      BY <2>1, <2>5, TruncateStep, QuietStep DEF IInv
    <2>6. CASE InsertDraft(h)
      BY <2>6, InsertStep
    <2>7. CASE SaveBackup(h)
      <3>1. /\ pc[h] = "backup" /\ pc'[h] = "commit" /\ UNCHANGED <<revs, writer, req>>
            /\ backups' = [backups EXCEPT ![<<FileAt(h), NextRev>>] = req[h].seen]
        BY <2>7 DEF SaveBackup, BackupContent, Goto, IInv, TypeOK
      <3>2. writer = h /\ Len(revs) < MaxRev
        BY <3>1 DEF IInv, RowsInv, HandlerInv, DraftInv
      <3>3. FileAt(h) \in FileIds
        BY <3>1 DEF IInv, TypeOK, FileAt, PathOf, FileIds
      <3>4. NextRev \in 1..MaxRev
        BY <3>2, BoundsAssumption DEF NextRev, IInv, TypeOK
      <3>5. backups'[<<FileAt(h), NextRev>>] = req[h].seen
        BY <3>1, <3>3, <3>4 DEF IInv, TypeOK
      <3>6. HandlerInv(h)'
        BY <3>1, <3>2, <3>5 DEF HandlerInv, DraftInv, TargetInv, WritingInv, FileAt,
           PathOf, NextRev
      <3>7. QED
        BY <2>1, <3>1, <3>6, CopyStep
    <2>8. CASE SaveBackupFails(h) \/ CommitFails(h)
      <3>1. /\ pc[h] \in {"backup", "commit"} /\ pc'[h] = "unlock"
            /\ revs' = revs /\ writer' = None
        BY <2>8 DEF SaveBackupFails, CommitFails, Goto, IInv, TypeOK
      <3>2. HandlerInv(h)'
        BY <3>1, NotRelying DEF Relying
      <3>3. PICK copy : backups' = [backups EXCEPT ![<<FileAt(h), NextRev>>] = copy]
        <4>1. backups = [backups EXCEPT ![<<FileAt(h), NextRev>>]
                                      = backups[<<FileAt(h), NextRev>>]]
          BY DEF IInv, TypeOK
        <4>2. QED
          BY <2>8, <4>1 DEF SaveBackupFails, CommitFails
      <3>4. QED
        BY <2>1, <3>1, <3>2, <3>3, CopyStep
    <2>9. CASE CommitRevision(h)
      BY <2>9, CommitStep
    <2>10. CASE MarkCorrupted(h) \/ MarkReverted(h)
      BY <2>10, MarkStep
    <2>11. Truncate(h) => pc[h] \in {"open", "ropen"}
      BY DEF Truncate
    <2>12. QED
      BY <1>1, <2>2, <2>3, <2>4, <2>5, <2>6, <2>7, <2>8, <2>9, <2>10, <2>11,
         LeavingSteps DEF Step, IInv
  <1>2. CASE Crash
    BY <1>2, CrashStep
  <1>3. CASE DeleteBackup
    BY <1>3, DeleteStep
  <1>4. CASE Tick \/ UNCHANGED vars
    <2>1. UNCHANGED <<revs, backups, writer, pc, req>>
      BY <1>4 DEF Tick, vars
    <2>2. \A g \in Handlers : HandlerInv(g)'
      BY <2>1, KeepHandler DEF IInv, RowsInv
    <2>3. CompletedHasBackup'
      BY <2>1 DEF IInv, RowsInv, CompletedHasBackup
    <2>4. QED
      BY <2>1, <2>2, <2>3 DEF IInv, RowsInv
  <1>5. QED
    BY <1>1, <1>2, <1>3, <1>4 DEF Next

LEMMA TargetOfIInv == IInv => RevertTargetsLatest
  BY DEF IInv, RowsInv, HandlerInv, TargetInv, RevertTargetsLatest

LEMMA RowsFitOfIInv == IInv => RowsFit
  BY DEF IInv, RowsInv, HandlerInv, DraftInv, RowsFit

LEMMA IInvInit == Init => IInv
  <1> SUFFICES ASSUME Init PROVE IInv
    OBVIOUS
  <1>1. TypeOK
    BY InitType
  <1>2. \A h \in Handlers : pc[h] = "idle"
    BY DEF Init
  <1>3. HoldsLock /\ LockExclusion
    BY <1>2 DEF HoldsLock, LockExclusion, Critical
  <1>4. \A g \in Handlers : HandlerInv(g)
    BY <1>2 DEF HandlerInv, DraftInv, TargetInv, WritingInv
  <1>5. Len(revs) = 0 /\ CompletedHasBackup
    BY DEF Init, CompletedHasBackup
  <1>6. QED
    BY <1>1, <1>3, <1>4, <1>5, BoundsAssumption DEF IInv, RowsInv

LEMMA IInvNext == IInv /\ [Next]_vars => IInv'
  BY NextType, LockNext, RowsNext, TargetOfIInv, RowsFitOfIInv DEF IInv

-----------------------------------------------------------------------------
(* The theorems.                                                           *)

LEMMA Invariant == Spec => []IInv
  BY IInvInit, IInvNext, PTL DEF Spec

\* Every reachable state is well typed: in particular a revert never carries
\* the "no such copy" value into the file it writes.
THEOREM TypeCorrect == Spec => []TypeOK
  <1>1. IInv => TypeOK
    BY DEF IInv
  <1>2. QED
    BY <1>1, Invariant, PTL

\* However many requests are served and whatever fails, at most one of them is
\* between acquireFileLock and releaseFileLock of a file id.
THEOREM LockSectionExclusive == Spec => []LockExclusion
  <1>1. IInv => LockExclusion
    BY DEF IInv
  <1>2. QED
    BY <1>1, Invariant, PTL

\* Every completed revision can be reverted to: the copy createFileRevision
\* made before it committed the row is there, and is what the edit read.
THEOREM CompletedRevisionsRestorable == Spec => []CompletedHasBackup
  <1>1. IInv => CompletedHasBackup
    BY DEF IInv, RowsInv
  <1>2. QED
    BY <1>1, Invariant, PTL

\* The revision handleRevertFile looked up stays the latest completed one of
\* its file id until it is marked.
THEOREM RevertTargetStaysLatest == Spec => []RevertTargetsLatest
  BY TargetOfIInv, Invariant, PTL

LEMMA WritesItsRevisionOfIInv == IInv => RevertWritesItsRevision
  <1> SUFFICES ASSUME IInv, NEW h \in Handlers, pc[h] \in {"ropen", "rwrite"}
               PROVE  /\ req[h].rid \in DOMAIN revs
                      /\ revs[req[h].rid].file = FileAt(h)
                      /\ revs[req[h].rid].status = "reverted"
                      /\ revs[req[h].rid].prev = req[h].data
                      /\ \A g \in Handlers \ {h} :
                           pc[g] \in {"load", "mark", "ropen", "rwrite"}
                             => req[g].rid # req[h].rid
    BY DEF RevertWritesItsRevision
  <1>1. WritingInv(h)
    BY DEF IInv, RowsInv, HandlerInv
  <1>2. ASSUME NEW g \in Handlers \ {h}, pc[g] \in {"load", "mark", "ropen", "rwrite"}
        PROVE  req[g].rid # req[h].rid
    <2>1. FileAt(g) # FileAt(h)
      BY <1>2 DEF IInv, LockExclusion, Critical
    <2>2. revs[req[g].rid].file = FileAt(g)
      BY <1>2 DEF IInv, RowsInv, HandlerInv, TargetInv, WritingInv, Completed
    <2>3. QED
      BY <1>1, <2>1, <2>2 DEF WritingInv
  <1>3. QED
    BY <1>1, <1>2 DEF WritingInv

\* A revert that has been committed writes the previous content of the
\* revision it marked, and no other revert uses that revision.
THEOREM RevertWritesWhatItMarked == Spec => []RevertWritesItsRevision
  BY WritesItsRevisionOfIInv, Invariant, PTL

LEMMA HistoryOfIInv == IInv /\ [Next]_vars => HistoryStep
  <1> SUFFICES ASSUME IInv, [Next]_vars PROVE HistoryStep
    OBVIOUS
  <1>1. CASE revs' = revs
    BY <1>1 DEF HistoryStep
  <1>2. ASSUME NEW h \in Handlers, CommitRevision(h) PROVE HistoryStep
    <2>1. \A i \in DOMAIN revs : i \in DOMAIN revs' /\ revs'[i] = revs[i]
      BY <1>2 DEF CommitRevision, IInv, TypeOK
    <2>2. QED
      BY <2>1 DEF HistoryStep
  <1>3. ASSUME NEW h \in Handlers, MarkCorrupted(h) \/ MarkReverted(h) PROVE HistoryStep
    <2> DEFINE r == req[h].rid
    <2>1. /\ r \in DOMAIN revs /\ revs[r].status = "completed"
          /\ revs[r].file = FileAt(h)
      BY <1>3 DEF MarkCorrupted, MarkReverted, IInv, RowsInv, HandlerInv, TargetInv,
         Completed
    <2>2. /\ DOMAIN revs' = DOMAIN revs
          /\ \A i \in DOMAIN revs : i # r => revs'[i] = revs[i]
      BY <1>3, <2>1 DEF MarkCorrupted, MarkReverted, WithStatus, IInv, TypeOK
    <2>3. \/ revs'[r] = [revs[r] EXCEPT !.status = "reverted"]
          \/ /\ revs'[r] = [revs[r] EXCEPT !.status = "corrupted"]
             /\ backups[<<revs[r].file, r>>] = Absent
      BY <1>3, <2>1 DEF MarkCorrupted, MarkReverted, WithStatus, BackupOf, IInv, TypeOK
    <2> HIDE DEF r
    <2>4. QED
      BY <2>1, <2>2, <2>3 DEF HistoryStep
  <1>4. ASSUME NEW h \in Handlers, BeginEdit(h) \/ BeginRevert(h) \/ Step(h),
               ~CommitRevision(h), ~MarkCorrupted(h), ~MarkReverted(h)
        PROVE  revs' = revs
    BY <1>4, LeavingSteps DEF IInv, Step, InsertDraft, SaveBackup, SaveBackupFails,
       CommitFails, LookUpRevision, LoadBackup, Truncate, shared
  <1>5. Crash \/ DeleteBackup \/ Tick \/ UNCHANGED vars => revs' = revs
    BY DEF Crash, DeleteBackup, Tick, vars
  <1>6. QED
    BY <1>1, <1>2, <1>3, <1>4, <1>5 DEF Next

\* No step of any request, and no crash, removes or rewrites a revision; a row
\* changes its status once, and to "corrupted" only if its copy is gone.
THEOREM HistoryIsAppendOnly == Spec => HistoryAppendOnly
  BY HistoryOfIInv, Invariant, PTL DEF Spec, HistoryAppendOnly

-----------------------------------------------------------------------------
(* The refinement of UndoLog: what calm editing adds to the invariant.     *)

\* A draft is no older than any row and no younger than the clock.
DraftTime(g) ==
  pc[g] \in {"backup", "commit"} =>
    req[g].at <= now /\ \A i \in DOMAIN revs : revs[i].at <= req[g].at

\* Rows are committed in the order of their created_at: the draft that becomes
\* a row was inserted under the write lock it still holds.
TimesInOrder ==
  /\ \A i, j \in DOMAIN revs : i <= j => revs[i].at <= revs[j].at
  /\ \A i \in DOMAIN revs : revs[i].at <= now
  /\ \A g \in Handlers : DraftTime(g)

\* The file id of a row is that of its path.
RowsOfTheirFile == \A i \in DOMAIN revs : revs[i].file = FileOf[revs[i].path]

\* The last row of path p in the undo log holds v.
LastSaved(p, v) ==
  \E i \in Live(p) : revs[i].prev = v /\ \A j \in Live(p) : j <= i

\* A request alone with its file: until it opens the file an edit knows what
\* is in it, from the commit on that is the last content saved, and a revert
\* writes to the file it has truncated itself.
Alone(g) ==
  /\ pc[g] \in {"acquire", "insert", "backup", "commit", "release", "open"} =>
       disk[PathOf(g)] = req[g].seen
  /\ pc[g] \in {"release", "open", "write"} => LastSaved(PathOf(g), req[g].seen)
  /\ pc[g] = "rwrite" => disk[PathOf(g)] = Empty

\* The inductive invariant of calm editing.
CalmInv ==
  /\ IInv
  /\ OneFilePerId
  /\ OneRequestPerFile
  /\ SecondsApart
  /\ TimesInOrder
  /\ RowsOfTheirFile
  /\ \A g \in Handlers : Alone(g)

-----------------------------------------------------------------------------
(* The state of the undo log.                                              *)

\* h is in the middle of overwriting p.
Overwriting(h, p) == pc[h] \in {"write", "ropen", "rwrite"} /\ PathOf(h) = p

\* What MappedContent says of p, without choosing a handler.
Holds(p, v) ==
  /\ \A h \in Handlers : pc[h] = "write" /\ PathOf(h) = p => v = req[h].seen
  /\ \A h \in Handlers :
       pc[h] \in {"ropen", "rwrite"} /\ PathOf(h) = p => v = req[h].data
  /\ (\A h \in Handlers : ~Overwriting(h, p)) => v = disk[p]

MappedIsHeld == \A p \in Paths : \A v : Holds(p, v) <=> v = MappedContent[p]

\* At most one request overwrites p, so there is nothing to choose.
LEMMA MappedHolds == OneRequestPerFile => MappedIsHeld
  <1> SUFFICES ASSUME OneRequestPerFile, NEW p \in Paths, NEW v
               PROVE  Holds(p, v) <=> v = MappedContent[p]
    BY DEF MappedIsHeld
  <1>1. \A g, h \in Handlers : Overwriting(g, p) /\ Overwriting(h, p) => g = h
    BY DEF OneRequestPerFile, Overwriting, FileAt
  <1>2. CASE \E h \in Handlers : pc[h] = "write" /\ PathOf(h) = p
    <2> DEFINE w == CHOOSE h \in Handlers : pc[h] = "write" /\ PathOf(h) = p
    <2>1. w \in Handlers /\ pc[w] = "write" /\ PathOf(w) = p
      BY <1>2
    <2>2. MappedContent[p] = req[w].seen
      BY <1>2 DEF MappedContent
    <2> HIDE DEF w
    <2>3. \A h \in Handlers : Overwriting(h, p) => h = w
      BY <1>1, <2>1 DEF Overwriting
    <2>4. QED
      BY <2>1, <2>2, <2>3 DEF Holds, Overwriting
  <1>3. CASE \E h \in Handlers : pc[h] \in {"ropen", "rwrite"} /\ PathOf(h) = p
    <2> DEFINE w == CHOOSE h \in Handlers :
                      pc[h] \in {"ropen", "rwrite"} /\ PathOf(h) = p
    <2>1. w \in Handlers /\ pc[w] \in {"ropen", "rwrite"} /\ PathOf(w) = p
      BY <1>3
    <2>2. ~\E h \in Handlers : pc[h] = "write" /\ PathOf(h) = p
      BY <1>1, <2>1 DEF Overwriting
    <2>3. MappedContent[p] = req[w].data
      BY <1>3, <2>2 DEF MappedContent
    <2> HIDE DEF w
    <2>4. \A h \in Handlers : Overwriting(h, p) => h = w
      BY <1>1, <2>1 DEF Overwriting
    <2>5. QED
      BY <2>1, <2>2, <2>3, <2>4 DEF Holds, Overwriting
  <1>4. CASE \A h \in Handlers : ~Overwriting(h, p)
    BY <1>4 DEF Holds, Overwriting, MappedContent
  <1>5. QED
    BY <1>2, <1>3, <1>4 DEF Overwriting

LEMMA MappedHoldsNext == OneRequestPerFile' => MappedIsHeld'
  BY MappedHolds, PTL

MappedTypeOK == MappedContent \in [Paths -> Versions]

LEMMA MappedType == TypeOK /\ OneRequestPerFile => MappedTypeOK
  <1> SUFFICES ASSUME TypeOK, OneRequestPerFile, NEW p \in Paths
               PROVE  MappedContent[p] \in Versions
    BY DEF MappedContent, MappedTypeOK
  <1>1. Holds(p, MappedContent[p])
    BY MappedHolds DEF MappedIsHeld
  <1>2. QED
    BY <1>1 DEF Holds, Overwriting, TypeOK, EditSteps

LEMMA MappedTypeNext == TypeOK' /\ OneRequestPerFile' => MappedTypeOK'
  BY MappedType, PTL

\* A path keeps its mapped content if its file does and if the handlers that
\* overwrite it stay the same.
LEMMA ContentKept ==
  ASSUME OneRequestPerFile, OneRequestPerFile', NEW p \in Paths, disk'[p] = disk[p],
         \A g \in Handlers :
           \/ pc'[g] = pc[g] /\ req'[g] = req[g]
           \/ ~Overwriting(g, p) /\ ~Overwriting(g, p)'
  PROVE  MappedContent'[p] = MappedContent[p]
  <1> DEFINE v == MappedContent[p]
  <1>1. Holds(p, v)
    BY MappedHolds DEF MappedIsHeld
  <1>2. PICK w : w = v
    OBVIOUS
  <1>3. Holds(p, w)'
    BY <1>1, <1>2 DEF Holds, Overwriting, PathOf
  <1>4. QED
    BY <1>2, <1>3, MappedHoldsNext DEF MappedIsHeld

-----------------------------------------------------------------------------
(* Every step of calm editing is a step of the undo log, or none.          *)

LEMMA HistoryKept == revs' = revs => MappedHistory' = MappedHistory
  BY DEF MappedHistory, Live

\* While h works on its file no other request overwrites it.
LEMMA OthersElsewhere ==
  ASSUME OneRequestPerFile, NEW g \in Handlers, NEW h \in Handlers, g # h, pc[h] # "idle"
  PROVE  ~Overwriting(g, PathOf(h))
  BY DEF OneRequestPerFile, Overwriting, FileAt

\* Only h and the file it works on change.
LEMMA ContentElsewhere ==
  ASSUME OneRequestPerFile, OneRequestPerFile', NEW h \in Handlers, NEW p \in Paths,
         \A g \in Handlers : g # h => pc'[g] = pc[g] /\ req'[g] = req[g],
         disk'[p] = disk[p], ~Overwriting(h, p), ~Overwriting(h, p)'
  PROVE  MappedContent'[p] = MappedContent[p]
  BY ContentKept

\* The steps of h before and after it overwrites its file.
LEMMA QuietKeeps ==
  ASSUME TypeOK, TypeOK', OneRequestPerFile, OneRequestPerFile', NEW h \in Handlers,
         \A g \in Handlers : g # h => pc'[g] = pc[g] /\ req'[g] = req[g],
         pc[h] \notin {"write", "ropen", "rwrite"},
         pc'[h] \notin {"write", "ropen", "rwrite"}, disk' = disk
  PROVE  MappedContent' = MappedContent
  <1>1. \A p \in Paths : MappedContent'[p] = MappedContent[p]
    BY ContentElsewhere DEF Overwriting
  <1>2. QED
    BY <1>1, MappedType, MappedTypeNext DEF MappedTypeOK

\* The file of a handler that is not overwriting it holds what it seems to.
LEMMA ContentOnDisk ==
  ASSUME TypeOK, OneRequestPerFile, NEW h \in Handlers, pc[h] # "idle",
         pc[h] \notin {"write", "ropen", "rwrite"}
  PROVE  MappedContent[PathOf(h)] = disk[PathOf(h)]
  <1>1. PathOf(h) \in Paths
    BY DEF TypeOK
  <1>2. \A g \in Handlers : ~Overwriting(g, PathOf(h))
    BY OthersElsewhere DEF Overwriting
  <1>3. Holds(PathOf(h), MappedContent[PathOf(h)])
    BY <1>1, MappedHolds DEF MappedIsHeld
  <1>4. QED
    BY <1>2, <1>3 DEF Holds

LEMMA ContentOverwritten ==
  ASSUME TypeOK, OneRequestPerFile, NEW h \in Handlers
  PROVE  /\ pc[h] = "write" => MappedContent[PathOf(h)] = req[h].seen
         /\ pc[h] \in {"ropen", "rwrite"} => MappedContent[PathOf(h)] = req[h].data
  <1>1. pc[h] # "idle" => PathOf(h) \in Paths
    BY DEF TypeOK
  <1>2. pc[h] # "idle" => Holds(PathOf(h), MappedContent[PathOf(h)])
    BY <1>1, MappedHolds DEF MappedIsHeld
  <1>3. QED
    BY <1>2 DEF Holds

LEMMA SavedIsLast ==
  ASSUME NEW p \in Paths, NEW v, LastSaved(p, v)
  PROVE  \E n \in DOMAIN MappedHistory[p] :
           Undo!IsLast(p, n) /\ MappedHistory[p][n] = v
  <1>1. PICK i \in Live(p) : revs[i].prev = v /\ \A j \in Live(p) : j <= i
    BY DEF LastSaved
  <1>2. MappedHistory[p] = [j \in Live(p) |-> revs[j].prev]
    BY DEF MappedHistory
  <1>3. QED
    BY <1>1, <1>2 DEF Undo!IsLast

\* The write of an edit, whatever it leaves in the file, replaces a saved content.
LEMMA WriteReplaces ==
  ASSUME CalmInv, TypeOK', OneRequestPerFile', NEW h \in Handlers, pc[h] = "write",
         WriteData(h) \/ WriteFails(h)
  PROVE  Undo!Replace
  <1> DEFINE p == PathOf(h)
  <1>1. TypeOK /\ OneRequestPerFile /\ Alone(h) /\ p \in Paths
    BY DEF CalmInv, IInv, TypeOK
  <1>2. /\ \A g \in Handlers : g # h => pc'[g] = pc[g] /\ req'[g] = req[g]
        /\ pc'[h] = "idle" /\ revs' = revs
    BY <1>1 DEF WriteData, WriteFails, AfterWrite, Reply, Goto, Local, TypeOK
  <1>3. \A q \in Paths : q # p => disk'[q] = disk[q]
    BY <1>1 DEF WriteData, WriteFails, TypeOK
  <1> HIDE DEF p
  <1>4. \A q \in Paths : q # p => MappedContent'[q] = MappedContent[q]
    BY <1>1, <1>2, <1>3, ContentElsewhere DEF Overwriting, p
  <1>5. MappedContent[p] = req[h].seen /\ LastSaved(p, req[h].seen)
    BY <1>1, ContentOverwritten DEF Alone, p
  <1>6. \A q \in Paths : MappedContent'[q] # MappedContent[q] =>
          \E n \in DOMAIN MappedHistory[q] :
            Undo!IsLast(q, n) /\ MappedHistory[q][n] = MappedContent[q]
    BY <1>1, <1>4, <1>5, SavedIsLast
  <1>7. QED
    BY <1>2, <1>6, HistoryKept, MappedTypeNext DEF Undo!Replace, MappedTypeOK

\* An edit that truncates its file still seems to have left it alone, and a
\* committed revert seems to have finished.
LEMMA TruncateHidden ==
  ASSUME CalmInv, TypeOK', OneRequestPerFile', NEW h \in Handlers, Truncate(h)
  PROVE  UNCHANGED <<MappedContent, MappedHistory>>
  <1>1. PICK p \in Paths : p = PathOf(h)
    BY DEF CalmInv, IInv, TypeOK, Truncate
  <1>2. TypeOK /\ OneRequestPerFile /\ Alone(h)
    BY DEF CalmInv, IInv
  <1>3. /\ \A g \in Handlers : g # h => pc'[g] = pc[g]
        /\ \/ pc[h] = "open" /\ pc'[h] = "write"
           \/ pc[h] = "ropen" /\ pc'[h] = "rwrite"
        /\ UNCHANGED <<req, revs>>
    BY <1>1, <1>2 DEF Truncate, Goto, TypeOK
  <1>4. \A q \in Paths : q # p => disk'[q] = disk[q]
    BY <1>1, <1>2 DEF Truncate, TypeOK
  <1>5. \A q \in Paths : q # p => MappedContent'[q] = MappedContent[q]
    BY <1>1, <1>2, <1>3, <1>4, ContentElsewhere DEF Overwriting, PathOf
  <1>6. /\ pc'[h] = "write" => MappedContent'[p] = req[h].seen
        /\ pc'[h] = "rwrite" => MappedContent'[p] = req[h].data
    <2>1. MappedIsHeld'
      BY MappedHoldsNext
    <2>2. PathOf(h)' = p
      BY <1>1, <1>3 DEF PathOf
    <2>3. PICK v : v = MappedContent'[p]
      OBVIOUS
    <2>4. Holds(p, v)'
      BY <1>1, <1>2, <2>1, <2>3 DEF MappedIsHeld
    <2>5. QED
      BY <1>3, <2>2, <2>3, <2>4 DEF Holds
  <1>7. MappedContent'[p] = MappedContent[p]
    <2>1. CASE pc[h] = "open"
      BY <1>1, <1>2, <1>3, <1>6, <2>1, ContentOnDisk DEF Alone
    <2>2. CASE pc[h] = "ropen"
      BY <1>1, <1>2, <1>3, <1>6, <2>2, ContentOverwritten
    <2>3. QED
      BY <1>3, <2>1, <2>2
  <1>8. QED
    BY <1>1, <1>2, <1>3, <1>5, <1>7, HistoryKept, MappedType, MappedTypeNext DEF MappedTypeOK

\* The write of a revert makes true what the file seemed to hold.
LEMMA RevertWriteHidden ==
  ASSUME CalmInv, TypeOK', OneRequestPerFile', NEW h \in Handlers, pc[h] = "rwrite",
         WriteData(h)
  PROVE  UNCHANGED <<MappedContent, MappedHistory>>
  <1>1. PICK p \in Paths : p = PathOf(h)
    BY DEF CalmInv, IInv, TypeOK, Truncate
  <1>2. TypeOK /\ OneRequestPerFile /\ Alone(h)
    BY DEF CalmInv, IInv
  <1>3. /\ \A g \in Handlers : g # h => pc'[g] = pc[g]
        /\ pc'[h] = "unlock" /\ UNCHANGED <<req, revs>>
    BY <1>1, <1>2 DEF WriteData, AfterWrite, Goto, TypeOK
  <1>4. disk' = [disk EXCEPT ![p] = req[h].data]
    BY <1>1, <1>2 DEF WriteData, Leftover, Alone
  <1>5. \A q \in Paths : q # p => MappedContent'[q] = MappedContent[q]
    BY <1>1, <1>2, <1>3, <1>4, ContentElsewhere DEF Overwriting, PathOf, TypeOK
  <1>6. MappedContent'[p] = req[h].data
    <2>1. \A g \in Handlers : ~Overwriting(g, p)'
      <3>1. \A g \in Handlers : g # h => ~Overwriting(g, p)
        BY <1>1, <1>2, OthersElsewhere
      <3>2. QED
        BY <1>3, <3>1 DEF Overwriting, PathOf
    <2>2. PICK v : v = MappedContent'[p]
      OBVIOUS
    <2>3. Holds(p, v)'
      BY <1>1, <1>2, <2>2, MappedHoldsNext DEF MappedIsHeld
    <2>4. v = disk'[p]
      BY <2>1, <2>3 DEF Holds
    <2>5. QED
      BY <1>1, <1>2, <1>4, <2>2, <2>4 DEF TypeOK
  <1>7. MappedContent'[p] = MappedContent[p]
    BY <1>1, <1>2, <1>6, ContentOverwritten
  <1>8. QED
    BY <1>1, <1>2, <1>3, <1>5, <1>7, HistoryKept, MappedType, MappedTypeNext DEF MappedTypeOK

\* Committing a revision saves what the edit is going to replace.
LEMMA CommitSaves ==
  ASSUME CalmInv, TypeOK', OneRequestPerFile', NEW h \in Handlers, CommitRevision(h)
  PROVE  Undo!Save(PathOf(h))
  <1>1. PICK p \in Paths : p = PathOf(h)
    BY DEF CalmInv, IInv, TypeOK, CommitRevision
  <1>2. TypeOK /\ OneRequestPerFile /\ Alone(h)
    BY DEF CalmInv, IInv
  <1>3. /\ pc[h] = "commit" /\ pc'[h] = "release" /\ UNCHANGED <<disk, req>>
        /\ \A g \in Handlers : g # h => pc'[g] = pc[g]
    BY <1>2 DEF CommitRevision, Goto, TypeOK
  <1>4. MappedContent' = MappedContent
    BY <1>2, <1>3, QuietKeeps
  <1>5. MappedContent[p] = req[h].seen
    BY <1>1, <1>2, <1>3, ContentOnDisk DEF Alone
  <1>6. /\ DOMAIN revs' = DOMAIN revs \cup {NextRev}
        /\ \A i \in DOMAIN revs : i < NextRev /\ i # NextRev /\ revs'[i] = revs[i]
        /\ revs'[NextRev] = CompletedRow(h)
    BY <1>2 DEF CommitRevision, NextRev, TypeOK
  <1>7. /\ CompletedRow(h).path = p /\ CompletedRow(h).prev = req[h].seen
        /\ CompletedRow(h).status = "completed"
    BY <1>1 DEF CompletedRow
  <1>8. PICK n : n = NextRev
    OBVIOUS
  <1>9. /\ Live(p)' = Live(p) \cup {n} /\ n \notin DOMAIN revs
        /\ \A q \in Paths : q # p => Live(q)' = Live(q)
        /\ \A q \in Paths : Live(q) \subseteq DOMAIN revs
    <2>1. n \notin DOMAIN revs
      BY <1>6, <1>8
    <2>2. Live(p)' = Live(p) \cup {n}
      BY <1>6, <1>7, <1>8, <2>1 DEF Live
    <2>3. \A q \in Paths : q # p => Live(q)' = Live(q)
      BY <1>6, <1>7, <1>8, <2>1 DEF Live
    <2>4. QED
      BY <2>1, <2>2, <2>3 DEF Live
  <1>10. MappedHistory' = [MappedHistory EXCEPT ![p] =
           [m \in DOMAIN MappedHistory[p] \cup {n} |->
              IF m = n THEN MappedContent[p] ELSE MappedHistory[p][m]]]
    <2>1. MappedHistory' = [q \in Paths |-> [i \in Live(q)' |-> revs'[i].prev]]
      BY DEF MappedHistory
    <2>2. \A q \in Paths : MappedHistory[q] = [i \in Live(q) |-> revs[i].prev]
      BY DEF MappedHistory
    <2>3. ASSUME NEW q \in Paths, q # p
          PROVE  [i \in Live(q)' |-> revs'[i].prev] = MappedHistory[q]
      BY <1>6, <1>9, <2>2, <2>3
    <2>4. [i \in Live(p)' |-> revs'[i].prev] =
            [m \in DOMAIN MappedHistory[p] \cup {n} |->
               IF m = n THEN MappedContent[p] ELSE MappedHistory[p][m]]
      <3>1. ASSUME NEW i \in Live(p)
            PROVE  i # n /\ revs'[i].prev = MappedHistory[p][i]
        <4>1. MappedHistory[p][i] = revs[i].prev
          BY <2>2
        <4>2. i \in DOMAIN revs
          BY <1>9
        <4>3. QED
          BY <1>6, <1>8, <4>1, <4>2
      <3>2. revs'[n].prev = MappedContent[p] /\ DOMAIN MappedHistory[p] = Live(p)
        BY <1>5, <1>6, <1>7, <1>8, <2>2
      <3>3. QED
        BY <1>9, <3>1, <3>2
    <2>5. MappedHistory = [q \in Paths |-> MappedHistory[q]]
      BY DEF MappedHistory
    <2>6. QED
      BY <2>1, <2>3, <2>4, <2>5
  <1>11. n \in DOMAIN MappedHistory'[p] /\ \A m \in DOMAIN MappedHistory[p] : m < n
    <2>1. DOMAIN MappedHistory[p] = Live(p) /\ DOMAIN MappedHistory'[p] = Live(p)'
      BY DEF MappedHistory
    <2>2. QED
      BY <1>6, <1>8, <1>9, <2>1
  <1>12. QED
    BY <1>1, <1>4, <1>10, <1>11 DEF Undo!Save

\* The revision a revert found is the last in the undo log of its file: rows
\* are in the order of their times, and no two completed ones of a file share
\* a time.
LEMMA TargetIsLast ==
  ASSUME CalmInv, NEW h \in Handlers, pc[h] \in {"load", "mark"}
  PROVE  /\ req[h].rid \in Live(PathOf(h))
         /\ \A j \in Live(PathOf(h)) : j <= req[h].rid
  <1> DEFINE r == req[h].rid
  <1>1. /\ r \in Completed(FileAt(h))
        /\ \A j \in Completed(FileAt(h)) : revs[j].at <= revs[r].at
    BY DEF CalmInv, IInv, RowsInv, HandlerInv, TargetInv
  <1>2. PathOf(h) \in Paths /\ \A i \in DOMAIN revs : revs[i] \in Row
    BY RowFields DEF CalmInv, IInv, TypeOK
  <1>3. Completed(FileAt(h)) = Live(PathOf(h))
    BY <1>2 DEF CalmInv, OneFilePerId, RowsOfTheirFile, Completed, Live, FileAt, Row
  <1> HIDE DEF r
  <1>4. ASSUME NEW j \in Live(PathOf(h)), ~(j <= r) PROVE FALSE
    <2>1. /\ j \in DOMAIN revs /\ r \in DOMAIN revs /\ j \in Nat /\ r \in Nat
          /\ revs[j].file = revs[r].file
          /\ revs[j].status = "completed" /\ revs[r].status = "completed"
      BY <1>1, <1>3, <1>4 DEF Completed, CalmInv, IInv, TypeOK
    <2>2. revs[r].at <= revs[j].at /\ revs[j].at <= revs[r].at
      BY <1>1, <1>3, <1>4, <2>1 DEF CalmInv, TimesInOrder
    <2>3. revs[r].at \in Nat /\ revs[j].at \in Nat
      BY <1>2, <2>1 DEF Row
    <2>4. QED
      BY <1>4, <2>1, <2>2, <2>3 DEF CalmInv, SecondsApart
  <1>5. QED
    BY <1>1, <1>3, <1>4 DEF r

\* Marking a revision removes it from the undo log.
LEMMA MarkedIsGone ==
  ASSUME TypeOK, NEW p \in Paths, NEW r \in Live(p),
         NEW status \in {"corrupted", "reverted"}, revs' = WithStatus(r, status)
  PROVE  MappedHistory' = [MappedHistory EXCEPT ![p] = Undo!Without(p, r)]
  <1>1. r \in DOMAIN revs /\ revs[r] \in Row /\ revs[r].path = p
    BY DEF Live, TypeOK
  <1>2. /\ DOMAIN revs' = DOMAIN revs
        /\ \A i \in DOMAIN revs : i # r => revs'[i] = revs[i]
        /\ revs'[r].status = status
    BY <1>1 DEF WithStatus, Row, TypeOK
  <1>3. revs'[r].path = p
    BY <1>1 DEF WithStatus, Row, TypeOK
  <1>4. Live(p)' = Live(p) \ {r} /\ \A q \in Paths : q # p => Live(q)' = Live(q)
    BY <1>1, <1>2, <1>3 DEF Live
  <1>5. MappedHistory' = [q \in Paths |-> [i \in Live(q)' |-> revs'[i].prev]]
    BY DEF MappedHistory
  <1>6. \A q \in Paths : MappedHistory[q] = [i \in Live(q) |-> revs[i].prev]
    BY DEF MappedHistory
  <1>7. ASSUME NEW q \in Paths, q # p
        PROVE  [i \in Live(q)' |-> revs'[i].prev] = MappedHistory[q]
    <2>1. r \notin Live(q) /\ Live(q) \subseteq DOMAIN revs
      BY <1>1, <1>7 DEF Live
    <2>2. QED
      BY <1>2, <1>4, <1>6, <1>7, <2>1
  <1>8. [i \in Live(p)' |-> revs'[i].prev] = Undo!Without(p, r)
    <2>1. Live(p) \subseteq DOMAIN revs
      BY DEF Live
    <2>2. QED
      <3>1. ASSUME NEW i \in Live(p) \ {r}
            PROVE  revs'[i].prev = MappedHistory[p][i]
        <4>1. MappedHistory[p][i] = revs[i].prev
          BY <1>6
        <4>2. QED
          BY <1>2, <2>1, <4>1
      <3>2. DOMAIN MappedHistory[p] = Live(p)
        BY <1>6
      <3>3. QED
        BY <1>4, <3>1, <3>2 DEF Undo!Without
  <1>9. MappedHistory = [q \in Paths |-> MappedHistory[q]]
    BY DEF MappedHistory
  <1>10. QED
    BY <1>5, <1>7, <1>8, <1>9

\* The row is marked as reverted: from now on the file seems to hold its content.
LEMMA RevertRestores ==
  ASSUME CalmInv, TypeOK', OneRequestPerFile', NEW h \in Handlers, MarkReverted(h)
  PROVE  Undo!Restore(PathOf(h))
  <1>1. PICK p \in Paths : p = PathOf(h)
    BY DEF CalmInv, IInv, TypeOK, MarkReverted
  <1>2. TypeOK /\ OneRequestPerFile
    BY DEF CalmInv, IInv
  <1>3. /\ pc[h] = "mark" /\ pc'[h] = "ropen" /\ UNCHANGED <<disk, req>>
        /\ \A g \in Handlers : g # h => pc'[g] = pc[g]
        /\ revs' = WithStatus(req[h].rid, "reverted")
    BY <1>2 DEF MarkReverted, Goto, TypeOK
  <1>4. PICK r : r = req[h].rid
    OBVIOUS
  <1>5. r \in Live(p) /\ \A j \in Live(p) : j <= r
    BY <1>1, <1>3, <1>4, TargetIsLast
  <1>6. MappedHistory' = [MappedHistory EXCEPT ![p] = Undo!Without(p, r)]
    BY <1>2, <1>3, <1>4, <1>5, MarkedIsGone
  <1>7. DOMAIN MappedHistory[p] = Live(p) /\ MappedHistory[p][r] = revs[r].prev
    BY <1>5 DEF MappedHistory
  <1>8. \A q \in Paths : q # p => MappedContent'[q] = MappedContent[q]
    BY <1>1, <1>2, <1>3, ContentElsewhere DEF Overwriting, PathOf
  <1>9. MappedContent'[p] = revs[r].prev
    <2>1. PathOf(h)' = p
      BY <1>1, <1>3 DEF PathOf
    <2>2. PICK v : v = MappedContent'[p]
      OBVIOUS
    <2>3. Holds(p, v)'
      BY <2>2, MappedHoldsNext DEF MappedIsHeld
    <2>4. v = req[h].data
      BY <1>3, <2>1, <2>3 DEF Holds
    <2>5. req[h].data = revs[r].prev
      BY <1>3, <1>4 DEF CalmInv, IInv, RowsInv, HandlerInv, TargetInv
    <2>6. QED
      BY <2>2, <2>4, <2>5
  <1>10. MappedContent' = [MappedContent EXCEPT ![p] = revs[r].prev]
    BY <1>2, <1>8, <1>9, MappedType, MappedTypeNext DEF MappedTypeOK
  <1>11. QED
    BY <1>1, <1>5, <1>6, <1>7, <1>10 DEF Undo!Restore, Undo!IsLast

LEMMA CorruptedForgets ==
  ASSUME CalmInv, TypeOK', OneRequestPerFile', NEW h \in Handlers, MarkCorrupted(h)
  PROVE  Undo!Forget(PathOf(h))
  <1>1. PICK p \in Paths : p = PathOf(h)
    BY DEF CalmInv, IInv, TypeOK, MarkCorrupted
  <1>2. TypeOK /\ OneRequestPerFile
    BY DEF CalmInv, IInv
  <1>3. /\ pc[h] = "load" /\ pc'[h] = "unlock" /\ UNCHANGED <<disk, req>>
        /\ \A g \in Handlers : g # h => pc'[g] = pc[g]
        /\ revs' = WithStatus(req[h].rid, "corrupted")
    BY <1>2 DEF MarkCorrupted, Goto, TypeOK
  <1>4. PICK r : r = req[h].rid
    OBVIOUS
  <1>5. r \in Live(p) /\ \A j \in Live(p) : j <= r
    BY <1>1, <1>3, <1>4, TargetIsLast
  <1>6. MappedHistory' = [MappedHistory EXCEPT ![p] = Undo!Without(p, r)]
    BY <1>2, <1>3, <1>4, <1>5, MarkedIsGone
  <1>7. DOMAIN MappedHistory[p] = Live(p)
    BY DEF MappedHistory
  <1>8. MappedContent' = MappedContent
    BY <1>2, <1>3, QuietKeeps
  <1>9. QED
    BY <1>1, <1>5, <1>6, <1>7, <1>8 DEF Undo!Forget, Undo!IsLast

\* A crash cuts edits short, and only what they had saved is replaced.
LEMMA CrashReplaces ==
  ASSUME CalmInv, TypeOK', OneRequestPerFile', Crash, CommittedRevertGoesOn
  PROVE  Undo!Replace
  <1>1. TypeOK /\ OneRequestPerFile
    BY DEF CalmInv, IInv
  <1>2. revs' = revs /\ \A g \in Handlers : pc'[g] = "idle"
    BY DEF Crash
  <1>3. ASSUME NEW p \in Paths, MappedContent'[p] # MappedContent[p]
        PROVE  \E n \in DOMAIN MappedHistory[p] :
                 Undo!IsLast(p, n) /\ MappedHistory[p][n] = MappedContent[p]
    <2>1. \E h \in Handlers : Overwriting(h, p)
      <3> SUFFICES ASSUME \A h \in Handlers : ~Overwriting(h, p) PROVE FALSE
        OBVIOUS
      <3>1. disk'[p] = disk[p]
        BY DEF Crash, Overwriting
      <3>2. QED
        BY <1>1, <1>2, <1>3, <3>1, ContentKept DEF Overwriting
    <2>2. PICK h \in Handlers : Overwriting(h, p)
      BY <2>1
    <2>3. pc[h] = "write" /\ PathOf(h) = p
      BY <2>2 DEF CommittedRevertGoesOn, Overwriting
    <2>4. MappedContent[p] = req[h].seen /\ LastSaved(p, req[h].seen)
      BY <1>1, <2>3, ContentOverwritten DEF CalmInv, Alone
    <2>5. QED
      BY <2>4, SavedIsLast
  <1>4. QED
    BY <1>2, <1>3, HistoryKept, MappedTypeNext DEF Undo!Replace, MappedTypeOK

\* The steps of h that change neither a file nor a row.
LEMMA QuietSteps ==
  ASSUME TypeOK, NEW h \in Handlers,
         \/ BeginEdit(h) \/ BeginRevert(h) \/ ReadPrevious(h) \/ NoEdit(h)
         \/ AcquireFileLock(h) \/ Conflict(h) \/ InsertDraft(h) \/ InsertFails(h)
         \/ SaveBackup(h) \/ SaveBackupFails(h) \/ CommitFails(h)
         \/ ReleaseBeforeWrite(h) \/ ReleaseAndReply(h)
         \/ LookUpRevision(h) \/ NoRevision(h) \/ LoadBackup(h) \/ RevertFails(h)
         \/ OpenFails(h) /\ pc[h] = "open"
  PROVE  /\ pc[h] \notin {"write", "ropen", "rwrite"}
         /\ pc'[h] \notin {"write", "ropen", "rwrite"}
         /\ UNCHANGED <<disk, revs>>
  <1> USE DEF TypeOK, Goto, Reply, shared
  <1>1. CASE BeginEdit(h) \/ BeginRevert(h) \/ ReadPrevious(h) \/ NoEdit(h)
    BY <1>1 DEF BeginEdit, BeginRevert, ReadPrevious, NoEdit
  <1>2. CASE AcquireFileLock(h) \/ Conflict(h) \/ InsertDraft(h) \/ InsertFails(h)
    BY <1>2 DEF AcquireFileLock, Conflict, InsertDraft, InsertFails
  <1>3. CASE SaveBackup(h) \/ SaveBackupFails(h) \/ CommitFails(h)
    BY <1>3 DEF SaveBackup, SaveBackupFails, CommitFails
  <1>4. CASE ReleaseBeforeWrite(h) \/ ReleaseAndReply(h)
    BY <1>4 DEF ReleaseBeforeWrite, ReleaseAndReply
  <1>5. CASE LookUpRevision(h) \/ NoRevision(h) \/ LoadBackup(h) \/ RevertFails(h)
    BY <1>5 DEF LookUpRevision, NoRevision, LoadBackup, RevertFails
  <1>6. CASE OpenFails(h) /\ pc[h] = "open"
    BY <1>6 DEF OpenFails, AfterWrite
  <1>7. QED
    BY <1>1, <1>2, <1>3, <1>4, <1>5, <1>6

LEMMA StepMaps ==
  ASSUME CalmInv, CalmInv', [CalmNext]_vars
  PROVE  [Undo!UNext]_(Undo!uvars)
  <1> DEFINE Hidden == UNCHANGED <<MappedContent, MappedHistory>>
  <1>1. TypeOK /\ OneRequestPerFile /\ TypeOK' /\ OneRequestPerFile'
    BY DEF CalmInv, IInv
  <1>2. Hidden => UNCHANGED Undo!uvars
    BY DEF Undo!uvars
  <1> HIDE DEF Hidden
  <1>3. ASSUME NEW h \in Handlers, BeginEdit(h) \/ BeginRevert(h) \/ Step(h),
               CommittedRevertGoesOn
        PROVE  Undo!UNext \/ Hidden
    <2>1. \A g \in Handlers : g # h => pc'[g] = pc[g] /\ req'[g] = req[g]
      BY <1>1, <1>3, StepFrame
    <2>2. CASE /\ pc[h] \notin {"write", "ropen", "rwrite"}
               /\ pc'[h] \notin {"write", "ropen", "rwrite"}
               /\ UNCHANGED <<disk, revs>>
      BY <1>1, <2>1, <2>2, QuietKeeps, HistoryKept DEF Hidden
    <2>3. CASE CommitRevision(h)
      BY <1>1, <2>3, CommitSaves DEF Undo!UNext, CommitRevision, TypeOK
    <2>4. CASE Truncate(h)
      BY <1>1, <2>4, TruncateHidden DEF Hidden
    <2>5. CASE WriteData(h) \/ WriteFails(h)
      <3>1. pc[h] \in {"write", "rwrite"}
        BY <2>5 DEF WriteData, WriteFails
      <3>2. pc[h] \in {"ropen", "rwrite"} => ~WriteFails(h)
        BY <1>3 DEF CommittedRevertGoesOn
      <3>3. QED
        BY <1>1, <2>5, <3>1, <3>2, WriteReplaces, RevertWriteHidden DEF Hidden, Undo!UNext
    <2>6. CASE MarkReverted(h)
      BY <1>1, <2>6, RevertRestores DEF Undo!UNext, MarkReverted, TypeOK
    <2>7. CASE MarkCorrupted(h)
      BY <1>1, <2>7, CorruptedForgets DEF Undo!UNext, MarkCorrupted, TypeOK
    <2>8. OpenFails(h) => pc[h] = "open"
      BY <1>3 DEF OpenFails, CommittedRevertGoesOn
    <2>9. QED
      BY <1>1, <1>3, <2>2, <2>3, <2>4, <2>5, <2>6, <2>7, <2>8, QuietSteps DEF Step
  <1>4. ASSUME Crash, CommittedRevertGoesOn PROVE Undo!UNext
    BY <1>1, <1>4, CrashReplaces DEF Undo!UNext
  <1>5. CASE DeleteBackup \/ Tick \/ UNCHANGED vars
    <2>1. UNCHANGED <<disk, revs, pc, req>>
      BY <1>5 DEF DeleteBackup, Tick, vars
    <2>2. \A p \in Paths : MappedContent'[p] = MappedContent[p]
      BY <1>1, <2>1, ContentKept
    <2>3. QED
      BY <1>1, <1>2, <2>1, <2>2, HistoryKept, MappedType, MappedTypeNext
         DEF Hidden, MappedTypeOK
  <1>6. QED
    BY <1>2, <1>3, <1>4, <1>5 DEF CalmNext, Next

-----------------------------------------------------------------------------
(* The invariant of calm editing is inductive.                             *)

\* A step that commits or marks no row keeps the order of the rows, and a new
\* draft takes its time from the clock.
LEMMA TimesKept ==
  ASSUME TypeOK, TimesInOrder, RowsOfTheirFile, revs' = revs,
         now' \in Nat, now <= now',
         \A g \in Handlers : pc'[g] \in {"backup", "commit"} =>
           \/ pc[g] \in {"backup", "commit"} /\ req'[g].at = req[g].at
           \/ req'[g].at = now
  PROVE  TimesInOrder' /\ RowsOfTheirFile'
  <1>1. RowsOfTheirFile'
    BY DEF RowsOfTheirFile
  <1>2. \A i \in DOMAIN revs : revs[i].at \in Nat
    BY RowFields DEF Row
  <1>3. now \in Nat /\ \A g \in Handlers : req[g].at \in Nat
    BY DEF TypeOK, Request
  <1>4. ASSUME NEW g \in Handlers PROVE DraftTime(g)'
    BY <1>2, <1>3 DEF TimesInOrder, DraftTime
  <1>5. QED
    BY <1>1, <1>2, <1>3, <1>4 DEF TimesInOrder

LEMMA TimesCommit ==
  ASSUME IInv, TimesInOrder, RowsOfTheirFile, NEW h \in Handlers, CommitRevision(h)
  PROVE  TimesInOrder' /\ RowsOfTheirFile'
  <1>1. /\ DOMAIN revs' = DOMAIN revs \cup {NextRev} /\ NextRev \notin DOMAIN revs
        /\ \A i \in DOMAIN revs : i < NextRev /\ revs'[i] = revs[i]
        /\ revs'[NextRev] = CompletedRow(h) /\ DOMAIN revs \subseteq Nat /\ NextRev \in Nat
    BY DEF CommitRevision, NextRev, IInv, TypeOK
  <1>2. /\ CompletedRow(h).file = FileOf[CompletedRow(h).path]
        /\ CompletedRow(h).at = req[h].at
    BY DEF CompletedRow, FileAt
  <1>3. /\ pc[h] = "commit" /\ pc'[h] = "release" /\ UNCHANGED <<now, req>>
        /\ \A g \in Handlers : g # h => pc'[g] = pc[g]
    BY DEF CommitRevision, Goto, IInv, TypeOK
  <1>4. /\ req[h].at <= now /\ now \in Nat /\ req[h].at \in Nat
        /\ \A i \in DOMAIN revs : revs[i].at <= req[h].at
    BY <1>3 DEF TimesInOrder, DraftTime, IInv, TypeOK, Request
  <1>5. ASSUME NEW g \in Handlers PROVE DraftTime(g)'
    <2>1. pc'[g] \in {"backup", "commit"} => FALSE
      BY <1>3 DEF IInv, RowsInv, HandlerInv, DraftInv
    <2>2. QED
      BY <2>1 DEF DraftTime
  <1>6. \A i \in DOMAIN revs' : revs'[i].at <= now'
    BY <1>1, <1>2, <1>3, <1>4 DEF TimesInOrder
  <1>7. ASSUME NEW i \in DOMAIN revs', NEW j \in DOMAIN revs', i <= j
        PROVE  revs'[i].at <= revs'[j].at
    <2>1. CASE j = NextRev
      BY <1>1, <1>2, <1>4, <2>1
    <2>2. CASE j # NextRev
      <3>1. j \in DOMAIN revs /\ j < NextRev
        BY <1>1, <2>2
      <3>2. i # NextRev /\ i \in Nat /\ j \in Nat
        BY <1>1, <1>7, <3>1
      <3>3. i \in DOMAIN revs
        BY <1>1, <3>2
      <3>4. QED
        BY <1>1, <1>7, <3>1, <3>3 DEF TimesInOrder
    <2>3. QED
      BY <2>1, <2>2
  <1>8. RowsOfTheirFile'
    BY <1>1, <1>2 DEF RowsOfTheirFile
  <1>9. QED
    BY <1>5, <1>6, <1>7, <1>8 DEF TimesInOrder

LEMMA TimesMark ==
  ASSUME IInv, TimesInOrder, RowsOfTheirFile, NEW h \in Handlers,
         MarkCorrupted(h) \/ MarkReverted(h)
  PROVE  TimesInOrder' /\ RowsOfTheirFile'
  <1>1. PICK r \in DOMAIN revs, status \in {"corrupted", "reverted"} :
          revs' = WithStatus(r, status)
    BY DEF MarkCorrupted, MarkReverted, IInv, RowsInv, HandlerInv, TargetInv, Completed
  <1>2. DOMAIN revs' = DOMAIN revs
    BY <1>1 DEF WithStatus, IInv, TypeOK
  <1>3. ASSUME NEW i \in DOMAIN revs
        PROVE  /\ revs'[i].at = revs[i].at /\ revs'[i].file = revs[i].file
               /\ revs'[i].path = revs[i].path
    <2>1. revs[i] \in Row
      BY RowFields DEF IInv
    <2>2. QED
      BY <1>1, <2>1 DEF WithStatus, Row, IInv, TypeOK
  <1>4. /\ UNCHANGED <<now, req>>
        /\ \A g \in Handlers : pc'[g] \in {"backup", "commit"} => pc'[g] = pc[g]
    BY DEF MarkCorrupted, MarkReverted, Goto, IInv, TypeOK
  <1>5. \A g \in Handlers : DraftTime(g)'
    BY <1>2, <1>3, <1>4 DEF TimesInOrder, DraftTime
  <1>6. QED
    BY <1>2, <1>3, <1>4, <1>5 DEF TimesInOrder, RowsOfTheirFile

\* Where the time of a draft comes from.
LEMMA DraftFrame ==
  ASSUME TypeOK, NEW h \in Handlers, BeginEdit(h) \/ BeginRevert(h) \/ Step(h),
         ~CommitRevision(h), ~MarkCorrupted(h), ~MarkReverted(h)
  PROVE  /\ revs' = revs /\ now' = now
         /\ pc'[h] \in {"backup", "commit"} =>
              \/ pc[h] \in {"backup", "commit"} /\ req'[h].at = req[h].at
              \/ req'[h].at = now
  <1> USE DEF TypeOK, Goto, Local, Reply, shared, AfterWrite, Request
  <1>1. CASE BeginEdit(h) \/ BeginRevert(h)
    BY <1>1 DEF BeginEdit, BeginRevert
  <1>2. CASE ReadPrevious(h) \/ NoEdit(h) \/ AcquireFileLock(h) \/ Conflict(h)
    BY <1>2 DEF ReadPrevious, NoEdit, AcquireFileLock, Conflict
  <1>3. CASE InsertDraft(h)
    BY <1>3 DEF InsertDraft
  <1>4. CASE InsertFails(h) \/ SaveBackup(h) \/ SaveBackupFails(h) \/ CommitFails(h)
    BY <1>4 DEF InsertFails, SaveBackup, SaveBackupFails, CommitFails
  <1>5. CASE ReleaseBeforeWrite(h) \/ ReleaseAndReply(h) \/ Truncate(h) \/ OpenFails(h)
    BY <1>5 DEF ReleaseBeforeWrite, ReleaseAndReply, Truncate, OpenFails
  <1>6. CASE WriteData(h) \/ WriteFails(h)
    BY <1>6 DEF WriteData, WriteFails
  <1>7. CASE LookUpRevision(h) \/ NoRevision(h) \/ LoadBackup(h) \/ RevertFails(h)
    BY <1>7 DEF LookUpRevision, NoRevision, LoadBackup, RevertFails
  <1>8. QED
    BY <1>1, <1>2, <1>3, <1>4, <1>5, <1>6, <1>7 DEF Step

LEMMA TimesNext ==
  ASSUME IInv, TimesInOrder, RowsOfTheirFile, [Next]_vars
  PROVE  TimesInOrder' /\ RowsOfTheirFile'
  <1>1. TypeOK /\ now \in Nat
    BY DEF IInv, TypeOK
  <1>2. ASSUME NEW h \in Handlers, BeginEdit(h) \/ BeginRevert(h) \/ Step(h)
        PROVE  TimesInOrder' /\ RowsOfTheirFile'
    <2>1. CASE CommitRevision(h)
      BY <2>1, TimesCommit
    <2>2. CASE MarkCorrupted(h) \/ MarkReverted(h)
      BY <2>2, TimesMark
    <2>3. CASE ~CommitRevision(h) /\ ~MarkCorrupted(h) /\ ~MarkReverted(h)
      <3>1. \A g \in Handlers : g # h => pc'[g] = pc[g] /\ req'[g] = req[g]
        BY <1>1, <1>2, StepFrame
      <3>2. /\ revs' = revs /\ now' = now
            /\ pc'[h] \in {"backup", "commit"} =>
                 \/ pc[h] \in {"backup", "commit"} /\ req'[h].at = req[h].at
                 \/ req'[h].at = now
        BY <1>1, <1>2, <2>3, DraftFrame
      <3>3. \A g \in Handlers : pc'[g] \in {"backup", "commit"} =>
              \/ pc[g] \in {"backup", "commit"} /\ req'[g].at = req[g].at
              \/ req'[g].at = now
        BY <3>1, <3>2
      <3>4. QED
        BY <1>1, <3>2, <3>3, TimesKept
    <2>4. QED
      BY <2>1, <2>2, <2>3
  <1>3. CASE Crash
    <2>1. revs' = revs /\ now' = now /\ \A g \in Handlers : pc'[g] = "idle"
      BY <1>3 DEF Crash
    <2>2. QED
      BY <1>1, <2>1, TimesKept
  <1>4. CASE DeleteBackup \/ Tick \/ UNCHANGED vars
    <2>1. UNCHANGED <<revs, pc, req>> /\ now' \in Nat /\ now <= now'
      BY <1>1, <1>4 DEF DeleteBackup, Tick, vars
    <2>2. QED
      BY <1>1, <2>1, TimesKept
  <1>5. QED
    BY <1>2, <1>3, <1>4 DEF Next

\* A request stays alone with its file while others work on other files.
LEMMA AloneKept ==
  ASSUME NEW g \in Handlers, Alone(g), pc'[g] = pc[g], req'[g] = req[g],
         pc[g] # "idle" =>
           /\ disk'[PathOf(g)] = disk[PathOf(g)]
           /\ Live(PathOf(g))' = Live(PathOf(g))
           /\ \A i \in Live(PathOf(g)) : revs'[i].prev = revs[i].prev
  PROVE  Alone(g)'
  <1>1. CASE pc[g] = "idle"
    BY <1>1 DEF Alone
  <1>2. CASE pc[g] # "idle"
    <2>1. PathOf(g)' = PathOf(g)
      BY DEF PathOf
    <2>2. LastSaved(PathOf(g), req[g].seen) => LastSaved(PathOf(g), req[g].seen)'
      BY <1>2, <2>1 DEF LastSaved
    <2>3. QED
      BY <1>2, <2>1, <2>2 DEF Alone
  <1>3. QED
    BY <1>1, <1>2

\* The rows of another path than that of the step stay as they are.
LEMMA RowsElsewhere ==
  ASSUME IInv, RowsOfTheirFile, OneFilePerId, NEW h \in Handlers,
         CommitRevision(h) \/ MarkCorrupted(h) \/ MarkReverted(h),
         NEW p \in Paths, p # PathOf(h)
  PROVE  Live(p)' = Live(p) /\ \A i \in Live(p) : revs'[i].prev = revs[i].prev
  <1>1. CASE CommitRevision(h)
    <2>1. /\ DOMAIN revs' = DOMAIN revs \cup {NextRev} /\ NextRev \notin DOMAIN revs
          /\ \A i \in DOMAIN revs : revs'[i] = revs[i]
          /\ revs'[NextRev] = CompletedRow(h)
      BY <1>1 DEF CommitRevision, NextRev, IInv, TypeOK
    <2>2. CompletedRow(h).path # p
      BY DEF CompletedRow
    <2>3. QED
      BY <2>1, <2>2 DEF Live
  <1>2. CASE MarkCorrupted(h) \/ MarkReverted(h)
    <2>1. PICK r \in DOMAIN revs, status \in {"corrupted", "reverted"} :
            revs' = WithStatus(r, status) /\ revs[r].file = FileAt(h)
      BY <1>2 DEF MarkCorrupted, MarkReverted, IInv, RowsInv, HandlerInv, TargetInv,
         Completed
    <2>2. revs[r] \in Row /\ PathOf(h) \in Paths
      BY <1>2, RowFields DEF IInv, TypeOK, MarkCorrupted, MarkReverted
    <2>3. revs[r].path = PathOf(h)
      BY <2>1, <2>2 DEF RowsOfTheirFile, OneFilePerId, FileAt, Row
    <2>4. /\ DOMAIN revs' = DOMAIN revs
          /\ \A i \in DOMAIN revs : i # r => revs'[i] = revs[i]
      BY <2>1 DEF WithStatus, IInv, TypeOK
    <2>5. revs'[r].path = revs[r].path
      BY <2>1, <2>2 DEF WithStatus, Row, IInv, TypeOK
    <2>6. QED
      BY <2>3, <2>4, <2>5 DEF Live
  <1>3. QED
    BY <1>1, <1>2

\* The file of another request than that of the step stays as it is.
LEMMA DiskElsewhere ==
  ASSUME TypeOK, NEW h \in Handlers, BeginEdit(h) \/ BeginRevert(h) \/ Step(h),
         NEW p \in Paths, pc[h] # "idle" => p # PathOf(h)
  PROVE  disk'[p] = disk[p]
  <1>1. CASE Truncate(h) \/ WriteData(h) \/ WriteFails(h)
    BY <1>1 DEF Truncate, WriteData, WriteFails, TypeOK
  <1>2. CASE OpenFails(h)
    BY <1>2 DEF OpenFails, shared
  <1>3. CASE CommitRevision(h) \/ MarkCorrupted(h) \/ MarkReverted(h)
    BY <1>3 DEF CommitRevision, MarkCorrupted, MarkReverted
  <1>4. QED
    BY <1>1, <1>2, <1>3, QuietSteps DEF Step, BeginEdit, BeginRevert, shared

\* What the handler that takes a step knows of its file afterwards.
LEMMA AloneOwn ==
  ASSUME CalmInv, NEW h \in Handlers, BeginEdit(h) \/ BeginRevert(h) \/ Step(h)
  PROVE  Alone(h)'
  <1>1. TypeOK /\ Alone(h)
    BY DEF CalmInv, IInv
  <1>2. CASE pc'[h] \in {"idle", "read", "revert", "lookup", "load", "mark", "ropen",
                         "unlock"}
    BY <1>2 DEF Alone
  <1>3. CASE ReadPrevious(h)
    <2>1. /\ pc'[h] = "acquire" /\ disk' = disk /\ PathOf(h)' = PathOf(h)
          /\ req'[h].seen = disk[PathOf(h)]
      BY <1>1, <1>3 DEF ReadPrevious, Goto, Local, shared, TypeOK, Request, PathOf
    <2>2. QED
      BY <2>1 DEF Alone
  <1>4. ASSUME /\ pc[h] \in {"acquire", "insert", "backup"}
               /\ pc'[h] \in {"insert", "backup", "commit"}
               /\ disk' = disk /\ PathOf(h)' = PathOf(h) /\ req'[h].seen = req[h].seen
        PROVE  Alone(h)'
    BY <1>1, <1>4 DEF Alone
  <1>5. CASE AcquireFileLock(h) \/ InsertDraft(h) \/ SaveBackup(h)
    <2>1. CASE AcquireFileLock(h)
      BY <1>1, <1>2, <1>4, <2>1 DEF AcquireFileLock, Goto, PathOf, TypeOK
    <2>2. CASE InsertDraft(h)
      BY <1>1, <1>4, <2>2 DEF InsertDraft, Goto, Local, PathOf, TypeOK, Request
    <2>3. CASE SaveBackup(h)
      BY <1>1, <1>4, <2>3 DEF SaveBackup, Goto, PathOf, TypeOK
    <2>4. QED
      BY <1>5, <2>1, <2>2, <2>3
  <1>6. CASE CommitRevision(h)
    <2>1. /\ pc[h] = "commit" /\ pc'[h] = "release" /\ disk' = disk /\ req' = req
          /\ PathOf(h)' = PathOf(h)
      BY <1>1, <1>6 DEF CommitRevision, Goto, TypeOK, PathOf
    <2>2. /\ DOMAIN revs' = DOMAIN revs \cup {NextRev} /\ NextRev \in Nat
          /\ \A i \in DOMAIN revs : i \in Nat /\ i < NextRev
          /\ revs'[NextRev] = CompletedRow(h)
      BY <1>1, <1>6 DEF CommitRevision, NextRev, TypeOK
    <2>3. /\ CompletedRow(h).path = PathOf(h) /\ CompletedRow(h).prev = req[h].seen
          /\ CompletedRow(h).status = "completed"
      BY DEF CompletedRow
    <2>4. PICK n : n = NextRev
      OBVIOUS
    <2>5. n \in Live(PathOf(h))' /\ \A j \in Live(PathOf(h))' : j <= n
      BY <2>1, <2>2, <2>3, <2>4 DEF Live
    <2>6. LastSaved(PathOf(h), req[h].seen)'
      BY <2>1, <2>2, <2>3, <2>4, <2>5 DEF LastSaved
    <2>7. QED
      BY <1>1, <2>1, <2>6 DEF Alone
  <1>7. CASE ReleaseBeforeWrite(h)
    <2>1. /\ pc[h] = "release" /\ pc'[h] = "open" /\ UNCHANGED <<disk, revs, req>>
          /\ PathOf(h)' = PathOf(h)
      BY <1>1, <1>7 DEF ReleaseBeforeWrite, Goto, TypeOK, PathOf
    <2>2. LastSaved(PathOf(h), req[h].seen)'
      BY <1>1, <2>1 DEF Alone, LastSaved, Live
    <2>3. QED
      BY <1>1, <2>1, <2>2 DEF Alone
  <1>8. CASE Truncate(h)
    <2>1. /\ \/ pc[h] = "open" /\ pc'[h] = "write"
             \/ pc[h] = "ropen" /\ pc'[h] = "rwrite"
          /\ UNCHANGED <<revs, req>> /\ PathOf(h)' = PathOf(h)
          /\ PathOf(h) \in Paths
      BY <1>1, <1>8 DEF Truncate, Goto, TypeOK, PathOf
    <2>2. pc[h] = "open" => LastSaved(PathOf(h), req[h].seen)'
      BY <1>1, <2>1 DEF Alone, LastSaved, Live
    <2>3. disk'[PathOf(h)] = Empty
      BY <1>1, <1>8, <2>1 DEF Truncate, TypeOK
    <2>4. QED
      BY <2>1, <2>2, <2>3 DEF Alone
  <1>9. ASSUME \/ BeginEdit(h) \/ BeginRevert(h) \/ NoEdit(h) \/ Conflict(h)
               \/ InsertFails(h) \/ SaveBackupFails(h) \/ CommitFails(h)
               \/ ReleaseAndReply(h) \/ OpenFails(h) \/ WriteData(h) \/ WriteFails(h)
               \/ LookUpRevision(h) \/ NoRevision(h) \/ LoadBackup(h)
               \/ MarkCorrupted(h) \/ MarkReverted(h) \/ RevertFails(h)
        PROVE  pc'[h] \in {"idle", "read", "revert", "lookup", "load", "mark", "ropen",
                           "unlock"}
    <2> USE <1>1 DEF Goto, Reply, AfterWrite, TypeOK
    <2>1. CASE BeginEdit(h) \/ BeginRevert(h) \/ NoEdit(h) \/ Conflict(h)
      BY <2>1 DEF BeginEdit, BeginRevert, NoEdit, Conflict
    <2>2. CASE InsertFails(h) \/ SaveBackupFails(h) \/ CommitFails(h)
      BY <2>2 DEF InsertFails, SaveBackupFails, CommitFails
    <2>3. CASE ReleaseAndReply(h) \/ OpenFails(h) \/ WriteData(h) \/ WriteFails(h)
      BY <2>3 DEF ReleaseAndReply, OpenFails, WriteData, WriteFails
    <2>4. CASE LookUpRevision(h) \/ NoRevision(h) \/ LoadBackup(h)
      BY <2>4 DEF LookUpRevision, NoRevision, LoadBackup
    <2>5. CASE MarkCorrupted(h) \/ MarkReverted(h) \/ RevertFails(h)
      BY <2>5 DEF MarkCorrupted, MarkReverted, RevertFails
    <2>6. QED
      BY <1>9, <2>1, <2>2, <2>3, <2>4, <2>5
  <1>10. QED
    BY <1>2, <1>3, <1>5, <1>6, <1>7, <1>8, <1>9 DEF Step

LEMMA AloneNext ==
  ASSUME CalmInv, [Next]_vars
  PROVE  \A g \in Handlers : Alone(g)'
  <1>1. /\ TypeOK /\ OneRequestPerFile /\ \A g \in Handlers : Alone(g)
        /\ \A g \in Handlers : pc[g] # "idle" => PathOf(g) \in Paths
    BY DEF CalmInv, IInv, TypeOK
  <1>2. ASSUME NEW h \in Handlers, BeginEdit(h) \/ BeginRevert(h) \/ Step(h),
               NEW g \in Handlers, g # h
        PROVE  Alone(g)'
    <2>1. pc'[g] = pc[g] /\ req'[g] = req[g]
      BY <1>1, <1>2, StepFrame
    <2>2. ASSUME pc[g] # "idle"
          PROVE  /\ disk'[PathOf(g)] = disk[PathOf(g)]
                 /\ Live(PathOf(g))' = Live(PathOf(g))
                 /\ \A i \in Live(PathOf(g)) : revs'[i].prev = revs[i].prev
      <3>1. PICK p \in Paths : p = PathOf(g)
        BY <1>1, <2>2
      <3>2. pc[h] # "idle" => p # PathOf(h)
        BY <1>1, <1>2, <2>2, <3>1 DEF OneRequestPerFile, FileAt
      <3>3. disk'[p] = disk[p]
        BY <1>1, <1>2, <3>2, DiskElsewhere
      <3>4. Live(p)' = Live(p) /\ \A i \in Live(p) : revs'[i].prev = revs[i].prev
        <4>1. CASE CommitRevision(h) \/ MarkCorrupted(h) \/ MarkReverted(h)
          <5>1. pc[h] # "idle"
            BY <4>1 DEF CommitRevision, MarkCorrupted, MarkReverted
          <5>2. QED
            BY <3>2, <4>1, <5>1, RowsElsewhere DEF CalmInv
        <4>2. CASE ~CommitRevision(h) /\ ~MarkCorrupted(h) /\ ~MarkReverted(h)
          <5>1. revs' = revs
            BY <1>1, <1>2, <4>2, DraftFrame
          <5>2. QED
            BY <5>1 DEF Live
        <4>3. QED
          BY <4>1, <4>2
      <3>5. PathOf(g)' = p
        BY <2>1, <3>1 DEF PathOf
      <3>6. QED
        BY <3>1, <3>3, <3>4, <3>5 DEF Live
    <2>3. QED
      BY <1>1, <2>1, <2>2, AloneKept
  <1>3. ASSUME Crash \/ DeleteBackup \/ Tick \/ UNCHANGED vars, NEW g \in Handlers
        PROVE  Alone(g)'
    <2>1. CASE Crash
      BY <2>1 DEF Crash, Alone
    <2>2. CASE DeleteBackup \/ Tick \/ UNCHANGED vars
      <3>1. UNCHANGED <<disk, revs, pc, req>>
        BY <2>2 DEF DeleteBackup, Tick, vars
      <3>2. QED
        BY <1>1, <3>1 DEF Alone, LastSaved, Live, PathOf
    <2>3. QED
      BY <1>3, <2>1, <2>2
  <1>4. QED
    BY <1>2, <1>3, AloneOwn DEF Next

LEMMA CalmInvNext == CalmInv /\ [CalmNext]_vars => CalmInv'
  <1> SUFFICES ASSUME CalmInv, [CalmNext]_vars PROVE CalmInv'
    OBVIOUS
  <1>1. [Next]_vars
    BY DEF CalmNext
  <1>2. IInv' /\ TimesInOrder' /\ RowsOfTheirFile'
    BY <1>1, IInvNext, TimesNext DEF CalmInv
  <1>3. \A g \in Handlers : Alone(g)'
    BY <1>1, AloneNext
  <1>4. OneRequestPerFile' /\ SecondsApart'
    <2>1. CASE CalmNext
      BY <2>1 DEF CalmNext
    <2>2. CASE UNCHANGED vars
      BY <2>2 DEF vars, CalmInv, OneRequestPerFile, SecondsApart, FileAt, PathOf
    <2>3. QED
      BY <2>1, <2>2
  <1>5. QED
    BY <1>2, <1>3, <1>4 DEF CalmInv, OneFilePerId

LEMMA CalmInit == OneFilePerId /\ Init => CalmInv /\ Undo!UInit
  <1> SUFFICES ASSUME OneFilePerId, Init PROVE CalmInv /\ Undo!UInit
    OBVIOUS
  <1>1. IInv /\ revs = <<>> /\ \A g \in Handlers : pc[g] = "idle"
    BY IInvInit DEF Init
  <1>2. OneRequestPerFile /\ SecondsApart /\ \A g \in Handlers : Alone(g)
    BY <1>1 DEF OneRequestPerFile, SecondsApart, Alone
  <1>3. TimesInOrder /\ RowsOfTheirFile
    BY <1>1 DEF TimesInOrder, DraftTime, RowsOfTheirFile
  <1>4. \A p \in Paths : DOMAIN MappedHistory[p] = {}
    BY <1>1 DEF MappedHistory, Live
  <1>5. MappedContent \in [Paths -> Versions]
    BY <1>1, <1>2, MappedType DEF IInv, MappedTypeOK
  <1>6. QED
    BY <1>1, <1>2, <1>3, <1>4, <1>5 DEF CalmInv, Undo!UInit

\* For any number of requests, files and rows and whatever fails: when requests
\* for one file come one by one, a second apart, and committed reverts run to
\* their end, edits and handleRevertFile implement an undo log of each file.
THEOREM CalmEditingIsUndoLog == CalmSpec => ImplementsUndoLog
  <1>1. CalmInv /\ CalmInv' /\ [CalmNext]_vars => [Undo!UNext]_(Undo!uvars)
    BY StepMaps
  <1>2. QED
    BY <1>1, CalmInit, CalmInvNext, PTL DEF CalmSpec, ImplementsUndoLog, Undo!USpec
=============================================================================
