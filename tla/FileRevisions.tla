---------------------------- MODULE FileRevisions ----------------------------
(***************************************************************************)
(* Editing and reverting game-server files.                                *)
(*                                                                         *)
(* HTTP handlers (goroutines) edit a file or revert it to its last         *)
(* completed revision.  An edit reads the file, takes the lock file of its *)
(* file id, records a revision (a row in SQLite and a backup copy on       *)
(* disk), releases the lock, and only then overwrites the file.  A revert  *)
(* does all of its work under the lock.                                    *)
(*                                                                         *)
(* The agent may die at any step (nothing in it survives a signal), the    *)
(* disk or the database may fail a call, a lock file may resist removal    *)
(* and an operator may delete a backup: Faults says which of these happen. *)
(***************************************************************************)
EXTENDS Naturals, Sequences

CONSTANTS
  Handlers,    \* requests the server may be serving at one time
  Paths,       \* cleaned paths of existing files
  FileOf,      \* path -> file id (the MD5 of the lower-cased path)
  SizedPaths,  \* NPC files: the type is decided by the size of the content
  Contents,    \* whole, valid file contents
  Empty,       \* a file that was truncated and not yet written
  Torn,        \* part of a content, or a mixture of two
  Absent,      \* no such backup file
  None,        \* no handler, no path, no content
  Faults,      \* which faults the environment injects
  MaxRev,      \* bound: rows the revision table takes
  MaxNow       \* bound: seconds that pass

FaultKinds == {"crash", "io", "db", "unlock", "operator"}

Versions == Contents \cup {Empty, Torn}
FileIds  == {FileOf[p] : p \in Paths}

ASSUME PathsAssumption == SizedPaths \subseteq Paths /\ None \notin Paths
ASSUME ValuesAssumption ==
  /\ Absent \notin Versions
  /\ None \notin Versions
  /\ None \notin Handlers
  /\ Empty \notin Contents
  /\ Torn \notin Contents
ASSUME BoundsAssumption == MaxRev \in Nat /\ MaxNow \in Nat /\ Faults \subseteq FaultKinds

VARIABLES
  disk,     \* path -> what the file holds
  locks,    \* file ids whose lock file exists
  revs,     \* committed rows of file_revisions; the id of a row is its index
  backups,  \* <<file id, revision id>> -> the copy in the revisions directory
  writer,   \* handler whose transaction holds SQLite's write lock, or None
  now,      \* the clock in seconds, the resolution of CURRENT_TIMESTAMP
  pc,       \* where each handler is
  req       \* the locals of each handler

shared == <<disk, locks, revs, backups, writer, now>>
vars   == <<disk, locks, revs, backups, writer, now, pc, req>>

-----------------------------------------------------------------------------
(* Handlers.                                                               *)

EditSteps   == {"read", "acquire", "insert", "backup", "commit", "release",
                "open", "write"}
RevertSteps == {"revert", "lookup", "load", "mark", "ropen", "rwrite"}
Steps       == EditSteps \cup RevertSteps \cup {"idle", "unlock"}

\* Steps taken between acquireFileLock and the deferred releaseFileLock.
Critical == {"insert", "backup", "commit", "release",
             "lookup", "load", "mark", "ropen", "rwrite", "unlock"}

\* data: what will be written to path; seen: what an edit read before it;
\* rid: the revision a revert chose; at: created_at of the draft row.
Request == [path : Paths \cup {None},
            data : Versions \cup {None},
            seen : Versions \cup {None},
            rid  : Nat,
            at   : Nat]

NoRequest == [path |-> None, data |-> None, seen |-> None, rid |-> 0, at |-> 0]

PathOf(h) == req[h].path
FileAt(h) == FileOf[PathOf(h)]

Row == [file : FileIds, path : Paths, prev : Versions, curr : Versions,
        at : Nat, status : {"completed", "reverted", "corrupted"}]

Goto(h, step)      == pc' = [pc EXCEPT ![h] = step]
Local(h, changed)  == req' = [req EXCEPT ![h] = changed]
\* The handler replies and returns.
Reply(h)           == Goto(h, "idle") /\ Local(h, NoRequest)

Init ==
  /\ disk \in [Paths -> Contents]
  /\ locks = {}
  /\ revs = <<>>
  /\ backups = [b \in FileIds \X (1..MaxRev) |-> Absent]
  /\ writer = None
  /\ now = 0
  /\ pc = [h \in Handlers |-> "idle"]
  /\ req = [h \in Handlers |-> NoRequest]

-----------------------------------------------------------------------------
(* The lock file and the rows of the revision table.                       *)

\* Mutant: the lock file is opened without O_EXCL.
LockFreeWithoutExcl(f) == TRUE

\* OpenFile with O_CREATE|O_EXCL succeeds.
LockFree(f) == f \notin locks

\* The id the next INSERT gets: ids of rolled-back rows are handed out again.
NextRev == Len(revs) + 1

\* The row a successful edit commits.
CompletedRow(h) ==
  [file |-> FileAt(h), path |-> PathOf(h), prev |-> req[h].seen,
   curr |-> req[h].data, at |-> req[h].at, status |-> "completed"]

\* Mutant: the copy is taken from the file again instead of from what was read.
BackupReadAgain(h) == disk[PathOf(h)]

\* What an edit copies to the revisions directory.
BackupContent(h) == req[h].seen

\* Mutant: the query forgets the file.
CompletedOfAnyFile(f) == {i \in DOMAIN revs : revs[i].status = "completed"}

Completed(f) ==
  {i \in DOMAIN revs : revs[i].file = f /\ revs[i].status = "completed"}

\* Mutant: the query forgets DESC.
Oldest(f) ==
  {i \in Completed(f) : \A j \in Completed(f) : revs[i].at <= revs[j].at}

\* ORDER BY created_at DESC LIMIT 1 returns any row of the latest second.
Newest(f) ==
  {i \in Completed(f) : \A j \in Completed(f) : revs[j].at <= revs[i].at}

\* Mutant: the UPDATE selects by file instead of by id.
WholeFileWithStatus(i, status) ==
  [j \in DOMAIN revs |-> IF revs[j].file = revs[i].file
                         THEN [revs[j] EXCEPT !.status = status] ELSE revs[j]]

WithStatus(i, status) == [revs EXCEPT ![i].status = status]

\* A statement that writes: SQLITE_BUSY while another transaction writes.
CanWrite == writer = None
DBFails  == "db" \in Faults \/ ~CanWrite

-----------------------------------------------------------------------------
(* Editing.                                                                *)

\* The route decides from the path and the size that the file is editable.
BeginEdit(h) ==
  /\ pc[h] = "idle"
  /\ \E p \in Paths, c \in Contents :
       /\ p \in SizedPaths => disk[p] \in Contents
       /\ Goto(h, "read")
       /\ Local(h, [NoRequest EXCEPT !.path = p, !.data = c])
  /\ UNCHANGED shared

\* previousData is read before the lock is taken.
ReadPrevious(h) ==
  /\ pc[h] = "read"
  /\ disk[PathOf(h)] # req[h].data
  /\ Goto(h, "acquire")
  /\ Local(h, [req[h] EXCEPT !.seen = disk[PathOf(h)]])
  /\ UNCHANGED shared

\* "No changes detected", or the file cannot be read.
NoEdit(h) ==
  /\ pc[h] = "read"
  /\ disk[PathOf(h)] = req[h].data \/ "io" \in Faults
  /\ Reply(h)
  /\ UNCHANGED shared

AcquireFileLock(h) ==
  /\ pc[h] \in {"acquire", "revert"}
  /\ LockFree(FileAt(h))
  /\ locks' = locks \cup {FileAt(h)}
  /\ Goto(h, IF pc[h] = "acquire" THEN "insert" ELSE "lookup")
  /\ UNCHANGED <<disk, revs, backups, writer, now, req>>

\* Mutant: a request polls until the lock file is gone.
WaitForLock(h) ==
  /\ pc[h] \in {"acquire", "revert"}
  /\ ~LockFree(FileAt(h))
  /\ UNCHANGED vars

\* "file is currently being edited by another process": nobody waits.
Conflict(h) ==
  /\ pc[h] \in {"acquire", "revert"}
  /\ ~LockFree(FileAt(h)) \/ "io" \in Faults
  /\ Reply(h)
  /\ UNCHANGED shared

InsertDraft(h) ==
  /\ pc[h] = "insert"
  /\ CanWrite
  /\ Len(revs) < MaxRev
  /\ writer' = h
  /\ Local(h, [req[h] EXCEPT !.at = now])
  /\ Goto(h, "backup")
  /\ UNCHANGED <<disk, locks, revs, backups, now>>

InsertFails(h) ==
  /\ pc[h] = "insert"
  /\ DBFails \/ Len(revs) = MaxRev
  /\ Goto(h, "unlock")
  /\ UNCHANGED <<shared, req>>

SaveBackup(h) ==
  /\ pc[h] = "backup"
  /\ backups' = [backups EXCEPT ![<<FileAt(h), NextRev>>] = BackupContent(h)]
  /\ Goto(h, "commit")
  /\ UNCHANGED <<disk, locks, revs, writer, now, req>>

\* MkdirAll or WriteFile fails; RemoveAll cleans up unless it fails too.
SaveBackupFails(h) ==
  /\ pc[h] = "backup"
  /\ "io" \in Faults
  /\ \E left \in {backups[<<FileAt(h), NextRev>>], Absent, Torn} :
       backups' = [backups EXCEPT ![<<FileAt(h), NextRev>>] = left]
  /\ writer' = None
  /\ Goto(h, "unlock")
  /\ UNCHANGED <<disk, locks, revs, now, req>>

\* UpdateFileRevisionPath, UpdateFileRevisionStatus "completed", Commit.
CommitRevision(h) ==
  /\ pc[h] = "commit"
  /\ revs' = Append(revs, CompletedRow(h))
  /\ writer' = None
  /\ Goto(h, "release")
  /\ UNCHANGED <<disk, locks, backups, now, req>>

\* One of the three fails: the backup is removed, then the row rolled back.
CommitFails(h) ==
  /\ pc[h] = "commit"
  /\ "db" \in Faults
  /\ \/ backups' = [backups EXCEPT ![<<FileAt(h), NextRev>>] = Absent]
     \/ "io" \in Faults /\ UNCHANGED backups
  /\ writer' = None
  /\ Goto(h, "unlock")
  /\ UNCHANGED <<disk, locks, revs, now, req>>

\* releaseFileLock: a lock file that cannot be removed is only logged.
RemoveLock(h) ==
  \/ locks' = locks \ {FileAt(h)}
  \/ "unlock" \in Faults /\ UNCHANGED locks

\* The lock of a successful edit is gone before the file is written.
ReleaseBeforeWrite(h) ==
  /\ pc[h] = "release"
  /\ RemoveLock(h)
  /\ Goto(h, "open")
  /\ UNCHANGED <<disk, revs, backups, writer, now, req>>

\* The deferred release of a failed edit and of every revert.
ReleaseAndReply(h) ==
  /\ pc[h] = "unlock"
  /\ RemoveLock(h)
  /\ Reply(h)
  /\ UNCHANGED <<disk, revs, backups, writer, now>>

-----------------------------------------------------------------------------
(* Overwriting the file: os.Create or os.WriteFile truncates, then writes. *)

\* Where a handler goes when it is done with the file.
AfterWrite(h) ==
  IF pc[h] \in {"open", "write"} THEN Reply(h) ELSE Goto(h, "unlock") /\ UNCHANGED req

Truncate(h) ==
  /\ pc[h] \in {"open", "ropen"}
  /\ disk' = [disk EXCEPT ![PathOf(h)] = Empty]
  /\ Goto(h, IF pc[h] = "open" THEN "write" ELSE "rwrite")
  /\ UNCHANGED <<locks, revs, backups, writer, now, req>>

OpenFails(h) ==
  /\ pc[h] \in {"open", "ropen"}
  /\ "io" \in Faults
  /\ AfterWrite(h)
  /\ UNCHANGED shared

\* Bytes another writer put beyond the end of the new content stay; whole NPC
\* files all have one length.
Leftover(h) ==
  /\ disk[PathOf(h)] # Empty
  /\ ~(PathOf(h) \in SizedPaths /\ req[h].data \in Contents)

WriteData(h) ==
  /\ pc[h] \in {"write", "rwrite"}
  /\ \/ disk' = [disk EXCEPT ![PathOf(h)] = req[h].data]
     \/ Leftover(h) /\ disk' = [disk EXCEPT ![PathOf(h)] = Torn]
  /\ AfterWrite(h)
  /\ UNCHANGED <<locks, revs, backups, writer, now>>

WriteFails(h) ==
  /\ pc[h] \in {"write", "rwrite"}
  /\ "io" \in Faults
  /\ \E result \in {disk[PathOf(h)], Torn} :
       disk' = [disk EXCEPT ![PathOf(h)] = result]
  /\ AfterWrite(h)
  /\ UNCHANGED <<locks, revs, backups, writer, now>>

-----------------------------------------------------------------------------
(* Reverting.                                                              *)

BeginRevert(h) ==
  /\ pc[h] = "idle"
  /\ \E p \in Paths :
       /\ Goto(h, "revert")
       /\ Local(h, [NoRequest EXCEPT !.path = p])
  /\ UNCHANGED shared

\* GetLastCompletedFileRevision.
LookUpRevision(h) ==
  /\ pc[h] = "lookup"
  /\ \E i \in Newest(FileAt(h)) : Local(h, [req[h] EXCEPT !.rid = i])
  /\ Goto(h, "load")
  /\ UNCHANGED shared

\* Mutant: the release is deferred only once a revision was found.
NoRevisionKeepsLock(h) ==
  /\ pc[h] = "lookup"
  /\ Newest(FileAt(h)) = {} \/ "db" \in Faults
  /\ Reply(h)
  /\ UNCHANGED shared

NoRevision(h) ==
  /\ pc[h] = "lookup"
  /\ Newest(FileAt(h)) = {} \/ "db" \in Faults
  /\ Goto(h, "unlock")
  /\ UNCHANGED <<shared, req>>

\* Mutant: the copy of the last row, not of the row found.
LastBackup(h) == backups[<<FileAt(h), Len(revs)>>]

BackupOf(h) == backups[<<FileAt(h), req[h].rid>>]

LoadBackup(h) ==
  /\ pc[h] = "load"
  /\ BackupOf(h) # Absent
  /\ Local(h, [req[h] EXCEPT !.data = BackupOf(h)])
  /\ Goto(h, "mark")
  /\ UNCHANGED shared

MarkCorrupted(h) ==
  /\ pc[h] = "load"
  /\ BackupOf(h) = Absent
  /\ CanWrite
  /\ revs' = WithStatus(req[h].rid, "corrupted")
  /\ Goto(h, "unlock")
  /\ UNCHANGED <<disk, locks, backups, writer, now, req>>

\* The row is committed as reverted before the file is written.
MarkReverted(h) ==
  /\ pc[h] = "mark"
  /\ CanWrite
  /\ revs' = WithStatus(req[h].rid, "reverted")
  /\ Goto(h, "ropen")
  /\ UNCHANGED <<disk, locks, backups, writer, now, req>>

RevertFails(h) ==
  /\ \/ pc[h] = "load" /\ BackupOf(h) # Absent /\ "io" \in Faults
     \/ pc[h] = "load" /\ BackupOf(h) = Absent /\ DBFails
     \/ pc[h] = "mark" /\ DBFails
  /\ Goto(h, "unlock")
  /\ UNCHANGED <<shared, req>>

-----------------------------------------------------------------------------
(* The environment.                                                        *)

\* The process dies: transactions roll back, lock files and backups stay, a
\* file being written holds what reached it.
Crash ==
  /\ "crash" \in Faults
  /\ \E half \in SUBSET {PathOf(h) : h \in {g \in Handlers : pc[g] \in {"write", "rwrite"}}} :
       disk' = [p \in Paths |-> IF p \in half THEN Torn ELSE disk[p]]
  /\ writer' = None
  /\ pc' = [h \in Handlers |-> "idle"]
  /\ req' = [h \in Handlers |-> NoRequest]
  /\ UNCHANGED <<locks, revs, backups, now>>

\* Someone cleans up the revisions directory by hand.
DeleteBackup ==
  /\ "operator" \in Faults
  /\ \E b \in FileIds \X (1..MaxRev) : backups' = [backups EXCEPT ![b] = Absent]
  /\ UNCHANGED <<disk, locks, revs, writer, now, pc, req>>

Tick ==
  /\ now < MaxNow
  /\ now' = now + 1
  /\ UNCHANGED <<disk, locks, revs, backups, writer, pc, req>>

\* A step of a request in progress.
Step(h) ==
  \/ ReadPrevious(h) \/ NoEdit(h)
  \/ AcquireFileLock(h) \/ Conflict(h)
  \/ InsertDraft(h) \/ InsertFails(h)
  \/ SaveBackup(h) \/ SaveBackupFails(h)
  \/ CommitRevision(h) \/ CommitFails(h)
  \/ ReleaseBeforeWrite(h) \/ ReleaseAndReply(h)
  \/ Truncate(h) \/ OpenFails(h)
  \/ WriteData(h) \/ WriteFails(h)
  \/ LookUpRevision(h) \/ NoRevision(h)
  \/ LoadBackup(h) \/ MarkCorrupted(h) \/ MarkReverted(h) \/ RevertFails(h)

Next ==
  \/ \E h \in Handlers : BeginEdit(h) \/ BeginRevert(h) \/ Step(h)
  \/ Crash
  \/ DeleteBackup
  \/ Tick

Spec == Init /\ [][Next]_vars

\* A goroutine that can take a step is eventually scheduled; no request has
\* to arrive and no fault has to happen.
FairSpec == Spec /\ \A h \in Handlers : WF_vars(Step(h))

-----------------------------------------------------------------------------
(* Properties.                                                             *)

\* Every variable has its type, a request in progress has a path (and, past
\* the steps that set them, the contents it will use), and the rows fit.
TypeOK ==
  /\ disk \in [Paths -> Versions]
  /\ locks \subseteq FileIds
  /\ revs \in Seq(Row)
  /\ backups \in [FileIds \X (1..MaxRev) -> Versions \cup {Absent}]
  /\ writer \in Handlers \cup {None}
  /\ now \in Nat
  /\ pc \in [Handlers -> Steps]
  /\ req \in [Handlers -> Request]
  /\ \A h \in Handlers :
       /\ pc[h] # "idle" => PathOf(h) \in Paths
       /\ pc[h] \in EditSteps \cup {"mark", "ropen", "rwrite"} => req[h].data \in Versions
       /\ pc[h] \in EditSteps \ {"read"} => req[h].seen \in Versions

\* Between acquireFileLock and releaseFileLock a handler is alone with its
\* file id: no other request edits or reverts the same file in that section.
LockExclusion ==
  \A g, h \in Handlers :
    g # h /\ pc[g] \in Critical /\ pc[h] \in Critical => FileAt(g) # FileAt(h)

\* A completed revision can be reverted to: its copy holds what the edit read,
\* whatever failed or crashed before and whichever ids were handed out twice
\* (unless an operator deleted the copy).
CompletedHasBackup ==
  \A i \in DOMAIN revs :
    revs[i].status = "completed" =>
      \/ backups[<<revs[i].file, i>>] = revs[i].prev
      \/ "operator" \in Faults /\ backups[<<revs[i].file, i>>] = Absent

\* The revision a revert looked up is still completed and still the latest of
\* its file when the revert marks it: nothing was committed in between.
RevertTargetsLatest ==
  \A h \in Handlers : pc[h] \in {"load", "mark"} =>
    /\ req[h].rid \in Completed(FileAt(h))
    /\ \A j \in Completed(FileAt(h)) : revs[j].at <= revs[req[h].rid].at

\* What a revert writes is the previous content of a revision of that file id
\* that is marked reverted and that no other revert is writing.
RevertWritesItsRevision ==
  \A h \in Handlers : pc[h] \in {"ropen", "rwrite"} =>
    /\ req[h].rid \in DOMAIN revs
    /\ revs[req[h].rid].file = FileAt(h)
    /\ revs[req[h].rid].status = "reverted"
    /\ revs[req[h].rid].prev = req[h].data
    /\ \A g \in Handlers \ {h} :
         pc[g] \in {"load", "mark", "ropen", "rwrite"} => req[g].rid # req[h].rid

\* Revision history is append-only: a step changes at most one row, only its
\* status, only once (completed to reverted, or to corrupted when the copy is
\* gone), and no row is ever removed.
HistoryStep ==
  LET changed == {i \in DOMAIN revs : i \notin DOMAIN revs' \/ revs'[i] # revs[i]}
  IN  /\ \A i, j \in changed : i = j
      /\ \A i \in changed :
           /\ i \in DOMAIN revs'
           /\ revs[i].status = "completed"
           /\ \/ revs'[i] = [revs[i] EXCEPT !.status = "reverted"]
              \/ /\ revs'[i] = [revs[i] EXCEPT !.status = "corrupted"]
                 /\ backups[<<revs[i].file, i>>] = Absent

HistoryAppendOnly == [][HistoryStep]_vars

\* Every request is answered, whatever other requests, the disk and the
\* database do: nobody waits for a lock file or for SQLite's write lock.
RequestsAnswered == \A h \in Handlers : pc[h] # "idle" ~> pc[h] = "idle"

\* A lock file is always removed again (while the process lives and lock
\* files can be removed).
LocksReleased == \A f \in FileIds : f \in locks ~> f \notin locks
=============================================================================
