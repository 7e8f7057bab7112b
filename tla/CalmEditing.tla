----------------------------- MODULE CalmEditing -----------------------------
(***************************************************************************)
(* FileRevisions in the environment in which it keeps the promise of       *)
(* UndoLog: different files have different ids, requests for one file come *)
(* one after the other, at least a second apart, and reverts, once they    *)
(* are committed, run to their end.  Requests for different files overlap  *)
(* freely, edits may fail or crash anywhere and backups may disappear.     *)
(* FileFindings shows what happens when each of these assumptions is       *)
(* dropped.                                                                *)
(***************************************************************************)
EXTENDS FileRevisions

\* No two files whose names differ in case only.
OneFilePerId == \A p, q \in Paths : FileOf[p] = FileOf[q] => p = q

\* No two requests in progress for one file id.
OneRequestPerFile ==
  \A g, h \in Handlers :
    g # h /\ pc[g] # "idle" /\ pc[h] # "idle" => FileAt(g) # FileAt(h)

\* No two completed revisions of a file within one second.
SecondsApart ==
  \A i, j \in DOMAIN revs :
    /\ i # j /\ revs[i].file = revs[j].file
    /\ revs[i].status = "completed" /\ revs[j].status = "completed"
    => revs[i].at # revs[j].at

\* A revert that has been committed is not cut short by this step.
CommittedRevertGoesOn ==
  \A h \in Handlers : pc[h] \in {"ropen", "rwrite"} =>
    ~Crash /\ ~OpenFails(h) /\ ~WriteFails(h)

CalmNext == Next /\ CommittedRevertGoesOn /\ OneRequestPerFile' /\ SecondsApart'

CalmSpec == OneFilePerId /\ Init /\ [][CalmNext]_vars

\* A file in the middle of an edit's write still counts as what it was; one
\* whose revert is committed counts as reverted.
MappedContent ==
  [p \in Paths |->
     IF \E h \in Handlers : pc[h] = "write" /\ PathOf(h) = p
     THEN req[CHOOSE h \in Handlers : pc[h] = "write" /\ PathOf(h) = p].seen
     ELSE IF \E h \in Handlers : pc[h] \in {"ropen", "rwrite"} /\ PathOf(h) = p
     THEN req[CHOOSE h \in Handlers :
                pc[h] \in {"ropen", "rwrite"} /\ PathOf(h) = p].data
     ELSE disk[p]]

\* The revisions of p that are neither reverted nor corrupted.
Live(p) == {i \in DOMAIN revs : revs[i].path = p /\ revs[i].status = "completed"}

\* The saved contents of a file are what its completed revisions replaced.
MappedHistory == [p \in Paths |-> [i \in Live(p) |-> revs[i].prev]]

Undo == INSTANCE UndoLog WITH content <- MappedContent, history <- MappedHistory

\* An edit, however it ends, leaves what it replaced at the end of the undo
\* log of its file, and a revert takes back exactly that: createFileRevision,
\* the write after it, and handleRevertFile implement the undo log.
ImplementsUndoLog == Undo!USpec
=============================================================================
