---------------------------- MODULE FileFindings ----------------------------
(***************************************************************************)
(* What the documentation says of editing and reverting, checked against   *)
(* what the handlers do.  Each property fails in its configuration, for    *)
(* the reason its comment gives.                                           *)
(***************************************************************************)
EXTENDS FileRevisions, TLC

CONSTANTS h1, h2, p1, p2, c1, c2

DistinctFiles == [p \in Paths |-> p]

\* Two names of different files that differ in case only, where case matters:
\* GenerateMD5Hash lower-cases the path, so both have one file id.
CaseInsensitiveFiles == [p \in Paths |-> p1]

Symmetry == Permutations(Handlers) \cup Permutations(Contents)

\* "Prevents concurrent editing conflicts": a file that an edit is about to
\* overwrite still holds what the edit saved.  It fails because the file is
\* read before the lock is taken and written after it is released.
NoLostUpdate ==
  \A h \in Handlers : pc[h] = "open" => disk[PathOf(h)] = req[h].seen

\* "file is currently being edited by another process": a lock file that
\* makes requests fail belongs to a request.  It fails because a lock file
\* outlives the process and nothing removes it at start-up.
ConflictMeansEditing ==
  \A f \in locks : \E h \in Handlers : pc[h] \in Critical /\ FileAt(h) = f

\* "copies it back to the original location": a revert that has used up a
\* revision leaves its content in the file.  It fails because the row is
\* committed as reverted before the file is written.
RevertedMeansRestored ==
  [][\A h \in Handlers :
       pc[h] \in {"ropen", "rwrite"} /\ pc'[h] \notin {"ropen", "rwrite"}
         => disk'[PathOf(h)] = req[h].data]_vars

\* "Finds the most recent completed revision": no later completed revision of
\* the file exists.  It fails for two edits within a second, because rows are
\* ordered by a timestamp in seconds.
RevertsMostRecent ==
  \A h \in Handlers : pc[h] = "load" =>
    \A j \in Completed(FileAt(h)) : j <= req[h].rid

\* "copies it back to the original location": the revision was made from the
\* path it is copied to.  It fails because the file id ignores case.
RevertsOwnFile ==
  \A h \in Handlers : pc[h] = "ropen" => revs[req[h].rid].path = PathOf(h)
=============================================================================
