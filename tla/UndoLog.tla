------------------------------- MODULE UndoLog -------------------------------
(***************************************************************************)
(* What the revisions of a file are for: every content an edit replaces    *)
(* was saved first, and reverting goes back through the saved contents, the *)
(* last one first.  Saved contents are numbered; the last one saved has the *)
(* greatest number.                                                        *)
(***************************************************************************)
EXTENDS Naturals

CONSTANTS Paths, Versions

VARIABLES
  content,  \* path -> what the file holds, as far as its users can tell
  history   \* path -> number -> saved content

uvars == <<content, history>>

\* The number of the content of p that was saved last.
IsLast(p, n) ==
  /\ n \in DOMAIN history[p]
  /\ \A m \in DOMAIN history[p] : m <= n

\* What is saved of p without number n.
Without(p, n) == [m \in DOMAIN history[p] \ {n} |-> history[p][m]]

UInit ==
  /\ content \in [Paths -> Versions]
  /\ \A p \in Paths : DOMAIN history[p] = {}

\* The content is saved, under a new greatest number, before it is touched.
Save(p) ==
  /\ \E n \in DOMAIN history'[p] :
       /\ \A m \in DOMAIN history[p] : m < n
       /\ history' = [history EXCEPT ![p] =
                        [m \in DOMAIN history[p] \cup {n} |->
                           IF m = n THEN content[p] ELSE history[p][m]]]
  /\ UNCHANGED content

\* Only saved contents are replaced, by anything: a write may go wrong, and a
\* crash ends the writes of several files at once.
Replace ==
  /\ content' \in [Paths -> Versions]
  /\ \A p \in Paths : content'[p] # content[p] =>
       \E n \in DOMAIN history[p] : IsLast(p, n) /\ history[p][n] = content[p]
  /\ UNCHANGED history

\* The last saved content comes back.
Restore(p) ==
  \E n \in DOMAIN history[p] :
    /\ IsLast(p, n)
    /\ content' = [content EXCEPT ![p] = history[p][n]]
    /\ history' = [history EXCEPT ![p] = Without(p, n)]

\* The last saved content turns out to be lost.
Forget(p) ==
  \E n \in DOMAIN history[p] :
    /\ IsLast(p, n)
    /\ history' = [history EXCEPT ![p] = Without(p, n)]
    /\ UNCHANGED content

UNext == Replace \/ \E p \in Paths : Save(p) \/ Restore(p) \/ Forget(p)

USpec == UInit /\ [][UNext]_uvars
=============================================================================
