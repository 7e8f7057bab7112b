---------------------------- MODULE MCClientData ----------------------------
(***************************************************************************)
(* Instances of ClientData for TLC.                                        *)
(***************************************************************************)
EXTENDS ClientData, TLC

CONSTANTS a, b  \* two names

\* Lists that are empty, disjoint, that overlap, and that name an id twice.
Lists ==
  LET entry(i, n) == [id |-> i, name |-> n]
  IN  { <<>>,
        <<entry(1, a)>>,
        <<entry(2, b)>>,
        <<entry(1, b), entry(2, a)>>,
        <<entry(1, a), entry(1, b)>>,
        <<entry(2, a), entry(1, a), entry(2, b)>> }

\* A file refused by MaxFileUploadSizeMb, or for its form, is shown to shrink no
\* table (README.md:131 lets an upload populate the map database): the handler
\* for maps answers an error and replaces the table all the same.
RefusedKeepsMaps ==
  [][~(tables["map"] \subseteq tables'["map"]) =>
       \E r \in Requests : /\ pc[r] = "delete" /\ pc'[r] # "delete"
                           /\ work[r].table = "map"
                           /\ work'[r].status \in {"none", "stored"}]_vars

\* No two uploads have overlapped so far.
VARIABLE calm

MCInit == Init /\ calm = TRUE
MCNext == Next /\ calm' = (calm /\ Calm)
MCSpec == MCInit /\ [][MCNext]_<<vars, calm>>

\* As long as no two uploads have overlapped, one that answers success has
\* replaced the table, whatever failed or died before it.
CalmReplaces ==
  [][\A r \in Requests :
       calm' /\ pc[r] # "done" /\ pc'[r] = "done" /\ work'[r].status = "stored" =>
         tables'[work[r].table] = RowsOf(r, work[r].file.entries)]_vars

Symmetry == Permutations(Requests)
=============================================================================
