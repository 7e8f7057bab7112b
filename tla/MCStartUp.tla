----------------------------- MODULE MCStartUp -----------------------------
(***************************************************************************)
(* An instance of StartUp for TLC: two agents, and two migrations in the   *)
(* manner of internal_db.go, of one table and of two.                      *)
(***************************************************************************)
EXTENDS StartUp

Schema == << <<"users">>, <<"metric_series", "metric_samples">> >>
Rollbacks == << <<"users">>, <<"metric_samples", "metric_series">> >>
ForeignKeys ==
  [o \in Objects |-> IF o = "metric_samples" THEN {"metric_series"} ELSE {}]

\* Nothing has failed so far in a migration but a mark that was there.
VARIABLE sound

MCInit == StartInit /\ sound = TRUE
MCNext ==
  \E a \in Agents :
    \/ /\ \/ Configure(a) \/ Connect(a) \/ Listen(a) \/ Exit(a) \/ SignIn(a) \/ Kill(a)
          \/ Migrating(a) /\ (Check(a) \/ Statement(a) \/ Mark(a))
       /\ UNCHANGED sound
    \/ Migrating(a) /\ MarkFails(a) /\ sound' = (sound /\ work[a].at \in marks)
    \/ Migrating(a) /\ (CheckFails(a) \/ StatementFails(a)) /\ sound' = FALSE
MCSpec == MCInit /\ [][MCNext]_<<startVars, sound>>

\* Agents that start together do not all give up on each other's marks: as long
\* as nothing else failed, one of them goes on (or can be started again).
RaceIsHarmless == sound => SomebodyGoesOn
============================================================================
