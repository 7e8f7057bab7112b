----------------------------- MODULE MCAccounts -----------------------------
(***************************************************************************)
(* Instances of Accounts for TLC.                                          *)
(***************************************************************************)
EXTENDS Accounts, Integers, TLC

\* Nothing has happened so far that the code lets a session survive: a sign-in
\* to an account whose password is being replaced, a password set by a super
\* admin, a failure to end other sessions that are open.
VARIABLE settled

Unsettles ==
  \/ ~Calm
  \/ \E r \in Requests :
       \/ pc[r] = "writePassword" /\ users' # users
       \/ /\ pc[r] = "endOthers" /\ pc'[r] = "idle" /\ sessions' = sessions
          /\ \E s \in Others(work[r].user, work[r].session) : Open(s)

MCInit == Init /\ settled = TRUE
MCNext == Next /\ settled' = (settled /\ ~Unsettles)
MCSpec == MCInit /\ [][MCNext]_<<vars, settled>>

\* Updating a password logs out all other sessions: no session survives the
\* password it was opened with, unless something above has happened.
SettledSessionsEnd == settled => SessionsKnowPassword

\* Passwords that somebody sent, and those of accounts.
InUse == ({users[u].password : u \in {v \in Emails : Exists(v)}}
          \cup UNION {{work[r].password, work[r].current} : r \in Requests}) \ {None}

\* One account with two passwords, or two accounts and one password.
Small == \/ Cardinality({u \in Emails : Exists(u)}) <= 1
         \/ Cardinality(InUse) <= 1

Symmetry == Permutations(Requests) \cup Permutations(Emails)
            \cup Permutations(Passwords) \cup Permutations(SessionIds)
=============================================================================
