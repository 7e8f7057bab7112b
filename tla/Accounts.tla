------------------------------ MODULE Accounts ------------------------------
(***************************************************************************)
(* Accounts and sessions of the agent: sign-up, sign-in, sign-out, change  *)
(* of one's password, and a super admin's change of another account.       *)
(*                                                                         *)
(* Every request is a goroutine that reads rows, decides (bcrypt takes     *)
(* long) and writes rows.  No two of these statements are in one           *)
(* transaction, so what a request decided on may be out of date when it    *)
(* writes.                                                                 *)
(***************************************************************************)
EXTENDS FiniteSets

CONSTANTS
  Requests,    \* requests the server may be serving at one time
  Emails,      \* e-mail addresses; an account is named by its address
  Passwords,   \* passwords of valid length
  SessionIds,  \* bound: the sessions handed out (UUIDs, never used again)
  Kinds,       \* kinds of requests that arrive
  Faults,      \* which faults the environment injects
  None         \* no account, no session, no user

RequestKinds == {"signUp", "signIn", "signOut", "updatePassword",
                 "setStatus", "setPassword"}
FaultKinds   == {"fail", "expire", "crash"}

ASSUME NoneAssumption == None \notin Emails \cup SessionIds \cup Passwords
ASSUME EnvironmentAssumption == Kinds \subseteq RequestKinds /\ Faults \subseteq FaultKinds

\* No route gives an account another role (db.UpdateUserRoles is not called).
Roles    == {"super_admin", "viewer"}
Statuses == {"pending", "active", "inactive", "banned"}
User     == [role : Roles, status : Statuses, password : Passwords]

\* A row of sessions; "deleted" is a row that is gone.  password is a history
\* variable: the last password its holder proved to know.
Session == [user : Emails, state : {"open", "expired", "deleted"}, password : Passwords]

ASSUME RowAssumption == None \notin User \cup Session

VARIABLES
  users,     \* e-mail -> account, or None (the column is UNIQUE, and no route
             \*   deletes an account)
  sessions,  \* session id -> session, or None (not handed out)
  pc,        \* where each request is
  work       \* the locals of each request

vars == <<users, sessions, pc, work>>

-----------------------------------------------------------------------------
(* Accounts and requests.                                                  *)

Exists(u)      == users[u] # None
Active(u)      == Exists(u) /\ users[u].status = "active"
SuperAdmin(u)  == Exists(u) /\ users[u].role = "super_admin"
Open(s)        == sessions[s] # None /\ sessions[s].state = "open"

\* GetAdminUserCount is zero.
NoAdmin == \A u \in Emails : ~SuperAdmin(u)

\* The roles with the permission manage_users.
Managers == {"super_admin"}

ManageKinds == {"setStatus", "setPassword"}
Steps == {"idle", "lookup", "count", "insert", "credentials", "session",
          "cookie", "user", "signOut", "verify", "writeOwn", "endOthers",
          "target", "writeStatus", "writePassword"}

\* email: the account signed up, signed in to or managed; user: whom the cookie
\* stands for; session: the cookie's session; current, password: the passwords
\* sent; status: the status sent; first: no super admin was counted.
Work == [email : Emails \cup {None}, user : Emails \cup {None},
         session : SessionIds \cup {None}, current : Passwords \cup {None},
         password : Passwords \cup {None}, status : Statuses \cup {None},
         kind : RequestKinds \cup {None}, first : BOOLEAN]

NoWork == [email |-> None, user |-> None, session |-> None, current |-> None,
           password |-> None, status |-> None, kind |-> None, first |-> FALSE]

Goto(r, step) == pc' = [pc EXCEPT ![r] = step]
Local(r, w)   == work' = [work EXCEPT ![r] = w]
Reply(r)      == Goto(r, "idle") /\ Local(r, NoWork)
Begin(r, step, w) ==
  /\ pc[r] = "idle" /\ w.kind \in Kinds
  /\ Goto(r, step) /\ Local(r, w)
  /\ UNCHANGED <<users, sessions>>
Refuse(r) == Reply(r) /\ UNCHANGED <<users, sessions>>

Init ==
  /\ users = [u \in Emails |-> None]
  /\ sessions = [s \in SessionIds |-> None]
  /\ pc = [r \in Requests |-> "idle"]
  /\ work = [r \in Requests |-> NoWork]

-----------------------------------------------------------------------------
(* Signing up.                                                             *)

BeginSignUp(r) ==
  \E u \in Emails, p \in Passwords :
    Begin(r, "lookup", [NoWork EXCEPT !.kind = "signUp", !.email = u, !.password = p])

\* A lookup that fails counts as "no such account".
EmailFree(r) ==
  /\ pc[r] = "lookup"
  /\ ~Exists(work[r].email) \/ "fail" \in Faults
  /\ Goto(r, "count")
  /\ UNCHANGED <<users, sessions, work>>

EmailTaken(r) ==
  /\ pc[r] = "lookup"
  /\ Exists(work[r].email)
  /\ Refuse(r)

\* The count decides on role and status; hashing the password comes after it.
CountAdmins(r) ==
  /\ pc[r] = "count"
  /\ Local(r, [work[r] EXCEPT !.first = NoAdmin])
  /\ Goto(r, "insert")
  /\ UNCHANGED <<users, sessions>>

\* Mutant: the first user waits for approval like any other.
NewUserPending(first, p) ==
  [role |-> IF first THEN "super_admin" ELSE "viewer", status |-> "pending", password |-> p]

NewUser(first, p) ==
  IF first THEN [role |-> "super_admin", status |-> "active", password |-> p]
  ELSE [role |-> "viewer", status |-> "pending", password |-> p]

\* Mutant: no UNIQUE constraint, the later sign-up wins.
InsertUserAnyway(r) ==
  /\ pc[r] = "insert"
  /\ users' = [users EXCEPT ![work[r].email] = NewUser(work[r].first, work[r].password)]
  /\ Reply(r)
  /\ UNCHANGED sessions

\* The UNIQUE constraint refuses a second account for one address.
InsertUser(r) ==
  /\ pc[r] = "insert"
  /\ ~Exists(work[r].email)
  /\ users' = [users EXCEPT ![work[r].email] = NewUser(work[r].first, work[r].password)]
  /\ Reply(r)
  /\ UNCHANGED sessions

InsertRefused(r) ==
  /\ pc[r] = "insert"
  /\ Exists(work[r].email)
  /\ Refuse(r)

-----------------------------------------------------------------------------
(* Signing in and out.                                                     *)

BeginSignIn(r) ==
  \E u \in Emails, p \in Passwords :
    Begin(r, "credentials", [NoWork EXCEPT !.kind = "signIn", !.email = u, !.password = p])

\* Password and status are those of the row that was read.
MaySignIn(u, p) == Active(u) /\ users[u].password = p

CheckCredentials(r) ==
  /\ pc[r] = "credentials"
  /\ MaySignIn(work[r].email, work[r].password)
  /\ Goto(r, "session")
  /\ UNCHANGED <<users, sessions, work>>

RefuseCredentials(r) ==
  /\ pc[r] = "credentials"
  /\ ~MaySignIn(work[r].email, work[r].password)
  /\ Refuse(r)

CreateSession(r) ==
  /\ pc[r] = "session"
  /\ \E s \in SessionIds :
       /\ sessions[s] = None
       /\ sessions' = [sessions EXCEPT ![s] =
            [user |-> work[r].email, state |-> "open", password |-> work[r].password]]
  /\ Reply(r)
  /\ UNCHANGED users

\* Cookies are signed: a request presents a session that was handed out.
BeginWithCookie(r) ==
  \E s \in {t \in SessionIds : sessions[t] # None} :
    \/ Begin(r, "cookie", [NoWork EXCEPT !.kind = "signOut", !.session = s])
    \/ \E c, p \in Passwords :
         Begin(r, "cookie", [NoWork EXCEPT !.kind = "updatePassword", !.session = s,
                                           !.current = c, !.password = p])
    \/ \E u \in Emails :
         \/ \E status \in Statuses :
              Begin(r, "cookie", [NoWork EXCEPT !.kind = "setStatus", !.session = s,
                                                !.email = u, !.status = status])
         \/ \E p \in Passwords :
              Begin(r, "cookie", [NoWork EXCEPT !.kind = "setPassword", !.session = s,
                                                !.email = u, !.password = p])

\* CheckCookie: first the session ...
CheckSession(r) ==
  /\ pc[r] = "cookie"
  /\ Open(work[r].session)
  /\ Goto(r, "user")
  /\ UNCHANGED <<users, sessions, work>>

RefuseSession(r) ==
  /\ pc[r] = "cookie"
  /\ ~Open(work[r].session)
  /\ Refuse(r)

\* ... then its user, and the permission of a route that needs one.
Permitted(kind, u) ==
  Active(u) /\ (kind \in ManageKinds => users[u].role \in Managers)

FirstStep(kind) == CASE kind = "signOut" -> "signOut"
                     [] kind = "updatePassword" -> "verify"
                     [] OTHER -> "target"

CheckUser(r) ==
  LET u == sessions[work[r].session].user
  IN  /\ pc[r] = "user"
      /\ Permitted(work[r].kind, u)
      /\ Local(r, [work[r] EXCEPT !.user = u])
      /\ Goto(r, FirstStep(work[r].kind))
      /\ UNCHANGED <<users, sessions>>

RefuseUser(r) ==
  /\ pc[r] = "user"
  /\ ~Permitted(work[r].kind, sessions[work[r].session].user)
  /\ Refuse(r)

SignOut(r) ==
  /\ pc[r] = "signOut"
  /\ sessions' = [sessions EXCEPT ![work[r].session].state = "deleted"]
  /\ Reply(r)
  /\ UNCHANGED users

-----------------------------------------------------------------------------
(* Changing one's own password.                                            *)

Verify(r) ==
  /\ pc[r] = "verify"
  /\ users[work[r].user].password = work[r].current
  /\ work[r].password # work[r].current
  /\ Goto(r, "writeOwn")
  /\ UNCHANGED <<users, sessions, work>>

RefuseVerify(r) ==
  /\ pc[r] = "verify"
  /\ \/ users[work[r].user].password # work[r].current
     \/ work[r].password = work[r].current
  /\ Refuse(r)

WriteOwnPassword(r) ==
  /\ pc[r] = "writeOwn"
  /\ users' = [users EXCEPT ![work[r].user].password = work[r].password]
  /\ sessions' = [sessions EXCEPT ![work[r].session].password = work[r].password]
  /\ Goto(r, "endOthers")
  /\ UNCHANGED work

\* Mutant: the session that is to stay is the one that is deleted.
OnlyThis(u, s) == {t \in {s} : sessions[t] # None /\ sessions[t].user = u}

\* DeleteUserSessionsExcept
Others(u, s) == {t \in SessionIds \ {s} : sessions[t] # None /\ sessions[t].user = u}

EndOtherSessions(r) ==
  /\ pc[r] = "endOthers"
  /\ sessions' = [s \in SessionIds |->
       IF s \in Others(work[r].user, work[r].session)
       THEN [sessions[s] EXCEPT !.state = "deleted"] ELSE sessions[s]]
  /\ Reply(r)
  /\ UNCHANGED users

-----------------------------------------------------------------------------
(* Managing another account.                                               *)

\* Mutant: a super admin's status is like any other.
ManageableAny(w) ==
  /\ Exists(w.email)
  /\ w.kind = "setStatus" => users[w.email].status # w.status

\* Only a change of status looks at the account it is about.
Manageable(w) ==
  /\ Exists(w.email)
  /\ w.kind = "setStatus" => ~SuperAdmin(w.email) /\ users[w.email].status # w.status

ReadTarget(r) ==
  /\ pc[r] = "target"
  /\ Manageable(work[r])
  /\ Goto(r, IF work[r].kind = "setStatus" THEN "writeStatus" ELSE "writePassword")
  /\ UNCHANGED <<users, sessions, work>>

RefuseTarget(r) ==
  /\ pc[r] = "target"
  /\ ~Manageable(work[r])
  /\ Refuse(r)

WriteStatus(r) ==
  /\ pc[r] = "writeStatus"
  /\ users' = [users EXCEPT ![work[r].email].status = work[r].status]
  /\ Reply(r)
  /\ UNCHANGED sessions

\* The sessions of the account go on.
WritePassword(r) ==
  /\ pc[r] = "writePassword"
  /\ users' = [users EXCEPT ![work[r].email].password = work[r].password]
  /\ Reply(r)
  /\ UNCHANGED sessions

-----------------------------------------------------------------------------
(* Faults and the specification.                                           *)

\* A statement (or bcrypt) fails, or the bound on sessions is reached.
StatementFails(r) ==
  /\ \/ "fail" \in Faults /\ pc[r] \notin {"idle", "lookup"}
     \/ pc[r] = "session" /\ \A s \in SessionIds : sessions[s] # None
  /\ Refuse(r)

Expire(s) ==
  /\ "expire" \in Faults /\ Open(s)
  /\ sessions' = [sessions EXCEPT ![s].state = "expired"]
  /\ UNCHANGED <<users, pc, work>>

Crash ==
  /\ "crash" \in Faults
  /\ pc' = [r \in Requests |-> "idle"]
  /\ work' = [r \in Requests |-> NoWork]
  /\ UNCHANGED <<users, sessions>>

Handler(r) ==
  \/ BeginSignUp(r) \/ EmailFree(r) \/ EmailTaken(r) \/ CountAdmins(r)
  \/ InsertUser(r) \/ InsertRefused(r)
  \/ BeginSignIn(r) \/ CheckCredentials(r) \/ RefuseCredentials(r) \/ CreateSession(r)
  \/ BeginWithCookie(r) \/ CheckSession(r) \/ RefuseSession(r)
  \/ CheckUser(r) \/ RefuseUser(r) \/ SignOut(r)
  \/ Verify(r) \/ RefuseVerify(r) \/ WriteOwnPassword(r) \/ EndOtherSessions(r)
  \/ ReadTarget(r) \/ RefuseTarget(r) \/ WriteStatus(r) \/ WritePassword(r)
  \/ StatementFails(r)

Next ==
  \/ \E r \in Requests : Handler(r)
  \/ \E s \in SessionIds : Expire(s)
  \/ Crash

Spec == Init /\ [][Next]_vars

\* Nobody signs in to an account while its password is replaced.
SigningIn(u) == \E r \in Requests : pc[r] = "session" /\ work[r].email = u
Calm == \A r \in Requests :
          (pc[r] = "writeOwn" /\ pc'[r] = "endOthers") => ~SigningIn(work[r].user)

-----------------------------------------------------------------------------
(* Properties.                                                             *)

\* Every variable has its type, and a request has what its step needs.
TypeOK ==
  /\ users \in [Emails -> User \cup {None}]
  /\ sessions \in [SessionIds -> Session \cup {None}]
  /\ pc \in [Requests -> Steps]
  /\ work \in [Requests -> Work]

\* Whoever has signed up can be approved: as soon as there is an account there
\* is a super admin who can sign in, however sign-ups interleave or fail.
SomebodyCanApprove ==
  (\E u \in Emails : Exists(u)) => \E u \in Emails : SuperAdmin(u) /\ Active(u)

\* Changing accounts takes standing: between the permission check and the write
\* the manager remains an active super admin, whatever others do to accounts.
ManagersStayInCharge ==
  \A r \in Requests : pc[r] \in {"target", "writeStatus", "writePassword"} =>
    SuperAdmin(work[r].user) /\ Active(work[r].user)

\* A request that writes on behalf of u.
Own(r, u)   == pc[r] = "writeOwn" /\ work[r].user = u
ByAdmin(r)  == pc[r] \in {"writeStatus", "writePassword"}

\* An account, once there, is changed by its owner or a manager only, keeps its
\* role, and a super admin keeps the status (no sign-up replaces an account).
AccountsChangeByRight ==
  [][\A u \in Emails : Exists(u) /\ users'[u] # users[u] =>
       /\ users'[u].role = users[u].role
       /\ \E r \in Requests : Own(r, u) \/ ByAdmin(r)
       /\ users'[u].status # users[u].status =>
            users[u].role # "super_admin" /\ \E r \in Requests : ByAdmin(r)]_vars

\* No session outlives the password: while no change of it is half done, the
\* holder of a session knows the password of the account (calm runs without
\* failures, in which no super admin sets passwords).
SessionsKnowPassword ==
  \A s \in SessionIds : Open(s) =>
    \/ sessions[s].password = users[sessions[s].user].password
    \/ \E r \in Requests : pc[r] = "endOthers" /\ work[r].user = sessions[s].user
=============================================================================
