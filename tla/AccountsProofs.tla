--------------------------- MODULE AccountsProofs ---------------------------
(***************************************************************************)
(* Safety of Accounts for every number of requests, accounts, passwords    *)
(* and sessions, every kind of request and every fault.                    *)
(***************************************************************************)
EXTENDS MCAccounts, TLAPS

-----------------------------------------------------------------------------
(* The inductive invariant.                                                *)

CookieSteps == {"cookie", "user", "signOut"}
OwnSteps    == {"verify", "writeOwn", "endOthers"}
AdminSteps  == {"target", "writeStatus", "writePassword"}

Manager(us, u) == us[u] # None /\ us[u].role = "super_admin" /\ us[u].status = "active"

\* What a request with locals w has at a step, in accounts us and sessions ss.
Carries(step, w, us, ss) ==
  /\ step \in {"lookup", "count", "insert", "credentials", "session"} =>
       w.email \in Emails /\ w.password \in Passwords
  /\ step = "insert" /\ ~w.first => \E u \in Emails : Manager(us, u)
  /\ step = "session" => us[w.email] # None
  /\ step \in CookieSteps \cup OwnSteps \cup AdminSteps =>
       /\ w.session \in SessionIds /\ ss[w.session] # None
       /\ w.kind \in {"signOut", "updatePassword"} \cup ManageKinds
       /\ w.kind = "updatePassword" => w.password \in Passwords
       /\ w.kind \in ManageKinds => w.email \in Emails
       /\ w.kind = "setStatus" => w.status \in Statuses
       /\ w.kind = "setPassword" => w.password \in Passwords
  /\ step \in OwnSteps =>
       w.kind = "updatePassword" /\ w.user \in Emails /\ us[w.user] # None
  /\ step \in AdminSteps =>
       w.kind \in ManageKinds /\ w.user \in Emails /\ Manager(us, w.user)
  /\ step = "writeStatus" =>
       w.kind = "setStatus" /\ us[w.email] # None /\ us[w.email].role # "super_admin"
  /\ step = "writePassword" => w.kind = "setPassword" /\ us[w.email] # None

\* Super admins are active, accounts have a super admin, sessions an account.
AccountsInv(us, ss) ==
  /\ \A u \in Emails : us[u] # None /\ us[u].role = "super_admin" => us[u].status = "active"
  /\ (\E u \in Emails : us[u] # None) => \E u \in Emails : Manager(us, u)
  /\ \A s \in SessionIds : ss[s] # None => us[ss[s].user] # None

IInv ==
  /\ TypeOK
  /\ AccountsInv(users, sessions)
  /\ \A r \in Requests : Carries(pc[r], work[r], users, sessions)

\* Accounts and sessions stay, with their roles and owners, and a super admin
\* keeps the status.
Grows(us, ss, us1, ss1) ==
  /\ \A u \in Emails : us[u] # None =>
       /\ us1[u] # None /\ us1[u].role = us[u].role
       /\ us[u].role = "super_admin" => us1[u].status = us[u].status
  /\ \A s \in SessionIds : ss[s] # None => ss1[s] # None

-----------------------------------------------------------------------------
(* Lemmas about one step.                                                  *)

LEMMA NoWorkType == NoWork \in Work
  BY DEF NoWork, Work

LEMMA IdleCarries ==
  ASSUME NEW us, NEW ss, NEW w PROVE Carries("idle", w, us, ss)
  BY DEF Carries, CookieSteps, OwnSteps, AdminSteps

LEMMA Initial == Init => IInv
  BY NoWorkType, IdleCarries DEF Init, IInv, TypeOK, Steps, AccountsInv

\* What a request carries it still carries when accounts and sessions grow.
LEMMA GrownCarries ==
  ASSUME NEW us, NEW ss, NEW us1, NEW ss1, Grows(us, ss, us1, ss1),
         NEW step, NEW w \in Work, Carries(step, w, us, ss)
  PROVE  Carries(step, w, us1, ss1)
  BY DEF Carries, Grows, Manager, Work, CookieSteps, OwnSteps, AdminSteps, ManageKinds

\* A step of r preserves the invariant if it leaves the accounts in order and
\* r with what its next step needs.
LEMMA StepKeeps ==
  ASSUME IInv, NEW r \in Requests,
         users' \in [Emails -> User \cup {None}],
         sessions' \in [SessionIds -> Session \cup {None}],
         Grows(users, sessions, users', sessions'),
         AccountsInv(users', sessions'),
         NEW step \in Steps, Goto(r, step),
         NEW w \in Work, Local(r, w),
         Carries(step, w, users', sessions')
  PROVE  IInv'
  <1>1. /\ pc' \in [Requests -> Steps] /\ pc'[r] = step
        /\ \A q \in Requests : q # r => pc'[q] = pc[q]
    BY DEF IInv, TypeOK, Goto
  <1>2. /\ work' \in [Requests -> Work] /\ work'[r] = w
        /\ \A q \in Requests : q # r => work'[q] = work[q]
    BY DEF IInv, TypeOK, Local
  <1>3. TypeOK'
    BY <1>1, <1>2 DEF TypeOK
  <1>4. ASSUME NEW q \in Requests
        PROVE  Carries(pc'[q], work'[q], users', sessions')
    <2>1. CASE q = r
      BY <2>1, <1>1, <1>2
    <2>2. CASE q # r
      <3>1. Carries(pc[q], work[q], users, sessions) /\ work[q] \in Work
        BY DEF IInv, TypeOK
      <3>2. Carries(pc[q], work[q], users', sessions')
        BY <3>1, GrownCarries
      <3>3. QED
        BY <3>2, <2>2, <1>1, <1>2
    <2>3. QED
      BY <2>1, <2>2
  <1>5. QED
    BY <1>3, <1>4 DEF IInv

\* A step of r that changes no row.
LEMMA LocalStepKeeps ==
  ASSUME IInv, NEW r \in Requests, UNCHANGED <<users, sessions>>,
         NEW step \in Steps, Goto(r, step),
         NEW w \in Work, Local(r, w),
         Carries(step, w, users, sessions)
  PROVE  IInv'
  <1>1. Grows(users, sessions, users, sessions)
    BY DEF Grows
  <1>2. QED
    BY <1>1, StepKeeps DEF IInv, TypeOK

\* ... and keeps the locals of r.
LEMMA MoveKeeps ==
  ASSUME IInv, NEW r \in Requests, UNCHANGED <<users, sessions, work>>,
         NEW step \in Steps, Goto(r, step),
         Carries(step, work[r], users, sessions)
  PROVE  IInv'
  <1>1. work[r] \in Work /\ Local(r, work[r])
    BY DEF IInv, TypeOK, Local
  <1>2. QED
    BY <1>1, LocalStepKeeps

LEMMA RefuseKeeps ==
  ASSUME IInv, NEW r \in Requests, Refuse(r) PROVE IInv'
  BY NoWorkType, IdleCarries, LocalStepKeeps DEF Refuse, Reply, Steps

LEMMA ReplyKeeps ==
  ASSUME IInv, NEW r \in Requests, Reply(r),
         users' \in [Emails -> User \cup {None}],
         sessions' \in [SessionIds -> Session \cup {None}],
         Grows(users, sessions, users', sessions'),
         AccountsInv(users', sessions')
  PROVE  IInv'
  BY NoWorkType, IdleCarries, StepKeeps DEF Reply, Steps

LEMMA BeginKeeps ==
  ASSUME IInv, NEW r \in Requests, NEW step \in Steps, NEW w \in Work,
         Begin(r, step, w), Carries(step, w, users, sessions)
  PROVE  IInv'
  BY LocalStepKeeps DEF Begin

-----------------------------------------------------------------------------
(* The steps of a request.                                                 *)

LEMMA CookieKeeps ==
  ASSUME IInv, NEW r \in Requests, NEW w \in Work, Begin(r, "cookie", w),
         w.session \in SessionIds, sessions[w.session] # None,
         w.kind \in {"signOut", "updatePassword"} \cup ManageKinds,
         w.kind = "updatePassword" => w.password \in Passwords,
         w.kind \in ManageKinds => w.email \in Emails,
         w.kind = "setStatus" => w.status \in Statuses,
         w.kind = "setPassword" => w.password \in Passwords
  PROVE  IInv'
  <1>1. Carries("cookie", w, users, sessions)
    BY DEF Carries, CookieSteps, OwnSteps, AdminSteps
  <1>2. QED
    BY <1>1, BeginKeeps DEF Steps

LEMMA ArrivalKeeps ==
  ASSUME IInv, NEW r \in Requests,
         BeginSignUp(r) \/ BeginSignIn(r) \/ BeginWithCookie(r)
  PROVE  IInv'
  <1>1. CASE BeginSignUp(r)
    <2>1. PICK u \in Emails, p \in Passwords :
            Begin(r, "lookup", [NoWork EXCEPT !.kind = "signUp", !.email = u, !.password = p])
      BY <1>1 DEF BeginSignUp
    <2> DEFINE w == [NoWork EXCEPT !.kind = "signUp", !.email = u, !.password = p]
    <2>2. w \in Work /\ Carries("lookup", w, users, sessions)
      BY DEF NoWork, Work, RequestKinds, Carries, CookieSteps, OwnSteps, AdminSteps
    <2>3. QED
      BY <2>1, <2>2, BeginKeeps DEF Steps
  <1>2. CASE BeginSignIn(r)
    <2>1. PICK u \in Emails, p \in Passwords :
            Begin(r, "credentials",
                  [NoWork EXCEPT !.kind = "signIn", !.email = u, !.password = p])
      BY <1>2 DEF BeginSignIn
    <2> DEFINE w == [NoWork EXCEPT !.kind = "signIn", !.email = u, !.password = p]
    <2>2. w \in Work /\ Carries("credentials", w, users, sessions)
      BY DEF NoWork, Work, RequestKinds, Carries, CookieSteps, OwnSteps, AdminSteps
    <2>3. QED
      BY <2>1, <2>2, BeginKeeps DEF Steps
  <1>3. CASE BeginWithCookie(r)
    <2>1. PICK s \in SessionIds : sessions[s] # None /\
            \/ Begin(r, "cookie", [NoWork EXCEPT !.kind = "signOut", !.session = s])
            \/ \E c, p \in Passwords :
                 Begin(r, "cookie", [NoWork EXCEPT !.kind = "updatePassword", !.session = s,
                                                   !.current = c, !.password = p])
            \/ \E u \in Emails, status \in Statuses :
                 Begin(r, "cookie", [NoWork EXCEPT !.kind = "setStatus", !.session = s,
                                                   !.email = u, !.status = status])
            \/ \E u \in Emails, p \in Passwords :
                 Begin(r, "cookie", [NoWork EXCEPT !.kind = "setPassword", !.session = s,
                                                   !.email = u, !.password = p])
      BY <1>3, Zenon DEF BeginWithCookie
    <2>2. CASE Begin(r, "cookie", [NoWork EXCEPT !.kind = "signOut", !.session = s])
      <3> DEFINE w == [NoWork EXCEPT !.kind = "signOut", !.session = s]
      <3>1. w \in Work /\ w.session = s /\ w.kind = "signOut"
        BY DEF NoWork, Work, RequestKinds
      <3>2. QED
        BY <2>1, <2>2, <3>1, CookieKeeps DEF ManageKinds
    <2>3. ASSUME NEW c \in Passwords, NEW p \in Passwords,
                 Begin(r, "cookie", [NoWork EXCEPT !.kind = "updatePassword", !.session = s,
                                                   !.current = c, !.password = p])
          PROVE  IInv'
      <3> DEFINE w == [NoWork EXCEPT !.kind = "updatePassword", !.session = s,
                                     !.current = c, !.password = p]
      <3>1. /\ w \in Work /\ w.session = s /\ w.kind = "updatePassword"
            /\ w.password \in Passwords
        BY DEF NoWork, Work, RequestKinds
      <3>2. QED
        BY <2>1, <2>3, <3>1, CookieKeeps DEF ManageKinds
    <2>4. ASSUME NEW u \in Emails, NEW status \in Statuses,
                 Begin(r, "cookie", [NoWork EXCEPT !.kind = "setStatus", !.session = s,
                                                   !.email = u, !.status = status])
          PROVE  IInv'
      <3> DEFINE w == [NoWork EXCEPT !.kind = "setStatus", !.session = s,
                                     !.email = u, !.status = status]
      <3>1. /\ w \in Work /\ w.session = s /\ w.kind = "setStatus"
            /\ w.email \in Emails /\ w.status \in Statuses
        BY DEF NoWork, Work, RequestKinds
      <3>2. QED
        BY <2>1, <2>4, <3>1, CookieKeeps DEF ManageKinds
    <2>5. ASSUME NEW u \in Emails, NEW p \in Passwords,
                 Begin(r, "cookie", [NoWork EXCEPT !.kind = "setPassword", !.session = s,
                                                   !.email = u, !.password = p])
          PROVE  IInv'
      <3> DEFINE w == [NoWork EXCEPT !.kind = "setPassword", !.session = s,
                                     !.email = u, !.password = p]
      <3>1. /\ w \in Work /\ w.session = s /\ w.kind = "setPassword"
            /\ w.email \in Emails /\ w.password \in Passwords
        BY DEF NoWork, Work, RequestKinds
      <3>2. QED
        BY <2>1, <2>5, <3>1, CookieKeeps DEF ManageKinds
    <2>6. QED
      BY <2>1, <2>2, <2>3, <2>4, <2>5
  <1>4. QED
    BY <1>1, <1>2, <1>3

\* Steps that look at rows and change none.
LEMMA ReadingKeeps ==
  ASSUME IInv, NEW r \in Requests,
         \/ EmailFree(r) \/ CountAdmins(r) \/ CheckCredentials(r) \/ CheckSession(r)
         \/ CheckUser(r) \/ Verify(r) \/ ReadTarget(r)
  PROVE  IInv'
  <1> USE DEF Steps, CookieSteps, OwnSteps, AdminSteps
  <1>1. Carries(pc[r], work[r], users, sessions) /\ work[r] \in Work
    BY DEF IInv, TypeOK
  <1>2. CASE EmailFree(r)
    <2>1. Carries("count", work[r], users, sessions)
      BY <1>1, <1>2 DEF EmailFree, Carries
    <2>2. QED
      BY <1>2, <2>1, MoveKeeps DEF EmailFree
  <1>3. CASE CountAdmins(r)
    <2> DEFINE w == [work[r] EXCEPT !.first = NoAdmin]
    <2>1. w \in Work
      BY <1>1 DEF Work, NoAdmin
    <2>2. ~NoAdmin => \E u \in Emails : Manager(users, u)
      BY DEF NoAdmin, SuperAdmin, Exists, Manager, IInv, AccountsInv
    <2>3. Carries("insert", w, users, sessions)
      BY <1>1, <1>3, <2>2 DEF CountAdmins, Carries, Work
    <2>4. QED
      BY <1>3, <2>1, <2>3, LocalStepKeeps DEF CountAdmins
  <1>4. CASE CheckCredentials(r)
    <2>1. Carries("session", work[r], users, sessions)
      BY <1>1, <1>4 DEF CheckCredentials, MaySignIn, Active, Exists, Carries
    <2>2. QED
      BY <1>4, <2>1, MoveKeeps DEF CheckCredentials
  <1>5. CASE CheckSession(r)
    <2>1. Carries("user", work[r], users, sessions)
      BY <1>1, <1>5 DEF CheckSession, Carries
    <2>2. QED
      BY <1>5, <2>1, MoveKeeps DEF CheckSession
  <1>6. CASE CheckUser(r)
    <2> DEFINE u == sessions[work[r].session].user
               w == [work[r] EXCEPT !.user = u]
               step == FirstStep(work[r].kind)
    <2>1. /\ work[r].session \in SessionIds
          /\ work[r].kind \in {"signOut", "updatePassword"} \cup ManageKinds
      BY <1>1, <1>6 DEF CheckUser, Carries
    <2>2. u \in Emails
      BY <1>1, <1>6, <2>1 DEF CheckUser, Carries, IInv, TypeOK, Session
    <2>3. w \in Work /\ w.user = u /\ w.kind = work[r].kind
      BY <1>1, <2>2 DEF Work
    <2>4. Active(u) /\ (w.kind \in ManageKinds => Manager(users, u))
      BY <1>6, <2>3 DEF CheckUser, Permitted, Managers, Manager, Active, Exists
    <2>5. Carries(step, w, users, sessions)
      BY <1>1, <1>6, <2>1, <2>2, <2>3, <2>4
         DEF CheckUser, Carries, FirstStep, ManageKinds, Active, Exists, Work
    <2>6. step \in Steps
      BY <2>1 DEF FirstStep, ManageKinds
    <2>7. Goto(r, step) /\ Local(r, w) /\ UNCHANGED <<users, sessions>>
      BY <1>6 DEF CheckUser
    <2>8. QED
      BY <2>3, <2>5, <2>6, <2>7, LocalStepKeeps
  <1>7. CASE Verify(r)
    <2>1. Carries("writeOwn", work[r], users, sessions)
      BY <1>1, <1>7 DEF Verify, Carries
    <2>2. QED
      BY <1>7, <2>1, MoveKeeps DEF Verify
  <1>8. CASE ReadTarget(r)
    <2> DEFINE step == IF work[r].kind = "setStatus" THEN "writeStatus" ELSE "writePassword"
    <2>1. Carries(step, work[r], users, sessions)
      BY <1>1, <1>8
         DEF ReadTarget, Manageable, Carries, ManageKinds, SuperAdmin, Exists
    <2>2. QED
      BY <1>8, <2>1, MoveKeeps DEF ReadTarget
  <1>9. QED
    BY <1>1, <1>2, <1>3, <1>4, <1>5, <1>6, <1>7, <1>8

LEMMA InsertKeeps ==
  ASSUME IInv, NEW r \in Requests, InsertUser(r) PROVE IInv'
  <1> DEFINE u == work[r].email
             row == NewUser(work[r].first, work[r].password)
  <1>1. /\ u \in Emails /\ work[r].password \in Passwords
        /\ ~work[r].first => \E v \in Emails : Manager(users, v)
    BY DEF InsertUser, IInv, Carries
  <1>2. row \in User /\ (row.role = "super_admin" => row.status = "active")
    BY <1>1 DEF NewUser, User, Roles, Statuses
  <1>3. users' \in [Emails -> User \cup {None}] /\ sessions' = sessions
    BY <1>2 DEF InsertUser, IInv, TypeOK
  <1>4. users'[u] = row /\ users[u] = None /\ \A v \in Emails : v # u => users'[v] = users[v]
    BY <1>1 DEF InsertUser, Exists, IInv, TypeOK
  <1>5. row # None
    BY <1>2, RowAssumption
  <1>6. Grows(users, sessions, users', sessions')
    BY <1>3, <1>4 DEF Grows
  <1>7. \E v \in Emails : Manager(users', v)
    <2>1. CASE work[r].first
      BY <2>1, <1>1, <1>4, <1>5 DEF Manager, NewUser
    <2>2. CASE ~work[r].first
      BY <2>2, <1>1, <1>4 DEF Manager
    <2>3. QED
      BY <2>1, <2>2
  <1>8. AccountsInv(users', sessions')
    <2>1. \A s \in SessionIds : sessions[s] # None => sessions[s].user \in Emails
      BY DEF IInv, TypeOK, Session
    <2>2. QED
      BY <2>1, <1>2, <1>3, <1>4, <1>5, <1>7 DEF AccountsInv, IInv
  <1>9. QED
    BY <1>3, <1>6, <1>8, ReplyKeeps DEF InsertUser, IInv, TypeOK

LEMMA SessionStepsKeep ==
  ASSUME IInv, NEW r \in Requests, CreateSession(r) \/ SignOut(r) \/ EndOtherSessions(r)
  PROVE  IInv'
  <1>1. UNCHANGED users /\ Reply(r)
    BY DEF CreateSession, SignOut, EndOtherSessions
  <1>2. /\ sessions' \in [SessionIds -> Session \cup {None}]
        /\ \A s \in SessionIds : sessions[s] # None => sessions'[s] # None
        /\ \A s \in SessionIds : sessions'[s] # None => users[sessions'[s].user] # None
    <2>1. CASE CreateSession(r)
      <3>1. work[r].email \in Emails /\ work[r].password \in Passwords
            /\ users[work[r].email] # None
        BY <2>1 DEF CreateSession, IInv, Carries
      <3> DEFINE row == [user |-> work[r].email, state |-> "open",
                         password |-> work[r].password]
      <3>2. row \in Session /\ row # None
        BY <3>1, RowAssumption DEF Session
      <3>3. PICK s \in SessionIds :
              sessions[s] = None /\ sessions' = [sessions EXCEPT ![s] = row]
        BY <2>1 DEF CreateSession
      <3>4. QED
        BY <3>1, <3>2, <3>3 DEF IInv, TypeOK, AccountsInv
    <2>2. CASE SignOut(r)
      <3> DEFINE s == work[r].session
                 row == [sessions[s] EXCEPT !.state = "deleted"]
      <3>1. s \in SessionIds /\ sessions[s] # None
        BY <2>2 DEF SignOut, IInv, Carries, CookieSteps
      <3>2. row \in Session /\ row # None /\ row.user = sessions[s].user
        BY <3>1, RowAssumption DEF IInv, TypeOK, Session
      <3>3. sessions' = [sessions EXCEPT ![s] = row]
        BY <2>2 DEF SignOut
      <3>4. QED
        BY <3>1, <3>2, <3>3 DEF IInv, TypeOK, AccountsInv
    <2>3. CASE EndOtherSessions(r)
      <3> DEFINE ended == Others(work[r].user, work[r].session)
                 row(s) == [sessions[s] EXCEPT !.state = "deleted"]
      <3>1. \A s \in ended : /\ s \in SessionIds
                             /\ row(s) \in Session /\ row(s) # None
                             /\ row(s).user = sessions[s].user /\ sessions[s] # None
        BY RowAssumption DEF Others, IInv, TypeOK, Session
      <3>2. sessions' = [s \in SessionIds |-> IF s \in ended THEN row(s) ELSE sessions[s]]
        BY <2>3 DEF EndOtherSessions
      <3> HIDE DEF row, ended
      <3>3. QED
        BY <3>1, <3>2 DEF IInv, TypeOK, AccountsInv
    <2>4. QED
      BY <2>1, <2>2, <2>3
  <1>3. Grows(users, sessions, users', sessions')
    BY <1>1, <1>2 DEF Grows
  <1>4. AccountsInv(users', sessions')
    BY <1>1, <1>2 DEF AccountsInv, IInv
  <1>5. QED
    BY <1>1, <1>2, <1>3, <1>4, ReplyKeeps DEF IInv, TypeOK

\* An account that is there is rewritten with its role, and with its status if
\* it is a super admin's.
LEMMA RewriteKeepsAccounts ==
  ASSUME IInv, NEW u \in Emails, users[u] # None, NEW row \in User,
         users' = [users EXCEPT ![u] = row],
         row.role = users[u].role,
         row.role = "super_admin" => row.status = users[u].status,
         sessions' \in [SessionIds -> Session \cup {None}],
         \A s \in SessionIds : sessions[s] # None <=> sessions'[s] # None,
         \A s \in SessionIds : sessions[s] # None => sessions'[s].user = sessions[s].user
  PROVE  /\ users' \in [Emails -> User \cup {None}]
         /\ Grows(users, sessions, users', sessions')
         /\ AccountsInv(users', sessions')
  <1>1. row # None
    BY RowAssumption
  <1>2. /\ users' \in [Emails -> User \cup {None}]
        /\ users'[u] = row
        /\ \A v \in Emails : v # u => users'[v] = users[v]
    BY DEF IInv, TypeOK
  <1>3. Grows(users, sessions, users', sessions')
    BY <1>1, <1>2 DEF Grows
  <1>4. \A v \in Emails : Manager(users, v) => Manager(users', v)
    BY <1>1, <1>2 DEF Manager
  <1>5. \A s \in SessionIds : sessions[s] # None => sessions[s].user \in Emails
    BY DEF IInv, TypeOK, Session
  <1>6. AccountsInv(users', sessions')
    BY <1>1, <1>2, <1>4, <1>5 DEF AccountsInv, IInv
  <1>7. QED
    BY <1>2, <1>3, <1>6

LEMMA AccountStepsKeep ==
  ASSUME IInv, NEW r \in Requests, WriteOwnPassword(r) \/ WriteStatus(r) \/ WritePassword(r)
  PROVE  IInv'
  <1> USE DEF CookieSteps, OwnSteps, AdminSteps
  <1>1. CASE WriteOwnPassword(r)
    <2> DEFINE u == work[r].user
               s == work[r].session
               row == [users[u] EXCEPT !.password = work[r].password]
               srow == [sessions[s] EXCEPT !.password = work[r].password]
    <2>1. /\ u \in Emails /\ users[u] # None /\ work[r].password \in Passwords
          /\ s \in SessionIds /\ sessions[s] # None
          /\ Carries("writeOwn", work[r], users, sessions)
      BY <1>1 DEF WriteOwnPassword, IInv, Carries
    <2>2. /\ row \in User /\ row.role = users[u].role /\ row.status = users[u].status
          /\ srow \in Session /\ srow.user = sessions[s].user
      BY <2>1 DEF IInv, TypeOK, User, Session
    <2>3. /\ users' = [users EXCEPT ![u] = row]
          /\ sessions' = [sessions EXCEPT ![s] = srow]
      BY <1>1 DEF WriteOwnPassword
    <2>4. /\ sessions' \in [SessionIds -> Session \cup {None}]
          /\ \A t \in SessionIds : sessions[t] # None <=> sessions'[t] # None
          /\ \A t \in SessionIds : sessions[t] # None => sessions'[t].user = sessions[t].user
      BY <2>1, <2>2, <2>3, RowAssumption DEF IInv, TypeOK
    <2>5. /\ users' \in [Emails -> User \cup {None}]
          /\ Grows(users, sessions, users', sessions')
          /\ AccountsInv(users', sessions')
      BY <2>1, <2>2, <2>3, <2>4, RewriteKeepsAccounts
    <2>6. work[r] \in Work /\ Goto(r, "endOthers") /\ Local(r, work[r])
      BY <1>1 DEF WriteOwnPassword, Local, IInv, TypeOK
    <2>7. Carries("endOthers", work[r], users, sessions)
      BY <2>1 DEF Carries
    <2>8. Carries("endOthers", work[r], users', sessions')
      BY <2>5, <2>6, <2>7, GrownCarries
    <2>9. QED
      BY <2>4, <2>5, <2>6, <2>8, StepKeeps DEF Steps
  <1>2. CASE WriteStatus(r)
    <2> DEFINE u == work[r].email
               row == [users[u] EXCEPT !.status = work[r].status]
    <2>1. /\ u \in Emails /\ users[u] # None /\ work[r].status \in Statuses
          /\ users[u].role # "super_admin"
      BY <1>2 DEF WriteStatus, IInv, Carries, ManageKinds
    <2>2. row \in User /\ row.role = users[u].role
      BY <2>1 DEF IInv, TypeOK, User
    <2>3. users' = [users EXCEPT ![u] = row] /\ sessions' = sessions /\ Reply(r)
      BY <1>2 DEF WriteStatus
    <2>4. sessions' \in [SessionIds -> Session \cup {None}]
      BY <2>3 DEF IInv, TypeOK
    <2>5. QED
      BY <2>1, <2>2, <2>3, <2>4, RewriteKeepsAccounts, ReplyKeeps
  <1>3. CASE WritePassword(r)
    <2> DEFINE u == work[r].email
               row == [users[u] EXCEPT !.password = work[r].password]
    <2>1. u \in Emails /\ users[u] # None /\ work[r].password \in Passwords
      BY <1>3 DEF WritePassword, IInv, Carries, ManageKinds
    <2>2. row \in User /\ row.role = users[u].role /\ row.status = users[u].status
      BY <2>1 DEF IInv, TypeOK, User
    <2>3. users' = [users EXCEPT ![u] = row] /\ sessions' = sessions /\ Reply(r)
      BY <1>3 DEF WritePassword
    <2>4. sessions' \in [SessionIds -> Session \cup {None}]
      BY <2>3 DEF IInv, TypeOK
    <2>5. QED
      BY <2>1, <2>2, <2>3, <2>4, RewriteKeepsAccounts, ReplyKeeps
  <1>4. QED
    BY <1>1, <1>2, <1>3

-----------------------------------------------------------------------------
(* The environment, and every step.                                        *)

LEMMA ExpireKeeps ==
  ASSUME IInv, NEW s \in SessionIds, Expire(s) PROVE IInv'
  <1> DEFINE row == [sessions[s] EXCEPT !.state = "expired"]
  <1>1. row \in Session /\ row # None /\ row.user = sessions[s].user
    BY RowAssumption DEF Expire, Open, IInv, TypeOK, Session
  <1>2. /\ sessions' = [sessions EXCEPT ![s] = row] /\ UNCHANGED <<users, pc, work>>
        /\ sessions[s] # None
    BY DEF Expire, Open
  <1>3. TypeOK'
    BY <1>1, <1>2 DEF IInv, TypeOK
  <1>4. AccountsInv(users', sessions') /\ Grows(users, sessions, users', sessions')
    BY <1>1, <1>2 DEF IInv, TypeOK, AccountsInv, Grows
  <1>5. ASSUME NEW r \in Requests PROVE Carries(pc'[r], work'[r], users', sessions')
    <2>1. Carries(pc[r], work[r], users, sessions) /\ work[r] \in Work
      BY DEF IInv, TypeOK
    <2>2. Carries(pc[r], work[r], users', sessions')
      BY <2>1, <1>4, GrownCarries
    <2>3. QED
      BY <2>2, <1>2
  <1>6. QED
    BY <1>3, <1>4, <1>5 DEF IInv

LEMMA CrashKeeps == ASSUME IInv, Crash PROVE IInv'
  BY NoWorkType, IdleCarries DEF IInv, TypeOK, Crash, Steps

LEMMA NextKeeps == ASSUME IInv, [Next]_vars PROVE IInv'
  <1>1. ASSUME NEW r \in Requests, Handler(r) PROVE IInv'
    <2>1. CASE BeginSignUp(r) \/ BeginSignIn(r) \/ BeginWithCookie(r)
      BY <2>1, ArrivalKeeps
    <2>2. CASE \/ EmailFree(r) \/ CountAdmins(r) \/ CheckCredentials(r) \/ CheckSession(r)
               \/ CheckUser(r) \/ Verify(r) \/ ReadTarget(r)
      BY <2>2, ReadingKeeps
    <2>3. CASE InsertUser(r)
      BY <2>3, InsertKeeps
    <2>4. CASE CreateSession(r) \/ SignOut(r) \/ EndOtherSessions(r)
      BY <2>4, SessionStepsKeep
    <2>5. CASE WriteOwnPassword(r) \/ WriteStatus(r) \/ WritePassword(r)
      BY <2>5, AccountStepsKeep
    <2>6. CASE \/ EmailTaken(r) \/ InsertRefused(r) \/ RefuseCredentials(r)
               \/ RefuseSession(r) \/ RefuseUser(r) \/ RefuseVerify(r) \/ RefuseTarget(r)
               \/ StatementFails(r)
      BY <2>6, RefuseKeeps DEF EmailTaken, InsertRefused, RefuseCredentials,
         RefuseSession, RefuseUser, RefuseVerify, RefuseTarget, StatementFails
    <2>7. QED
      BY <1>1, <2>1, <2>2, <2>3, <2>4, <2>5, <2>6, Zenon DEF Handler
  <1>2. CASE \E s \in SessionIds : Expire(s)
    BY <1>2, ExpireKeeps
  <1>3. CASE Crash
    BY <1>3, CrashKeeps
  <1>4. CASE UNCHANGED vars
    BY <1>4 DEF vars, IInv, TypeOK
  <1>5. QED
    BY <1>1, <1>2, <1>3, <1>4 DEF Next

-----------------------------------------------------------------------------
(* The theorems.                                                           *)

LEMMA Inductive == Spec => []IInv
  <1>1. Init => IInv
    BY Initial
  <1>2. IInv /\ [Next]_vars => IInv'
    BY NextKeeps
  <1>3. QED
    BY <1>1, <1>2, PTL DEF Spec

\* Accounts, sessions and requests are what the handlers take them to be.
THEOREM TypeCorrect == Spec => []TypeOK
  <1>1. IInv => TypeOK
    BY DEF IInv
  <1>2. QED
    BY <1>1, Inductive, PTL

\* However sign-ups interleave and fail, accounts are never without a super
\* admin who can sign in and approve the others.
THEOREM ApproverExists == Spec => []SomebodyCanApprove
  <1>1. IInv => SomebodyCanApprove
    BY DEF IInv, AccountsInv, SomebodyCanApprove, Exists, SuperAdmin, Active, Manager
  <1>2. QED
    BY <1>1, Inductive, PTL

\* The permission checked at the start of a management request still holds when
\* it writes.
THEOREM PermissionStays == Spec => []ManagersStayInCharge
  <1>1. IInv => ManagersStayInCharge
    BY DEF IInv, Carries, AdminSteps, ManagersStayInCharge, SuperAdmin, Active, Exists, Manager
  <1>2. QED
    BY <1>1, Inductive, PTL

\* Accounts are never replaced, keep their roles, and change by their owner's or
\* a manager's request only; the status of a super admin never changes.
THEOREM ChangesAreRightful == Spec => AccountsChangeByRight
  <1> DEFINE Rightful ==
        \A u \in Emails : Exists(u) /\ users'[u] # users[u] =>
          /\ users'[u].role = users[u].role
          /\ \E r \in Requests : Own(r, u) \/ ByAdmin(r)
          /\ users'[u].status # users[u].status =>
               users[u].role # "super_admin" /\ \E r \in Requests : ByAdmin(r)
  <1>1. ASSUME IInv, Next PROVE Rightful
    <2> SUFFICES ASSUME NEW u \in Emails, Exists(u), users'[u] # users[u]
                 PROVE  /\ users'[u].role = users[u].role
                        /\ \E r \in Requests : Own(r, u) \/ ByAdmin(r)
                        /\ users'[u].status # users[u].status =>
                             /\ users[u].role # "super_admin"
                             /\ \E r \in Requests : ByAdmin(r)
      OBVIOUS
    <2>1. users[u] \in User
      BY <1>1 DEF Exists, IInv, TypeOK
    <2>2. PICK r \in Requests : Handler(r)
      BY <1>1 DEF Next, Expire, Crash
    <2>3. InsertUser(r) \/ WriteOwnPassword(r) \/ WriteStatus(r) \/ WritePassword(r)
      BY <2>2 DEF Handler, BeginSignUp, BeginSignIn, BeginWithCookie, Begin, EmailFree,
         EmailTaken, CountAdmins, InsertRefused, CheckCredentials, RefuseCredentials,
         CreateSession, CheckSession, RefuseSession, CheckUser, RefuseUser, SignOut,
         Verify, RefuseVerify, EndOtherSessions, ReadTarget, RefuseTarget,
         StatementFails, Refuse
    <2>4. users \in [Emails -> User \cup {None}] /\ Carries(pc[r], work[r], users, sessions)
      BY <1>1 DEF IInv, TypeOK
    <2>5. ~InsertUser(r)
      BY <2>4 DEF InsertUser, Exists
    <2>6. CASE WriteOwnPassword(r)
      BY <2>1, <2>4, <2>6 DEF WriteOwnPassword, Own, User
    <2>7. CASE WriteStatus(r)
      BY <2>1, <2>4, <2>7 DEF WriteStatus, ByAdmin, User, Carries
    <2>8. CASE WritePassword(r)
      BY <2>1, <2>4, <2>8 DEF WritePassword, ByAdmin, User
    <2>9. QED
      BY <2>3, <2>5, <2>6, <2>7, <2>8
  <1>2. IInv /\ [Next]_vars => [Rightful]_vars
    BY <1>1
  <1>3. QED
    BY <1>2, Inductive, PTL DEF Spec, AccountsChangeByRight

-----------------------------------------------------------------------------
(* Sessions and passwords.                                                 *)

\* A request that changes its own password came with a session of its account.
OwnSessions ==
  \A r \in Requests : pc[r] \in OwnSteps =>
    sessions[work[r].session].user = work[r].user

\* A sign-in past CheckCredentials knows the password the account has.
SignInsKnow ==
  \A r \in Requests : pc[r] = "session" =>
    work[r].password = users[work[r].email].password

\* A session whose password was written last knows the account's; one that was
\* overtaken by another session is still to be ended by that other one.
Overtaken(r) ==
  \E q \in Requests : /\ pc[q] = "endOthers" /\ work[q].user = work[r].user
                      /\ work[q].session # work[r].session

ChangesKnow ==
  \A r \in Requests : pc[r] = "endOthers" /\ Open(work[r].session) =>
    \/ sessions[work[r].session].password = users[work[r].user].password
    \/ Overtaken(r)

Knowing == SessionsKnowPassword /\ SignInsKnow /\ ChangesKnow

\* The inductive invariant of SettledSessionsEnd.
SettledInv ==
  /\ IInv
  /\ OwnSessions
  /\ settled \in BOOLEAN
  /\ settled => Knowing

\* Sessions are only closed by this step, and keep their owner and password.
Closing ==
  \A s \in SessionIds : Open(s)' =>
    Open(s) /\ sessions'[s].password = sessions[s].password
            /\ sessions'[s].user = sessions[s].user

LEMMA OpenHasUser ==
  ASSUME IInv, NEW s \in SessionIds, Open(s)
  PROVE  sessions[s].user \in Emails /\ users[sessions[s].user] # None
  BY DEF Open, IInv, TypeOK, AccountsInv, Session

\* A step that writes no password of an account and neither starts nor ends a
\* change of one.
LEMMA KnowingKept ==
  ASSUME IInv, Knowing, Closing,
         \A u \in Emails : users[u] # None => users'[u].password = users[u].password,
         \A q \in Requests :
           /\ pc'[q] = "endOthers" <=> pc[q] = "endOthers"
           /\ pc[q] = "endOthers" => work'[q] = work[q]
           /\ pc'[q] = "session" =>
                \/ pc[q] = "session" /\ work'[q] = work[q]
                \/ work'[q].password = users'[work'[q].email].password
  PROVE  Knowing'
  <1>1. SessionsKnowPassword'
    BY OpenHasUser DEF Knowing, SessionsKnowPassword, Closing
  <1>2. SignInsKnow'
    BY DEF Knowing, SignInsKnow, IInv, Carries
  <1>3. ASSUME NEW r \in Requests, pc'[r] = "endOthers", Open(work[r].session)'
        PROVE  \/ sessions'[work'[r].session].password = users'[work'[r].user].password
               \/ Overtaken(r)'
    <2>1. pc[r] = "endOthers" /\ work'[r] = work[r]
      BY <1>3
    <2>2. /\ work[r].session \in SessionIds
          /\ work[r].user \in Emails /\ users[work[r].user] # None
      BY <2>1 DEF IInv, Carries, OwnSteps
    <2>3. PICK s \in SessionIds : s = work[r].session
      BY <2>2
    <2>4. Open(s)'
      BY <1>3, <2>1, <2>3 DEF Open
    <2>5. Open(s) /\ sessions'[s].password = sessions[s].password
      BY <2>4 DEF Closing
    <2>6. CASE Overtaken(r)
      BY <2>1, <2>6 DEF Overtaken
    <2>7. CASE sessions[s].password = users[work[r].user].password
      BY <2>1, <2>2, <2>3, <2>5, <2>7
    <2>8. QED
      BY <2>1, <2>3, <2>5, <2>6, <2>7 DEF Knowing, ChangesKnow
  <1>4. ChangesKnow'
    BY <1>3 DEF ChangesKnow
  <1>5. QED
    BY <1>1, <1>2, <1>4 DEF Knowing

\* A change of a password ends, and no other session of the account is open:
\* what is left knows the new password, or is about to be ended as well.
LEMMA ChangeEnds ==
  ASSUME IInv, OwnSessions, Knowing, Closing, users' = users,
         NEW r \in Requests, pc[r] = "endOthers", pc'[r] = "idle",
         \A q \in Requests : q # r => pc'[q] = pc[q] /\ work'[q] = work[q],
         \A s \in Others(work[r].user, work[r].session) : ~Open(s)'
  PROVE  Knowing'
  <1> DEFINE u == work[r].user
             t == work[r].session
  <1>1. t \in SessionIds /\ sessions[t].user = u
    BY DEF IInv, Carries, OwnSteps, OwnSessions
  <1>2. \A s \in SessionIds : Open(s)' /\ sessions[s].user = u => s = t
    BY DEF Others, Closing, Open
  <1>3. SessionsKnowPassword'
    <2> SUFFICES ASSUME NEW s \in SessionIds, Open(s)'
                 PROVE  \/ sessions'[s].password = users'[sessions'[s].user].password
                        \/ \E q \in Requests : pc'[q] = "endOthers" /\
                             work'[q].user = sessions'[s].user
      BY DEF SessionsKnowPassword
    <2>1. /\ Open(s) /\ sessions'[s].password = sessions[s].password
          /\ sessions'[s].user = sessions[s].user
      BY DEF Closing
    <2>2. CASE sessions[s].user # u
      BY <2>1, <2>2 DEF Knowing, SessionsKnowPassword
    <2>3. CASE sessions[s].user = u
      <3>1. s = t
        BY <1>2, <2>3
      <3>2. CASE Overtaken(r)
        <4>1. PICK q \in Requests : pc[q] = "endOthers" /\ work[q].user = u /\ q # r
          BY <3>2 DEF Overtaken
        <4>2. QED
          BY <2>1, <2>3, <4>1
      <3>3. CASE sessions[t].password = users[u].password
        BY <2>1, <2>3, <3>1, <3>3
      <3>4. QED
        BY <2>1, <3>1, <3>2, <3>3 DEF Knowing, ChangesKnow
    <2>4. QED
      BY <2>2, <2>3
  <1>4. SignInsKnow'
    BY DEF Knowing, SignInsKnow
  <1>5. ASSUME NEW q \in Requests, pc'[q] = "endOthers", Open(work[q].session)'
        PROVE  \/ sessions'[work'[q].session].password = users'[work'[q].user].password
               \/ Overtaken(q)'
    <2>1. q # r /\ pc[q] = "endOthers" /\ work'[q] = work[q]
      BY <1>5
    <2>2. work[q].session \in SessionIds /\ sessions[work[q].session].user = work[q].user
      BY <2>1 DEF IInv, Carries, OwnSteps, OwnSessions
    <2>3. PICK s \in SessionIds : s = work[q].session
      BY <2>2
    <2>4. Open(s)'
      BY <1>5, <2>1, <2>3 DEF Open
    <2>5. Open(s) /\ sessions'[s].password = sessions[s].password
      BY <2>4 DEF Closing
    <2>6. CASE sessions[s].password = users[work[q].user].password
      BY <2>1, <2>3, <2>5, <2>6
    <2>7. CASE Overtaken(q)
      <3>1. PICK p \in Requests : /\ pc[p] = "endOthers" /\ work[p].user = work[q].user
                                  /\ work[p].session # s
        BY <2>3, <2>7 DEF Overtaken
      <3>2. p # r
        BY <1>2, <2>2, <2>3, <2>4, <3>1
      <3>3. QED
        BY <2>1, <2>3, <3>1, <3>2 DEF Overtaken
    <2>8. QED
      BY <2>1, <2>3, <2>5, <2>6, <2>7 DEF Knowing, ChangesKnow
  <1>6. ChangesKnow'
    BY <1>5 DEF ChangesKnow
  <1>7. QED
    BY <1>3, <1>4, <1>6 DEF Knowing

\* The process dies when no change of a password has other sessions to end.
LEMMA CrashKnows ==
  ASSUME IInv, OwnSessions, Knowing, Crash, ~Unsettles PROVE Knowing'
  <1>1. /\ UNCHANGED <<users, sessions>>
        /\ \A r \in Requests : pc'[r] = "idle"
    BY DEF Crash
  <1>2. \A r \in Requests : pc[r] = "endOthers" =>
          \A s \in Others(work[r].user, work[r].session) : ~Open(s)
    BY <1>1 DEF Unsettles
  <1>3. SessionsKnowPassword'
    <2> SUFFICES ASSUME NEW s \in SessionIds, Open(s)
                 PROVE  sessions[s].password = users[sessions[s].user].password
      BY <1>1 DEF SessionsKnowPassword, Open
    <2>1. ASSUME NEW r \in Requests, pc[r] = "endOthers", work[r].user = sessions[s].user
          PROVE  sessions[s].password = users[sessions[s].user].password
      <3>1. s = work[r].session
        BY <1>2, <2>1 DEF Others, Open
      <3>2. ~Overtaken(r)
        <4> SUFFICES ASSUME NEW q \in Requests, pc[q] = "endOthers",
                            work[q].user = work[r].user, work[q].session # work[r].session
                     PROVE  FALSE
          BY DEF Overtaken
        <4>1. s \in Others(work[q].user, work[q].session)
          BY <2>1, <3>1 DEF Others, Open
        <4>2. QED
          BY <1>2, <4>1
      <3>3. QED
        BY <2>1, <3>1, <3>2 DEF Knowing, ChangesKnow
    <2>2. QED
      BY <2>1 DEF Knowing, SessionsKnowPassword
  <1>4. QED
    BY <1>1, <1>3 DEF Knowing, SignInsKnow, ChangesKnow

\* A new session knows what its sign-in knows.
LEMMA NewSessionKnows ==
  ASSUME IInv, Knowing, NEW r \in Requests, CreateSession(r) PROVE Knowing'
  <1>1. /\ pc[r] = "session" /\ users' = users /\ pc'[r] = "idle"
        /\ \A q \in Requests : q # r => pc'[q] = pc[q] /\ work'[q] = work[q]
    BY DEF CreateSession, Reply, Goto, Local, IInv, TypeOK
  <1>2. PICK s \in SessionIds :
          /\ sessions[s] = None
          /\ sessions' = [sessions EXCEPT ![s] =
               [user |-> work[r].email, state |-> "open", password |-> work[r].password]]
    BY DEF CreateSession
  <1>3. /\ sessions'[s].user = work[r].email /\ sessions'[s].password = work[r].password
        /\ \A t \in SessionIds : t # s => sessions'[t] = sessions[t]
    BY <1>2 DEF IInv, TypeOK
  <1>4. SessionsKnowPassword'
    <2> SUFFICES ASSUME NEW t \in SessionIds, Open(t)'
                 PROVE  \/ sessions'[t].password = users'[sessions'[t].user].password
                        \/ \E q \in Requests : pc'[q] = "endOthers" /\
                             work'[q].user = sessions'[t].user
      BY DEF SessionsKnowPassword
    <2>1. CASE t = s
      BY <1>1, <1>3, <2>1 DEF Knowing, SignInsKnow
    <2>2. CASE t # s
      <3>1. Open(t) /\ sessions'[t] = sessions[t]
        BY <1>3, <2>2 DEF Open
      <3>2. QED
        BY <1>1, <3>1 DEF Knowing, SessionsKnowPassword
    <2>3. QED
      BY <2>1, <2>2
  <1>5. SignInsKnow'
    BY <1>1 DEF Knowing, SignInsKnow
  <1>6. ASSUME NEW q \in Requests, pc'[q] = "endOthers", Open(work[q].session)'
        PROVE  \/ sessions'[work'[q].session].password = users'[work'[q].user].password
               \/ Overtaken(q)'
    <2>1. q # r /\ pc[q] = "endOthers" /\ work'[q] = work[q]
      BY <1>1, <1>6
    <2>2. work[q].session \in SessionIds /\ sessions[work[q].session] # None
      BY <2>1 DEF IInv, Carries, OwnSteps
    <2>3. sessions'[work[q].session] = sessions[work[q].session]
      BY <1>2, <1>3, <2>2
    <2>4. Open(work[q].session)
      BY <1>6, <2>1, <2>3 DEF Open
    <2>5. Overtaken(q) => Overtaken(q)'
      BY <1>1, <2>1 DEF Overtaken
    <2>6. QED
      BY <1>1, <2>1, <2>3, <2>4, <2>5 DEF Knowing, ChangesKnow
  <1>7. ChangesKnow'
    BY <1>6 DEF ChangesKnow
  <1>8. QED
    BY <1>4, <1>5, <1>7 DEF Knowing

\* A password is replaced while nobody signs in to the account.
LEMMA OwnPasswordKnows ==
  ASSUME IInv, OwnSessions, Knowing, Calm, NEW r \in Requests, WriteOwnPassword(r)
  PROVE  Knowing'
  <1>1. PICK u \in Emails, t \in SessionIds, p \in Passwords \cup {None} :
          u = work[r].user /\ t = work[r].session /\ p = work[r].password
    BY DEF WriteOwnPassword, IInv, TypeOK, Work, Carries, OwnSteps
  <1>2. /\ pc[r] = "writeOwn" /\ pc'[r] = "endOthers" /\ work' = work
        /\ \A q \in Requests : q # r => pc'[q] = pc[q]
    BY DEF WriteOwnPassword, Goto, IInv, TypeOK
  <1>3. users[u] \in User /\ sessions[t] \in Session /\ sessions[t].user = u
    BY <1>1, <1>2 DEF IInv, TypeOK, Carries, OwnSteps, OwnSessions
  <1>4. /\ users'[u].password = p
        /\ \A v \in Emails : v # u => users'[v] = users[v]
    BY <1>1, <1>3 DEF WriteOwnPassword, IInv, TypeOK, User
  <1>5. /\ sessions'[t].password = p /\ sessions'[t].state = sessions[t].state
        /\ sessions'[t].user = u
        /\ \A s \in SessionIds : s # t => sessions'[s] = sessions[s]
    BY <1>1, <1>3 DEF WriteOwnPassword, IInv, TypeOK, Session
  <1>6. SessionsKnowPassword'
    <2> SUFFICES ASSUME NEW s \in SessionIds, Open(s)'
                 PROVE  \/ sessions'[s].password = users'[sessions'[s].user].password
                        \/ \E q \in Requests : pc'[q] = "endOthers" /\
                             work'[q].user = sessions'[s].user
      BY DEF SessionsKnowPassword
    <2>1. CASE sessions'[s].user = u
      BY <1>1, <1>2, <2>1
    <2>2. CASE sessions'[s].user # u
      <3>1. s # t /\ sessions'[s] = sessions[s] /\ Open(s)
        BY <1>5, <2>2 DEF Open
      <3>2. sessions[s].user \in Emails
        BY <3>1, OpenHasUser
      <3>3. QED
        BY <1>2, <1>4, <2>2, <3>1, <3>2 DEF Knowing, SessionsKnowPassword
    <2>3. QED
      BY <2>1, <2>2
  <1>7. SignInsKnow'
    <2> SUFFICES ASSUME NEW q \in Requests, pc'[q] = "session"
                 PROVE  work[q].password = users'[work[q].email].password
      BY <1>2 DEF SignInsKnow
    <2>1. q # r /\ pc[q] = "session" /\ work[q].email \in Emails
      BY <1>2 DEF IInv, Carries
    <2>2. work[q].email # u
      BY <1>1, <1>2, <2>1 DEF Calm, SigningIn
    <2>3. QED
      BY <1>4, <2>1, <2>2 DEF Knowing, SignInsKnow
  <1>8. ASSUME NEW q \in Requests, pc'[q] = "endOthers", Open(work[q].session)'
        PROVE  \/ sessions'[work[q].session].password = users'[work[q].user].password
               \/ Overtaken(q)'
    <2>1. CASE q = r
      BY <1>1, <1>4, <1>5, <2>1
    <2>2. CASE q # r
      <3>1. pc[q] = "endOthers"
        BY <1>2, <1>8, <2>2
      <3>2. /\ work[q].session \in SessionIds /\ work[q].user \in Emails
            /\ sessions[work[q].session].user = work[q].user
        BY <3>1 DEF IInv, Carries, OwnSteps, OwnSessions
      <3>3. CASE work[q].user = u
        <4>1. CASE work[q].session = t
          BY <1>4, <1>5, <3>3, <4>1
        <4>2. CASE work[q].session # t
          BY <1>1, <1>2, <3>3, <4>2 DEF Overtaken
        <4>3. QED
          BY <4>1, <4>2
      <3>4. CASE work[q].user # u
        <4>1. sessions'[work[q].session] = sessions[work[q].session]
          BY <1>3, <1>5, <3>2, <3>4
        <4>2. Open(work[q].session)
          BY <1>8, <1>2, <4>1 DEF Open
        <4>3. Overtaken(q) => Overtaken(q)'
          BY <1>2 DEF Overtaken
        <4>4. QED
          BY <1>4, <3>1, <3>2, <3>4, <4>1, <4>2, <4>3 DEF Knowing, ChangesKnow
      <3>5. QED
        BY <3>3, <3>4
    <2>3. QED
      BY <2>1, <2>2
  <1>9. ChangesKnow'
    BY <1>2, <1>8 DEF ChangesKnow
  <1>10. QED
    BY <1>6, <1>7, <1>9 DEF Knowing

\* Sessions keep their owner.
LEMMA OwnersStay ==
  ASSUME IInv, [Next]_vars, NEW s \in SessionIds, sessions[s] # None
  PROVE  sessions'[s].user = sessions[s].user
  <1>1. sessions[s] \in Session /\ sessions \in [SessionIds -> Session \cup {None}]
    BY DEF IInv, TypeOK
  <1>2. ASSUME NEW r \in Requests, Handler(r), sessions' # sessions
        PROVE  CreateSession(r) \/ SignOut(r) \/ WriteOwnPassword(r) \/ EndOtherSessions(r)
    BY <1>2, Zenon DEF Handler, BeginSignUp, BeginSignIn, BeginWithCookie, Begin, EmailFree,
       EmailTaken, CountAdmins, InsertUser, InsertRefused, CheckCredentials,
       RefuseCredentials, CheckSession, RefuseSession, CheckUser, RefuseUser,
       Verify, RefuseVerify, ReadTarget, RefuseTarget, WriteStatus, WritePassword,
       StatementFails, Refuse
  <1>3. ASSUME NEW r \in Requests, CreateSession(r) PROVE sessions'[s] = sessions[s]
    BY <1>1, <1>3 DEF CreateSession
  <1>4. ASSUME NEW r \in Requests, SignOut(r) \/ WriteOwnPassword(r)
        PROVE  sessions'[s].user = sessions[s].user
    BY <1>1, <1>4 DEF SignOut, WriteOwnPassword, Session
  <1>5. ASSUME NEW r \in Requests, EndOtherSessions(r)
        PROVE  sessions'[s].user = sessions[s].user
    BY <1>1, <1>5 DEF EndOtherSessions, Session
  <1>6. ASSUME NEW t \in SessionIds, Expire(t) PROVE sessions'[s].user = sessions[s].user
    BY <1>1, <1>6 DEF Expire, Session
  <1>7. CASE Crash \/ UNCHANGED vars
    BY <1>7 DEF Crash, vars
  <1>8. QED
    BY <1>2, <1>3, <1>4, <1>5, <1>6, <1>7 DEF Next

\* Only the request that takes a step changes, and only CheckUser makes it act
\* for an account.
LEMMA OwnFrame ==
  ASSUME IInv, NEW r \in Requests, Handler(r)
  PROVE  /\ \A q \in Requests : q # r => pc'[q] = pc[q] /\ work'[q] = work[q]
         /\ pc'[r] \in OwnSteps =>
              \/ pc[r] \in OwnSteps /\ work'[r] = work[r]
              \/ /\ CheckUser(r) /\ work'[r].session = work[r].session
                 /\ work'[r].user = sessions[work[r].session].user
  <1> USE DEF IInv, TypeOK, Goto, Local, Reply, Refuse, OwnSteps
  <1>1. CASE BeginSignUp(r) \/ BeginSignIn(r)
    BY <1>1 DEF BeginSignUp, BeginSignIn, Begin
  <1>2. CASE BeginWithCookie(r)
    <2>1. PICK w : Begin(r, "cookie", w)
      BY <1>2, Zenon DEF BeginWithCookie
    <2>2. QED
      BY <2>1 DEF Begin
  <1>3. CASE EmailFree(r) \/ EmailTaken(r) \/ CountAdmins(r) \/ InsertUser(r)
             \/ InsertRefused(r) \/ CheckCredentials(r) \/ RefuseCredentials(r)
    BY <1>3 DEF EmailFree, EmailTaken, CountAdmins, InsertUser, InsertRefused,
       CheckCredentials, RefuseCredentials
  <1>4. CASE CreateSession(r) \/ CheckSession(r) \/ RefuseSession(r) \/ RefuseUser(r)
             \/ SignOut(r)
    BY <1>4 DEF CreateSession, CheckSession, RefuseSession, RefuseUser, SignOut
  <1>5. CASE CheckUser(r)
    <2> DEFINE w == [work[r] EXCEPT !.user = sessions[work[r].session].user]
    <2>1. w.session = work[r].session /\ w.user = sessions[work[r].session].user
      BY DEF Work
    <2>2. Goto(r, FirstStep(work[r].kind)) /\ Local(r, w)
      BY <1>5 DEF CheckUser
    <2> HIDE DEF w
    <2>3. QED
      BY <1>5, <2>1, <2>2
  <1>6. CASE Verify(r) \/ RefuseVerify(r) \/ WriteOwnPassword(r) \/ EndOtherSessions(r)
    BY <1>6 DEF Verify, RefuseVerify, WriteOwnPassword, EndOtherSessions
  <1>7. CASE ReadTarget(r) \/ RefuseTarget(r) \/ WriteStatus(r) \/ WritePassword(r)
             \/ StatementFails(r)
    BY <1>7 DEF ReadTarget, RefuseTarget, WriteStatus, WritePassword, StatementFails
  <1>8. QED
    BY <1>1, <1>2, <1>3, <1>4, <1>5, <1>6, <1>7, Zenon DEF Handler

LEMMA OwnSessionsNext ==
  ASSUME IInv, OwnSessions, [Next]_vars PROVE OwnSessions'
  <1> SUFFICES ASSUME NEW r \in Requests, pc'[r] \in OwnSteps
               PROVE  sessions'[work'[r].session].user = work'[r].user
    BY DEF OwnSessions
  <1>1. CASE pc[r] \in OwnSteps /\ work'[r] = work[r]
    <2>1. work[r].session \in SessionIds /\ sessions[work[r].session] # None
      BY <1>1 DEF IInv, Carries
    <2>2. QED
      BY <1>1, <2>1, OwnersStay DEF OwnSessions
  <1>2. CASE /\ CheckUser(r) /\ work'[r].session = work[r].session
             /\ work'[r].user = sessions[work[r].session].user
    BY <1>2 DEF CheckUser
  <1>3. CASE Crash \/ UNCHANGED vars
    BY <1>1, <1>3 DEF Crash, vars, OwnSteps
  <1>4. ASSUME NEW s \in SessionIds, Expire(s)
        PROVE  pc[r] \in OwnSteps /\ work'[r] = work[r]
    BY <1>4 DEF Expire
  <1>5. QED
    BY <1>1, <1>2, <1>3, <1>4, OwnFrame DEF Next

\* The steps of a request that neither write a password, nor open a session,
\* nor end a change of a password.
LEMMA OtherStepsKnow ==
  ASSUME IInv, Knowing, NEW r \in Requests, Handler(r), ~CreateSession(r),
         ~WriteOwnPassword(r), pc[r] # "endOthers",
         pc[r] = "writePassword" => users' = users
  PROVE  Knowing'
  <1>1. \A q \in Requests : q # r => pc'[q] = pc[q] /\ work'[q] = work[q]
    BY OwnFrame
  <1>2. work[r] \in Work /\ Carries(pc[r], work[r], users, sessions)
    BY DEF IInv, TypeOK
  <1>3. Closing
    <2>1. CASE SignOut(r)
      <3>1. work[r].session \in SessionIds /\ sessions[work[r].session] \in Session
        BY <1>2, <2>1 DEF SignOut, Carries, CookieSteps, IInv, TypeOK
      <3>2. QED
        BY <2>1, <3>1 DEF SignOut, Closing, Open, IInv, TypeOK, Session
    <2>2. CASE sessions' = sessions
      BY <2>2 DEF Closing, Open
    <2>3. ~EndOtherSessions(r)
      BY DEF EndOtherSessions
    <2>4. ~SignOut(r) => sessions' = sessions
      BY <2>3, Zenon DEF Handler, BeginSignUp, BeginSignIn, BeginWithCookie, Begin,
         EmailFree, EmailTaken, CountAdmins, InsertUser, InsertRefused, CheckCredentials,
         RefuseCredentials, CheckSession, RefuseSession, CheckUser, RefuseUser,
         Verify, RefuseVerify, ReadTarget, RefuseTarget, WriteStatus, WritePassword,
         StatementFails, Refuse
    <2>5. QED
      BY <2>1, <2>2, <2>4
  <1>4. \A u \in Emails : users[u] # None => users'[u].password = users[u].password
    <2>1. CASE InsertUser(r)
      BY <2>1 DEF InsertUser, Exists, IInv, TypeOK
    <2>2. CASE WriteStatus(r)
      <3>1. work[r].email \in Emails /\ users[work[r].email] \in User
        BY <1>2, <2>2 DEF WriteStatus, Carries, AdminSteps, IInv, TypeOK
      <3>2. QED
        BY <2>2, <3>1 DEF WriteStatus, IInv, TypeOK, User
    <2>3. WritePassword(r) => users' = users
      BY DEF WritePassword
    <2>4. ~InsertUser(r) /\ ~WriteStatus(r) /\ ~WritePassword(r) => users' = users
      BY Zenon DEF Handler, BeginSignUp, BeginSignIn, BeginWithCookie, Begin,
         EmailFree, EmailTaken, CountAdmins, InsertRefused, CheckCredentials,
         RefuseCredentials, CheckSession, RefuseSession, CheckUser, RefuseUser, SignOut,
         EndOtherSessions, Verify, RefuseVerify, ReadTarget, RefuseTarget,
         StatementFails, Refuse
    <2>5. QED
      BY <2>1, <2>2, <2>3, <2>4
  <1>5. /\ pc'[r] # "endOthers"
        /\ pc'[r] = "session" => work'[r].password = users'[work'[r].email].password
    <2> USE DEF IInv, TypeOK, Goto, Local, Reply, Refuse
    <2>1. CASE BeginSignUp(r) \/ BeginSignIn(r)
      BY <2>1 DEF BeginSignUp, BeginSignIn, Begin
    <2>2. CASE BeginWithCookie(r)
      <3>1. PICK w : Begin(r, "cookie", w)
        BY <2>2, Zenon DEF BeginWithCookie
      <3>2. QED
        BY <3>1 DEF Begin
    <2>3. CASE EmailFree(r) \/ EmailTaken(r) \/ CountAdmins(r) \/ InsertUser(r)
               \/ InsertRefused(r) \/ RefuseCredentials(r)
      BY <2>3 DEF EmailFree, EmailTaken, CountAdmins, InsertUser, InsertRefused,
         RefuseCredentials
    <2>4. CASE CheckCredentials(r)
      BY <2>4 DEF CheckCredentials, MaySignIn
    <2>5. CASE CheckSession(r) \/ RefuseSession(r) \/ RefuseUser(r) \/ SignOut(r)
      BY <2>5 DEF CheckSession, RefuseSession, RefuseUser, SignOut
    <2>6. CASE CheckUser(r)
      BY <2>6 DEF CheckUser, FirstStep
    <2>7. CASE Verify(r) \/ RefuseVerify(r) \/ EndOtherSessions(r)
      BY <2>7 DEF Verify, RefuseVerify, EndOtherSessions
    <2>8. CASE ReadTarget(r) \/ RefuseTarget(r) \/ WriteStatus(r) \/ WritePassword(r)
               \/ StatementFails(r)
      BY <2>8 DEF ReadTarget, RefuseTarget, WriteStatus, WritePassword, StatementFails
    <2>9. QED
      BY <2>1, <2>2, <2>3, <2>4, <2>5, <2>6, <2>7, <2>8, Zenon DEF Handler
  <1>6. \A q \in Requests :
          /\ pc'[q] = "endOthers" <=> pc[q] = "endOthers"
          /\ pc[q] = "endOthers" => work'[q] = work[q]
          /\ pc'[q] = "session" =>
               \/ pc[q] = "session" /\ work'[q] = work[q]
               \/ work'[q].password = users'[work'[q].email].password
    BY <1>1, <1>5
  <1>7. QED
    BY <1>3, <1>4, <1>6, KnowingKept

LEMMA KnowingNext ==
  ASSUME IInv, OwnSessions, Knowing, Next, ~Unsettles PROVE Knowing'
  <1>1. ASSUME NEW r \in Requests, Handler(r) PROVE Knowing'
    <2>1. CASE CreateSession(r)
      BY <2>1, NewSessionKnows
    <2>2. CASE WriteOwnPassword(r)
      BY <2>2, OwnPasswordKnows DEF Unsettles
    <2>3. CASE pc[r] = "endOthers"
      <3>1. EndOtherSessions(r) \/ StatementFails(r)
        BY <1>1, <2>3, Zenon DEF Handler, BeginSignUp, BeginSignIn, BeginWithCookie, Begin,
           EmailFree, EmailTaken, CountAdmins, InsertUser, InsertRefused,
           CheckCredentials, RefuseCredentials, CreateSession, CheckSession,
           RefuseSession, CheckUser, RefuseUser, SignOut, Verify, RefuseVerify,
           WriteOwnPassword, ReadTarget, RefuseTarget, WriteStatus, WritePassword
      <3>2. /\ pc'[r] = "idle" /\ users' = users
            /\ \A q \in Requests : q # r => pc'[q] = pc[q] /\ work'[q] = work[q]
        BY <3>1 DEF EndOtherSessions, StatementFails, Refuse, Reply, Goto, Local, IInv,
           TypeOK
      <3>3. Closing /\ \A s \in Others(work[r].user, work[r].session) : ~Open(s)'
        <4>1. CASE EndOtherSessions(r)
          <5>1. \A s \in SessionIds : sessions[s] # None => sessions[s] \in Session
            BY DEF IInv, TypeOK
          <5>2. \A s \in Others(work[r].user, work[r].session) :
                  s \in SessionIds /\ sessions[s] # None
            BY DEF Others
          <5>3. \A s \in SessionIds :
                  sessions'[s] = IF s \in Others(work[r].user, work[r].session)
                                 THEN [sessions[s] EXCEPT !.state = "deleted"]
                                 ELSE sessions[s]
            BY <4>1 DEF EndOtherSessions
          <5>4. \A s \in Others(work[r].user, work[r].session) :
                  sessions'[s].state = "deleted"
            BY <5>1, <5>2, <5>3 DEF Session
          <5>5. QED
            BY <5>2, <5>3, <5>4 DEF Closing, Open
        <4>2. CASE StatementFails(r)
          <5>1. sessions' = sessions
            BY <4>2 DEF StatementFails, Refuse
          <5>2. QED
            BY <2>3, <3>2, <5>1 DEF Unsettles, Closing, Open
        <4>3. QED
          BY <3>1, <4>1, <4>2
      <3>4. QED
        BY <2>3, <3>2, <3>3, ChangeEnds
    <2>4. pc[r] = "writePassword" => users' = users
      BY DEF Unsettles
    <2>5. QED
      BY <1>1, <2>1, <2>2, <2>3, <2>4, OtherStepsKnow
  <1>2. ASSUME NEW s \in SessionIds, Expire(s) PROVE Knowing'
    <2>1. Closing
      BY <1>2 DEF Expire, Closing, Open, IInv, TypeOK, Session
    <2>2. QED
      BY <1>2, <2>1, KnowingKept DEF Expire
  <1>3. CASE Crash
    BY <1>3, CrashKnows
  <1>4. QED
    BY <1>1, <1>2, <1>3 DEF Next

LEMMA SettledInit == MCInit => SettledInv
  <1> SUFFICES ASSUME MCInit PROVE SettledInv
    OBVIOUS
  <1>1. IInv
    BY Initial DEF MCInit
  <1>2. /\ \A r \in Requests : pc[r] = "idle"
        /\ \A s \in SessionIds : sessions[s] = None
    BY DEF MCInit, Init
  <1>3. QED
    BY <1>1, <1>2 DEF SettledInv, MCInit, OwnSessions, OwnSteps, Knowing,
       SessionsKnowPassword, SignInsKnow, ChangesKnow, Open

LEMMA SettledNext == SettledInv /\ [MCNext]_<<vars, settled>> => SettledInv'
  <1> SUFFICES ASSUME SettledInv, [MCNext]_<<vars, settled>> PROVE SettledInv'
    OBVIOUS
  <1>1. CASE MCNext
    <2>1. IInv' /\ OwnSessions' /\ settled' \in BOOLEAN
      BY <1>1, NextKeeps, OwnSessionsNext DEF SettledInv, MCNext
    <2>2. settled' => Knowing'
      BY <1>1, KnowingNext DEF SettledInv, MCNext
    <2>3. QED
      BY <2>1, <2>2 DEF SettledInv
  <1>2. CASE UNCHANGED <<vars, settled>>
    <2>1. IInv'
      BY <1>2, NextKeeps DEF SettledInv, vars
    <2>2. QED
      BY <1>2, <2>1 DEF SettledInv, vars, OwnSessions, Knowing, SessionsKnowPassword,
         SignInsKnow, ChangesKnow, Overtaken, Open
  <1>3. QED
    BY <1>1, <1>2

\* Unless a sign-in overlapped a change of the password, a super admin set it,
\* or ending the other sessions failed, no session outlives the password it was
\* opened with, however many changes of one account overlap.
THEOREM SessionsEndWithPassword == MCSpec => []SettledSessionsEnd
  <1>1. SettledInv => SettledSessionsEnd
    BY DEF SettledInv, Knowing, SettledSessionsEnd
  <1>2. QED
    BY <1>1, SettledInit, SettledNext, PTL DEF MCSpec
=============================================================================
