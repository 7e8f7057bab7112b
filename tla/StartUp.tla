------------------------------ MODULE StartUp ------------------------------
(***************************************************************************)
(* The life of the agents of one directory: config.New and GenerateEnvFile,*)
(* main, the migrations (module Migrations) on the way, and the secret     *)
(* that signs the cookies of sessions, which outlive the agent.            *)
(*                                                                         *)
(* A secret is the number of the launch that drew it; half a secret, what  *)
(* a full disk leaves of the line in .env, is its negative.  Zero is none. *)
(***************************************************************************)
EXTENDS Migrations

CONSTANTS
  Ports,        \* what PORT may be, in .env or in the environment of a launch
  MaxLaunches   \* bound on launches

ASSUME PortAssumption   == Jobs = {"up"}
ASSUME LaunchAssumption == MaxLaunches \in Nat

VARIABLES
  stage,     \* how far each agent is in main
  own,       \* the secret an agent drew for defaultEnvVars
  loaded,    \* the secret it found in .env when it was launched
  bound,     \* ports that are taken: <<port, agent>>
  envFile,   \* .env: <<>> if there is none, or the secret in it, 0 for none
  launches,  \* launches so far
  cookies,   \* secrets that signed the cookies of sessions
  calm       \* history: .env was written in one go, by an agent on its own

startVars == <<vars, stage, own, loaded, bound, envFile, launches, cookies, calm>>
drawn     == <<own, loaded, launches>>

-----------------------------------------------------------------------------

Missing   == <<>>
Empty     == <<0>>
HasSecret == envFile # Missing /\ envFile # Empty

Stages      == {"off", "stat", "create", "write", "connect", "migrate", "listen", "serve"}
Configuring == {"stat", "create", "write"}

\* Mutant: the default is set whether or not .env has been read.
DefaultSecret(a) == own[a]

\* os.LookupEnv, or the default; a variable that is set and empty is replaced
\* by a secret as fresh as the default.
CookieSecret(a) == IF loaded[a] = 0 THEN own[a] ELSE loaded[a]

\* VerifyCookie: the signature has to be of one's own secret.
Accepts(a, secret) == secret = CookieSecret(a)

Reach(a, s) == stage' = [stage EXCEPT ![a] = s]

StartInit ==
  /\ Init
  /\ stage = [a \in Agents |-> "off"]
  /\ own = [a \in Agents |-> 0] /\ loaded = [a \in Agents |-> 0]
  /\ bound = {} /\ envFile = Missing /\ launches = 0 /\ cookies = {} /\ calm = TRUE

-----------------------------------------------------------------------------
(* Configuration.                                                          *)

\* Before main: godotenv reads .env, the package config draws its defaults.
Launch(a) ==
  /\ stage[a] = "off" /\ launches < MaxLaunches
  /\ Reach(a, "stat")
  /\ launches' = launches + 1
  /\ own' = [own EXCEPT ![a] = launches + 1]
  /\ loaded' = [loaded EXCEPT ![a] = IF envFile = Missing THEN 0 ELSE envFile[1]]
  /\ calm' = (calm /\ (HasSecret \/ \A b \in Agents : stage[b] \notin Configuring))
  /\ UNCHANGED <<vars, bound, envFile, cookies>>

\* A file that is there, whatever is in it, is left alone.
Stat(a) ==
  /\ stage[a] = "stat"
  /\ Reach(a, IF envFile = Missing THEN "create" ELSE "connect")
  /\ UNCHANGED <<vars, drawn, bound, envFile, cookies, calm>>

\* os.WriteFile: an empty file first ...
CreateEnvFile(a) ==
  /\ stage[a] = "create" /\ Reach(a, "write")
  /\ envFile' = Empty
  /\ UNCHANGED <<vars, drawn, bound, cookies, calm>>

\* ... then the defaults.
WriteEnvFile(a) ==
  /\ stage[a] = "write" /\ Reach(a, "connect")
  /\ envFile' = <<own[a]>>
  /\ UNCHANGED <<vars, drawn, bound, cookies, calm>>

\* No permission, or a full disk: a warning, and the agent goes on.
EnvFileFails(a) ==
  /\ stage[a] \in {"create", "write"} /\ Reach(a, "connect")
  /\ envFile' \in IF stage[a] = "create" THEN {envFile} ELSE {Empty, <<-own[a]>>}
  /\ calm' = FALSE
  /\ UNCHANGED <<vars, drawn, bound, cookies>>

-----------------------------------------------------------------------------
(* The rest of main.                                                       *)

\* Connect, and the call of MigrateUp.
Connect(a) ==
  /\ stage[a] = "connect" /\ Reach(a, "migrate")
  /\ Start(a)
  /\ UNCHANGED <<drawn, bound, envFile, cookies, calm>>

\* A step of MigrateUp; its error ends the process, its end leads on to the
\* defaults of the settings, the first round of metrics and the port.
Migrating(a) ==
  /\ stage[a] = "migrate"
  /\ Step(a)
  /\ Reach(a, IF pc'[a] = "failed" THEN "off"
              ELSE IF pc'[a] = "done" THEN "listen" ELSE "migrate")
  /\ UNCHANGED <<drawn, bound, envFile, cookies, calm>>

Listen(a) ==
  /\ stage[a] = "listen" /\ Reach(a, "serve")
  /\ \E p \in Ports : /\ \A b \in Agents : <<p, b>> \notin bound
                      /\ bound' = bound \cup {<<p, a>>}
  /\ UNCHANGED <<vars, drawn, envFile, cookies, calm>>

\* No database, or a port that is taken, by an agent or another program.
Exit(a) ==
  /\ stage[a] \in {"connect", "listen"} /\ Reach(a, "off")
  /\ UNCHANGED <<vars, drawn, bound, envFile, cookies, calm>>

\* A sign-in; the session is in the database, its cookie with the browser.
SignIn(a) ==
  /\ stage[a] = "serve"
  /\ cookies' = cookies \cup {CookieSecret(a)}
  /\ UNCHANGED <<vars, stage, drawn, bound, envFile, calm>>

\* The agent is killed; it handles no signal before it has stopped to serve.
Kill(a) ==
  /\ stage[a] # "off" /\ Reach(a, "off")
  /\ IF stage[a] \in {"migrate", "listen", "serve"} THEN Crash(a) ELSE UNCHANGED vars
  /\ bound' = bound \ (Ports \X {a})
  /\ calm' = (calm /\ stage[a] # "write")
  /\ UNCHANGED <<drawn, envFile, cookies>>

Configure(a) ==
  Launch(a) \/ Stat(a) \/ CreateEnvFile(a) \/ WriteEnvFile(a) \/ EnvFileFails(a)

StartNext ==
  \E a \in Agents :
    Configure(a) \/ Connect(a) \/ Migrating(a) \/ Listen(a) \/ Exit(a) \/ SignIn(a) \/ Kill(a)

StartSpec == StartInit /\ [][StartNext]_startVars

-----------------------------------------------------------------------------
(* Properties.                                                             *)

StartTypeOK ==
  /\ stage \in [Agents -> Stages]
  /\ own \in [Agents -> Nat] /\ loaded \in [Agents -> Int]
  /\ bound \subseteq Ports \X {a \in Agents : stage[a] = "serve"}
  /\ envFile \in Seq(Int) /\ Len(envFile) <= 1
  /\ launches \in Nat /\ cookies \subseteq Int /\ calm \in BOOLEAN

\* An agent that answers requests has the whole schema to answer them with.
ServesOnWholeSchema == \A a \in Agents : stage[a] = "serve" => objects = Objects

\* CheckCookie: every agent that serves accepts the cookies that were signed
\* before it was started, and those of the other agents, provided that the
\* first .env was written without another start, an error or a kill meanwhile.
CookiesOutliveRestarts ==
  calm => \A a \in Agents : stage[a] = "serve" => \A secret \in cookies : Accepts(a, secret)
=============================================================================
