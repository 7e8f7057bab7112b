-------------------------- MODULE MigrationsProofs --------------------------
(***************************************************************************)
(* Safety of MigrateUp for every number of agents and every list of        *)
(* migrations.  Rollbacks are left to TLC: no theorem holds of them when   *)
(* they may be interrupted.  StartUp implements Migrations, which carries  *)
(* the theorems over to the agents that run it, and keeps its cookies good.*)
(***************************************************************************)
EXTENDS MCStartUp, TLAPS

\* What main calls.
UpOnly == Jobs = {"up"}

-----------------------------------------------------------------------------
(* The inductive invariant.                                                *)

\* A mark stands for the whole script.
MarkedIsCreated == \A m \in marks : ObjectsOf(m) \subseteq objects

\* What agent a has behind it.
Behind(a) ==
  LET w == work[a] IN
  /\ w.job = "up"
  /\ pc[a] \in Running => 1..(w.at - 1) \subseteq marks
  /\ pc[a] = "run" => /\ w.next \in DOMAIN Creates[w.at]
                      /\ \A i \in 1..(w.next - 1) : Creates[w.at][i] \in objects
  /\ pc[a] = "mark" => ObjectsOf(w.at) \subseteq objects
  /\ pc[a] = "done" => marks = Versions

IInv == TypeOK /\ NoGap /\ MarkedIsCreated /\ \A a \in Agents : Behind(a)

-----------------------------------------------------------------------------
(* Scripts.                                                                *)

LEMMA ScriptFacts ==
  ASSUME NEW m \in Versions
  PROVE  /\ m \in Nat /\ 1 <= m /\ m <= Last /\ Last \in Nat
         /\ Len(Creates[m]) \in Nat \ {0}
         /\ DOMAIN Creates[m] = 1..Len(Creates[m])
         /\ \A i \in DOMAIN Creates[m] : Creates[m][i] \in ObjectsOf(m)
         /\ ObjectsOf(m) \subseteq Objects
  <1>1. m \in Nat /\ 1 <= m /\ m <= Last /\ Last \in Nat
    BY JobAssumption DEF Versions
  <1>2. Creates[m] \in Seq(ObjectsOf(m)) /\ Creates[m] # <<>>
    BY ScriptAssumption
  <1>3. QED
    BY <1>1, <1>2 DEF ObjectsOf, Objects

\* More objects and more marks leave behind what was behind.
LEMMA BehindGrows ==
  ASSUME NEW a \in Agents, Behind(a), UNCHANGED <<pc[a], work[a]>>,
         objects \subseteq objects', marks \subseteq marks', marks' \subseteq Versions
  PROVE  Behind(a)'
  BY DEF Behind

-----------------------------------------------------------------------------
(* Initial states and steps.                                               *)

LEMMA Initial == Init => IInv
  BY JobAssumption DEF Init, IInv, TypeOK, NoGap, MarkedIsCreated, Behind, Steps, Running, Versions

LEMMA StartKeeps ==
  ASSUME UpOnly, IInv, NEW a \in Agents, Start(a)
  PROVE  IInv'
  <1> USE DEF IInv, TypeOK
  <1>1. /\ pc' = [pc EXCEPT ![a] = "check"]
        /\ work' = [work EXCEPT ![a] = [job |-> "up", at |-> 1, next |-> 1]]
        /\ UNCHANGED <<objects, marks>>
    BY DEF UpOnly, Start, Goto, First
  <1>2. TypeOK' /\ NoGap' /\ MarkedIsCreated'
    BY <1>1, JobAssumption DEF NoGap, MarkedIsCreated, Steps, Versions
  <1>3. Behind(a)'
    BY <1>1 DEF Behind, Running
  <1>4. \A b \in Agents : b # a => Behind(b)'
    BY <1>1 DEF Behind
  <1>5. QED
    BY <1>2, <1>3, <1>4

\* The end of one migration: its number and all before it are marked.
LEMMA AdvanceKeeps ==
  ASSUME IInv, NEW a \in Agents, Advance(a), pc[a] \in Running,
         objects \subseteq objects', objects' \subseteq Objects,
         marks \subseteq marks', marks' \subseteq Versions,
         NoGap', MarkedIsCreated', 1..work[a].at \subseteq marks'
  PROVE  IInv'
  <1> USE DEF IInv, TypeOK
  <1> DEFINE m == work[a].at
  <1>1. m \in Versions /\ work[a].job = "up"
    BY DEF Behind
  <1>2. CASE m = Last
    <2>1. pc' = [pc EXCEPT ![a] = "done"] /\ work' = work
      BY <1>1, <1>2 DEF Advance, IsLast, Goto
    <2>2. marks' = Versions
      BY <1>2 DEF Versions
    <2>3. Behind(a)'
      BY <1>1, <2>1, <2>2 DEF Behind, Running
    <2>4. \A b \in Agents : b # a => Behind(b)'
      BY <2>1, BehindGrows
    <2>5. TypeOK'
      BY <2>1 DEF Steps
    <2>6. QED
      BY <2>3, <2>4, <2>5
  <1>3. CASE m # Last
    <2>1. /\ pc' = [pc EXCEPT ![a] = "check"]
          /\ work' = [work EXCEPT ![a].at = m + 1]
      BY <1>1, <1>3 DEF Advance, IsLast, After, Goto
    <2>2. m + 1 \in Versions /\ 1..((m + 1) - 1) \subseteq marks'
      BY <1>1, <1>3, ScriptFacts DEF Versions
    <2>3. /\ work' \in [Agents -> [job : {"up", "down"}, at : Versions, next : Nat \ {0}]]
          /\ work'[a].at = m + 1 /\ work'[a].job = "up"
          /\ \A b \in Agents : b # a => work'[b] = work[b]
      BY <1>1, <2>1, <2>2
    <2>4. Behind(a)'
      BY <2>1, <2>2, <2>3 DEF Behind
    <2>5. \A b \in Agents : b # a => Behind(b)'
      BY <2>1, <2>3, BehindGrows
    <2>6. TypeOK'
      BY <2>1, <2>3 DEF Steps
    <2>7. QED
      BY <2>4, <2>5, <2>6
  <1>4. QED
    BY <1>2, <1>3

LEMMA CheckKeeps ==
  ASSUME IInv, NEW a \in Agents, Check(a)
  PROVE  IInv'
  <1> USE DEF IInv, TypeOK
  <1>1. work[a].job = "up" /\ pc[a] = "check" /\ UNCHANGED <<objects, marks>>
    BY DEF Check, Behind
  <1>2. NoGap' /\ MarkedIsCreated'
    BY <1>1 DEF NoGap, MarkedIsCreated
  <1>3. CASE work[a].at \in marks
    <2>1. 1..work[a].at \subseteq marks /\ Advance(a)
      BY <1>1, <1>3 DEF NoGap, Check, Due
    <2>2. QED
      BY <1>1, <1>2, <2>1, AdvanceKeeps DEF Running
  <1>4. CASE work[a].at \notin marks
    <2>1. /\ pc' = [pc EXCEPT ![a] = "run"]
          /\ work' = [work EXCEPT ![a].next = 1]
      BY <1>1, <1>4 DEF Check, Due, Goto
    <2>2. /\ work' \in [Agents -> [job : {"up", "down"}, at : Versions, next : Nat \ {0}]]
          /\ work'[a].at = work[a].at /\ work'[a].job = "up" /\ work'[a].next = 1
          /\ \A b \in Agents : b # a => work'[b] = work[b]
      BY <1>1, <2>1
    <2>3. 1 \in DOMAIN Creates[work[a].at]
      BY ScriptFacts
    <2>4. Behind(a)'
      BY <1>1, <2>1, <2>2, <2>3 DEF Behind, Running
    <2>5. \A b \in Agents : b # a => Behind(b)'
      BY <1>1, <2>1, <2>2, BehindGrows
    <2>6. TypeOK'
      BY <1>1, <2>1, <2>2 DEF Steps
    <2>7. QED
      BY <1>2, <2>4, <2>5, <2>6
  <1>5. QED
    BY <1>3, <1>4

LEMMA StatementKeeps ==
  ASSUME IInv, NEW a \in Agents, Statement(a)
  PROVE  IInv'
  <1> USE DEF IInv, TypeOK
  <1> DEFINE w == work[a]
             o == Creates[w.at][w.next]
             last == w.next = Len(Creates[w.at])
  <1>1. /\ pc[a] = "run" /\ w.job = "up" /\ w.at \in Versions
        /\ w.next \in DOMAIN Creates[w.at] /\ 1..(w.at - 1) \subseteq marks
        /\ \A i \in 1..(w.next - 1) : Creates[w.at][i] \in objects
    BY DEF Statement, Behind, Running
  <1>2. /\ objects' = objects \cup {o} /\ UNCHANGED marks
        /\ last => pc' = [pc EXCEPT ![a] = "mark"] /\ UNCHANGED work
        /\ ~last => work' = [work EXCEPT ![a].next = @ + 1] /\ UNCHANGED pc
    BY <1>1 DEF Statement, Script, Goto
  <1>3. o \in Objects
    BY <1>1, ScriptFacts
  <1>4. w.next \in Nat /\ w.next <= Len(Creates[w.at]) /\ Len(Creates[w.at]) \in Nat
    BY <1>1, ScriptFacts
  <1>5. \A i \in 1..w.next : Creates[w.at][i] \in objects'
    BY <1>1, <1>2, <1>4
  <1>6. NoGap' /\ MarkedIsCreated'
    BY <1>2 DEF NoGap, MarkedIsCreated
  <1>7. CASE last
    <2>1. ObjectsOf(w.at) \subseteq objects'
      BY <1>1, <1>5, <1>7, ScriptFacts DEF ObjectsOf
    <2>2. Behind(a)'
      BY <1>1, <1>2, <1>7, <2>1 DEF Behind, Running
    <2>3. \A b \in Agents : b # a => Behind(b)'
      BY <1>2, <1>7, BehindGrows
    <2>4. QED
      BY <1>2, <1>3, <1>6, <1>7, <2>2, <2>3 DEF Steps
  <1>8. CASE ~last
    <2>1. /\ work' \in [Agents -> [job : {"up", "down"}, at : Versions, next : Nat \ {0}]]
          /\ work'[a].at = w.at /\ work'[a].job = "up" /\ work'[a].next = w.next + 1
          /\ \A b \in Agents : b # a => work'[b] = work[b]
      <3>1. w.next + 1 \in Nat \ {0}
        BY <1>4
      <3>2. work' = [work EXCEPT ![a] = [work[a] EXCEPT !.next = w.next + 1]]
        BY <1>2, <1>8
      <3>3. /\ [work[a] EXCEPT !.next = w.next + 1] \in
                  [job : {"up", "down"}, at : Versions, next : Nat \ {0}]
            /\ [work[a] EXCEPT !.next = w.next + 1].next = w.next + 1
        BY <3>1
      <3>4. QED
        BY <1>1, <3>2, <3>3
    <2>2. w.next + 1 \in DOMAIN Creates[w.at] /\ (w.next + 1) - 1 = w.next
      BY <1>1, <1>4, <1>8, ScriptFacts
    <2>3. Behind(a)'
      BY <1>1, <1>2, <1>5, <1>8, <2>1, <2>2 DEF Behind, Running
    <2>4. \A b \in Agents : b # a => Behind(b)'
      BY <1>2, <1>8, <2>1, BehindGrows
    <2>5. QED
      BY <1>2, <1>3, <1>6, <1>8, <2>1, <2>3, <2>4
  <1>9. QED
    BY <1>7, <1>8

LEMMA MarkKeeps ==
  ASSUME IInv, NEW a \in Agents, Mark(a)
  PROVE  IInv'
  <1> USE DEF IInv, TypeOK
  <1> DEFINE m == work[a].at
  <1>1. /\ pc[a] = "mark" /\ work[a].job = "up" /\ m \in Versions
        /\ 1..(m - 1) \subseteq marks /\ ObjectsOf(m) \subseteq objects
    BY DEF Mark, Behind, Running
  <1>2. /\ marks' = marks \cup {m}
        /\ UNCHANGED objects /\ Advance(a)
    BY <1>1 DEF Mark
  <1>3. 1..m \subseteq marks'
    BY <1>1, <1>2, ScriptFacts
  <1>4. NoGap' /\ MarkedIsCreated'
    BY <1>1, <1>2, <1>3 DEF NoGap, MarkedIsCreated
  <1>5. QED
    BY <1>1, <1>2, <1>3, <1>4, AdvanceKeeps DEF Running

\* An agent that fails or dies.
LEMMA EndKeeps ==
  ASSUME IInv, NEW a \in Agents,
         CheckFails(a) \/ StatementFails(a) \/ MarkFails(a) \/ Crash(a)
  PROVE  IInv'
  <1> USE DEF IInv, TypeOK
  <1>1. /\ UNCHANGED <<objects, marks, work>>
        /\ pc' = [pc EXCEPT ![a] = "failed"] \/ pc' = [pc EXCEPT ![a] = "off"]
    BY DEF CheckFails, StatementFails, MarkFails, Crash, Fail, Goto, Behind
  <1>2. \A b \in Agents : Behind(b)'
    BY <1>1 DEF Behind, Running
  <1>3. QED
    BY <1>1, <1>2 DEF NoGap, MarkedIsCreated, Steps

LEMMA NextKeeps == ASSUME UpOnly, IInv, [Next]_vars PROVE IInv'
  <1>1. ASSUME NEW a \in Agents, Start(a) \/ Step(a) \/ Crash(a) PROVE IInv'
    BY <1>1, StartKeeps, CheckKeeps, StatementKeeps, MarkKeeps, EndKeeps DEF Step
  <1>2. CASE UNCHANGED vars
    BY <1>2 DEF vars, IInv, TypeOK, NoGap, MarkedIsCreated, Behind
  <1>3. QED
    BY <1>1, <1>2 DEF Next

\* A table is created after the tables it refers to.
LEMMA ReferencesKeep ==
  ASSUME UpOnly, IInv, ReferencesResolve, [Next]_vars
  PROVE  ReferencesResolve'
  <1> USE DEF IInv, TypeOK
  <1>1. CASE UNCHANGED objects
    BY <1>1 DEF ReferencesResolve
  <1>2. ASSUME NEW a \in Agents, Statement(a) PROVE ReferencesResolve'
    <2> DEFINE m == work[a].at
               i == work[a].next
    <2>1. /\ pc[a] \in Running
          /\ pc[a] = "run"
      BY <1>2 DEF Statement, Running
    <2>2. work[a].job = "up"
      BY <2>1 DEF Behind
    <2>3. /\ m \in Versions /\ i \in DOMAIN Creates[m]
          /\ 1..(m - 1) \subseteq marks
          /\ \A j \in 1..(i - 1) : Creates[m][j] \in objects
      BY <2>1 DEF Behind, Running, Script
    <2>4. /\ m \in Versions /\ i \in DOMAIN Creates[m]
          /\ objects' = objects \cup {Creates[m][i]}
          /\ 1..(m - 1) \subseteq marks
          /\ \A j \in 1..(i - 1) : Creates[m][j] \in objects
      BY <1>2, <2>2, <2>3 DEF Statement, Script
    <2>5. UNION {ObjectsOf(n) : n \in 1..(m - 1)} \subseteq objects
      BY <2>4 DEF MarkedIsCreated
    <2>6. References[Creates[m][i]] \subseteq objects
      <3> HIDE DEF m, i
      <3>1. References[Creates[m][i]] \subseteq
              (UNION {ObjectsOf(n) : n \in 1..(m - 1)}) \cup {Creates[m][j] : j \in 1..(i - 1)}
        BY <2>4, ScriptAssumption, Zenon
      <3>2. {Creates[m][j] : j \in 1..(i - 1)} \subseteq objects
        BY <2>4, Zenon
      <3>3. QED
        BY <3>1, <3>2, <2>5, Zenon
    <2>7. QED
      BY <2>4, <2>6 DEF ReferencesResolve
  <1>3. ASSUME NEW a \in Agents, ~Statement(a), Start(a) \/ Step(a) \/ Crash(a)
        PROVE  UNCHANGED objects
    BY <1>3 DEF Start, Step, Check, CheckFails, StatementFails, Mark, MarkFails, Crash, Fail
  <1>4. QED
    BY <1>1, <1>2, <1>3 DEF Next, vars

-----------------------------------------------------------------------------
(* The theorems.                                                           *)

LEMMA Inductive == ASSUME UpOnly PROVE Spec => []IInv
  <1>1. Init => IInv
    BY Initial
  <1>2. IInv /\ [Next]_vars => IInv'
    BY UpOnly, NextKeeps
  <1>3. QED
    BY <1>1, <1>2, PTL DEF Spec

\* Every variable has its type.
THEOREM TypeCorrect == ASSUME UpOnly PROVE Spec => []TypeOK
  <1>1. IInv => TypeOK
    BY DEF IInv
  <1>2. QED
    BY <1>1, Inductive, PTL

\* The check before the script, IF NOT EXISTS in it and the mark after it are
\* enough: an agent that serves has every table, after any crashes and races.
THEOREM AgentsServeWholeSchema == ASSUME UpOnly PROVE Spec => []ServesWholeSchema
  <1>1. IInv => ServesWholeSchema
    <2>1. SUFFICES ASSUME IInv, NEW a \in Agents, pc[a] = "done" PROVE objects = Objects
      BY DEF ServesWholeSchema
    <2>2. marks = Versions
      BY <2>1 DEF IInv, Behind
    <2>3. QED
      BY <2>1, <2>2 DEF IInv, TypeOK, MarkedIsCreated, Objects
  <1>2. QED
    BY <1>1, Inductive, PTL

\* No agent marks a migration before all earlier ones are marked.
THEOREM MarksHaveNoGap == ASSUME UpOnly PROVE Spec => []NoGap
  <1>1. IInv => NoGap
    BY DEF IInv
  <1>2. QED
    BY <1>1, Inductive, PTL

\* MigrateUp never leaves a foreign key to a table that is not there.
THEOREM TablesReferToTables == ASSUME UpOnly PROVE Spec => []ReferencesResolve
  <1>1. Init => ReferencesResolve
    BY DEF Init, ReferencesResolve
  <1>2. IInv /\ ReferencesResolve /\ [Next]_vars => ReferencesResolve'
    BY UpOnly, ReferencesKeep
  <1>3. QED
    BY <1>1, <1>2, Inductive, PTL DEF Spec

-----------------------------------------------------------------------------
(* StartUp.                                                                *)

LEMMA MigratesUp == UpOnly
  BY PortAssumption DEF UpOnly

LEMMA StepsOfMigrations == ASSUME [StartNext]_startVars PROVE [Next]_vars
  <1>1. ASSUME NEW a \in Agents, Connect(a) \/ Migrating(a) PROVE Next
    BY <1>1 DEF Connect, Migrating, Next
  <1>2. ASSUME NEW a \in Agents, Kill(a) PROVE Next \/ UNCHANGED vars
    BY <1>2 DEF Kill, Next
  <1>3. ASSUME NEW a \in Agents, Configure(a) \/ Listen(a) \/ Exit(a) \/ SignIn(a)
        PROVE  UNCHANGED vars
    BY <1>3 DEF Configure, Launch, Stat, CreateEnvFile, WriteEnvFile, EnvFileFails,
                Listen, Exit, SignIn
  <1>4. UNCHANGED startVars => UNCHANGED vars
    BY DEF startVars
  <1>5. QED
    BY <1>1, <1>2, <1>3, <1>4 DEF StartNext

\* Whatever is proved of Migrations holds of the agents that main runs: between
\* the migrations they change neither the schema nor the marks.
THEOREM StartUpMigrates == StartSpec => Spec
  <1>1. StartInit => Init
    BY DEF StartInit
  <1>2. [StartNext]_startVars => [Next]_vars
    BY StepsOfMigrations
  <1>3. QED
    BY <1>1, <1>2, PTL DEF StartSpec, Spec

-----------------------------------------------------------------------------
(* Serving.                                                                *)

PastMigrations ==
  /\ stage \in [Agents -> Stages]
  /\ \A a \in Agents : stage[a] \in {"listen", "serve"} => pc[a] = "done"

\* A step of MigrateUp moves the agent that takes it, and no other.
LEMMA StepMovesOne ==
  ASSUME TypeOK, NEW a \in Agents, Step(a)
  PROVE  \E s \in Steps : pc' = [pc EXCEPT ![a] = s]
  <1>1. pc \in [Agents -> Steps]
    BY DEF TypeOK
  <1>2. UNCHANGED pc => pc' = [pc EXCEPT ![a] = pc[a]] /\ pc[a] \in Steps
    BY <1>1
  <1>3. \A s \in {"check", "run", "mark", "done", "failed"} :
          Goto(a, s) => s \in Steps /\ pc' = [pc EXCEPT ![a] = s]
    BY DEF Goto, Steps
  <1>4. Advance(a) => \E s \in {"check", "done"} : Goto(a, s)
    BY DEF Advance
  <1>5. Fail(a) => Goto(a, "failed")
    BY DEF Fail
  <1>6. UNCHANGED pc \/ \E s \in {"check", "run", "mark", "done", "failed"} : Goto(a, s)
    BY <1>4, <1>5 DEF Step, Check, CheckFails, Statement, StatementFails, Mark, MarkFails
  <1>7. QED
    BY <1>2, <1>3, <1>6

LEMMA PastMigrationsKept ==
  ASSUME TypeOK, PastMigrations, [StartNext]_startVars
  PROVE  PastMigrations'
  <1> USE DEF PastMigrations
  <1>1. ASSUME NEW a \in Agents, Migrating(a) PROVE PastMigrations'
    <2>1. \E s \in Steps : pc' = [pc EXCEPT ![a] = s]
      BY <1>1, StepMovesOne DEF Migrating
    <2>2. PICK n \in {"off", "listen", "migrate"} :
            stage' = [stage EXCEPT ![a] = n] /\ (n = "listen" => pc'[a] = "done")
      BY <1>1 DEF Migrating, Reach
    <2>3. stage' \in [Agents -> Stages]
      BY <2>2 DEF Stages
    <2>4. ASSUME NEW b \in Agents, stage'[b] \in {"listen", "serve"} PROVE pc'[b] = "done"
      BY <2>1, <2>2, <2>4 DEF TypeOK
    <2>5. QED
      BY <2>3, <2>4
  <1>2. ASSUME NEW a \in Agents, Kill(a) PROVE PastMigrations'
    <2>1. stage' = [stage EXCEPT ![a] = "off"]
      BY <1>2 DEF Kill, Reach
    <2>2. UNCHANGED pc \/ pc' = [pc EXCEPT ![a] = "off"]
      BY <1>2 DEF Kill, Crash, Goto, vars
    <2>3. QED
      BY <2>1, <2>2 DEF TypeOK, Stages
  <1>3. ASSUME NEW a \in Agents, Connect(a) PROVE PastMigrations'
    BY <1>3 DEF Connect, Reach, Start, Goto, Stages
  <1>4. ASSUME NEW a \in Agents, Configure(a) \/ Listen(a) \/ Exit(a) \/ SignIn(a)
        PROVE  PastMigrations'
    BY <1>4 DEF Configure, Launch, Stat, CreateEnvFile, WriteEnvFile, EnvFileFails,
                Listen, Exit, SignIn, Reach, Stages, vars
  <1>5. UNCHANGED startVars => PastMigrations'
    BY DEF startVars, vars
  <1>6. QED
    BY <1>1, <1>2, <1>3, <1>4, <1>5 DEF StartNext

\* An agent listens only after its own MigrateUp: what answers requests has every
\* table, although others migrate, fail and die meanwhile.
THEOREM AgentsAnswerOnWholeSchema == StartSpec => []ServesOnWholeSchema
  <1>1. StartInit => PastMigrations
    BY DEF StartInit, PastMigrations, Stages
  <1>2. TypeOK /\ PastMigrations /\ [StartNext]_startVars => PastMigrations'
    BY PastMigrationsKept
  <1>3. StartSpec => []TypeOK /\ []ServesWholeSchema /\ []IInv
    BY StartUpMigrates, MigratesUp, TypeCorrect, AgentsServeWholeSchema, Inductive, PTL
  <1>4. IInv /\ ServesWholeSchema /\ PastMigrations => ServesOnWholeSchema
    BY DEF IInv, TypeOK, Behind, ServesWholeSchema, PastMigrations, ServesOnWholeSchema
  <1>5. QED
    BY <1>1, <1>2, <1>3, <1>4, PTL DEF StartSpec

-----------------------------------------------------------------------------
(* Cookies.  As long as nothing has disturbed the first .env, it is missing *)
(* and one agent at most is about to write it; or it is half written and    *)
(* that agent is the only one; or it is there, and everybody uses its secret. *)

Untouched ==
  /\ envFile = Missing /\ cookies = {}
  /\ \A a \in Agents : stage[a] \in {"off", "stat", "create"}
  /\ \A a, b \in Agents : stage[a] # "off" /\ stage[b] # "off" => a = b
  /\ \A a \in Agents : stage[a] # "off" => loaded[a] = 0

HalfWritten ==
  /\ envFile = Empty /\ cookies = {}
  /\ \E a \in Agents : /\ stage[a] = "write" /\ loaded[a] = 0
                       /\ \A b \in Agents : b # a => stage[b] = "off"

Written(s) ==
  /\ s \in Int \ {0} /\ envFile = <<s>> /\ cookies \subseteq {s}
  /\ \A a \in Agents :
       stage[a] # "off" => CookieSecret(a) = s /\ stage[a] \notin {"create", "write"}

StartIInv ==
  /\ stage \in [Agents -> Stages] /\ launches \in Nat
  /\ own \in [Agents -> Nat] /\ loaded \in [Agents -> Int]
  /\ \A a \in Agents : stage[a] # "off" => own[a] # 0
  /\ envFile = Missing \/ \E s \in Int : envFile = <<s>>
  /\ calm => Untouched \/ HalfWritten \/ \E s \in Int : Written(s)

LEMMA Contents ==
  /\ Missing # Empty
  /\ Empty[1] = 0
  /\ \A s \in Int \ {0} : <<s>> # Missing /\ <<s>> # Empty /\ <<s>>[1] = s
  BY DEF Missing, Empty

LEMMA CookiesInitial == StartInit => StartIInv
  BY DEF StartInit, StartIInv, Untouched, Stages

LEMMA LaunchKeeps ==
  ASSUME StartIInv, NEW a \in Agents, Launch(a)
  PROVE  StartIInv'
  <1>1. /\ stage' = [stage EXCEPT ![a] = "stat"]
        /\ own' = [own EXCEPT ![a] = launches + 1] /\ launches' = launches + 1
        /\ loaded' = [loaded EXCEPT ![a] = IF envFile = Missing THEN 0 ELSE envFile[1]]
        /\ envFile' = envFile /\ cookies' = cookies /\ stage[a] = "off"
    BY DEF Launch, Reach
  <1>2. calm' => calm /\ (HasSecret \/ \A b \in Agents : stage[b] \notin Configuring)
    BY DEF Launch
  <1>3. ASSUME calm' PROVE Untouched' \/ \E s \in Int : Written(s)'
    <2>1. calm
      BY <1>2, <1>3
    <2>2. CASE Untouched
      BY <1>1, <1>2, <1>3, <2>2 DEF StartIInv, Untouched, HasSecret, Configuring
    <2>3. CASE HalfWritten
      BY <1>2, <1>3, <2>3 DEF HalfWritten, HasSecret, Configuring
    <2>4. ASSUME NEW s \in Int, Written(s) PROVE Written(s)'
      <3>1. loaded' = [loaded EXCEPT ![a] = s]
        BY <1>1, <2>4, Contents DEF Written
      <3>2. \A b \in Agents : b # a => CookieSecret(b)' = CookieSecret(b)
        BY <1>1 DEF CookieSecret, StartIInv
      <3>3. CookieSecret(a)' = s
        BY <3>1, <2>4 DEF CookieSecret, StartIInv, Written
      <3>4. QED
        BY <1>1, <2>4, <3>2, <3>3 DEF StartIInv, Written
    <2>5. QED
      BY <2>1, <2>2, <2>3, <2>4 DEF StartIInv
  <1>4. stage' \in [Agents -> Stages] /\ launches' \in Nat /\ own' \in [Agents -> Nat]
    BY <1>1 DEF StartIInv, Stages
  <1>5. loaded' \in [Agents -> Int]
    <2>1. envFile = Missing \/ envFile[1] \in Int
      BY DEF StartIInv, Missing
    <2>2. QED
      BY <1>1, <2>1 DEF StartIInv
  <1>6. \A b \in Agents : stage'[b] # "off" => own'[b] # 0
    BY <1>1 DEF StartIInv
  <1>7. QED
    BY <1>1, <1>3, <1>4, <1>5, <1>6 DEF StartIInv

\* What moves an agent on, or ends it, and leaves .env and the secrets alone.
LEMMA MoveKeeps ==
  ASSUME StartIInv, NEW a \in Agents, NEW s \in Stages,
         stage[a] # "off", stage' = [stage EXCEPT ![a] = s],
         UNCHANGED <<own, loaded, launches, envFile, cookies>>,
         calm' => calm /\ stage[a] # "write",
         s = "write" => FALSE,
         s = "create" => envFile = Missing,
         s = "off" \/ stage[a] \in {"connect", "migrate", "listen", "serve"}
           \/ (stage[a] = "stat" /\ (envFile # Missing \/ s = "create"))
  PROVE  StartIInv'
  <1>1. ASSUME calm', Untouched PROVE Untouched'
    BY <1>1 DEF Untouched, StartIInv
  <1>2. ASSUME calm', HalfWritten PROVE FALSE
    BY <1>2 DEF HalfWritten
  <1>3. ASSUME NEW n \in Int, Written(n) PROVE Written(n)'
    BY <1>3, Contents DEF Written, CookieSecret, StartIInv
  <1>4. calm' => Untouched' \/ \E n \in Int : Written(n)'
    BY <1>1, <1>2, <1>3 DEF StartIInv
  <1>5. QED
    BY <1>4 DEF StartIInv

LEMMA StatKeeps ==
  ASSUME StartIInv, NEW a \in Agents, Stat(a)
  PROVE  StartIInv'
  BY MoveKeeps DEF Stat, Reach, Stages, drawn

LEMMA CreateKeeps ==
  ASSUME StartIInv, NEW a \in Agents, CreateEnvFile(a)
  PROVE  StartIInv'
  <1>1. /\ stage[a] = "create" /\ stage' = [stage EXCEPT ![a] = "write"] /\ envFile' = Empty
        /\ UNCHANGED <<own, loaded, launches, cookies, calm>>
    BY DEF CreateEnvFile, Reach, drawn
  <1>2. calm => Untouched
    BY <1>1 DEF StartIInv, HalfWritten, Written
  <1>3. Untouched => HalfWritten'
    BY <1>1 DEF Untouched, HalfWritten, StartIInv
  <1>4. QED
    BY <1>1, <1>2, <1>3 DEF StartIInv, Stages, Empty

LEMMA WriteKeeps ==
  ASSUME StartIInv, NEW a \in Agents, WriteEnvFile(a)
  PROVE  StartIInv'
  <1>1. /\ stage[a] = "write" /\ stage' = [stage EXCEPT ![a] = "connect"]
        /\ envFile' = <<own[a]>> /\ UNCHANGED <<own, loaded, launches, cookies, calm>>
    BY DEF WriteEnvFile, Reach, drawn
  <1>2. calm => HalfWritten
    BY <1>1 DEF StartIInv, Untouched, Written
  <1>3. own[a] \in Int \ {0}
    BY <1>1 DEF StartIInv
  <1>4. HalfWritten => Written(own[a])'
    BY <1>1, <1>3 DEF HalfWritten, Written, CookieSecret, StartIInv
  <1>5. QED
    BY <1>1, <1>2, <1>3, <1>4 DEF StartIInv, Stages

LEMMA FailKeeps ==
  ASSUME StartIInv, NEW a \in Agents, EnvFileFails(a)
  PROVE  StartIInv'
  <1>1. /\ stage' = [stage EXCEPT ![a] = "connect"] /\ ~calm' /\ stage[a] # "off"
        /\ UNCHANGED <<own, loaded, launches>>
    BY DEF EnvFileFails, Reach, drawn
  <1>2. envFile' = Missing \/ \E s \in Int : envFile' = <<s>>
    BY DEF EnvFileFails, StartIInv, Empty
  <1>3. QED
    BY <1>1, <1>2 DEF StartIInv, Stages

LEMMA RestKeeps ==
  ASSUME StartIInv, NEW a \in Agents, Connect(a) \/ Migrating(a) \/ Listen(a) \/ Exit(a) \/ Kill(a)
  PROVE  StartIInv'
  <1>1. CASE Connect(a)
    BY <1>1, MoveKeeps DEF Connect, Reach, drawn, Stages
  <1>2. CASE Listen(a)
    BY <1>2, MoveKeeps DEF Listen, Reach, drawn, Stages
  <1>3. CASE Exit(a)
    BY <1>3, MoveKeeps DEF Exit, Reach, drawn, Stages
  <1>4. CASE Kill(a)
    BY <1>4, MoveKeeps DEF Kill, Reach, drawn, Stages
  <1>5. CASE Migrating(a)
    <2>1. PICK s \in {"off", "listen", "migrate"} : stage' = [stage EXCEPT ![a] = s]
      BY <1>5 DEF Migrating, Reach
    <2>2. /\ stage[a] = "migrate" /\ UNCHANGED <<own, loaded, launches, envFile, cookies>>
          /\ calm' => calm /\ stage[a] # "write"
      BY <1>5 DEF Migrating, drawn
    <2>3. QED
      BY <2>1, <2>2, MoveKeeps DEF Stages
  <1>6. QED
    BY <1>1, <1>2, <1>3, <1>4, <1>5

LEMMA SignInKeeps ==
  ASSUME StartIInv, NEW a \in Agents, SignIn(a)
  PROVE  StartIInv'
  <1>1. /\ stage[a] = "serve" /\ cookies' = cookies \cup {CookieSecret(a)}
        /\ UNCHANGED <<stage, own, loaded, launches, envFile, calm>>
    BY DEF SignIn, drawn
  <1>2. calm => \E s \in Int : Written(s)
    BY <1>1 DEF StartIInv, Untouched, HalfWritten
  <1>3. ASSUME NEW s \in Int, Written(s) PROVE Written(s)'
    BY <1>1, <1>3 DEF Written, CookieSecret
  <1>4. QED
    BY <1>1, <1>2, <1>3 DEF StartIInv

LEMMA StartNextKeeps ==
  ASSUME StartIInv, [StartNext]_startVars
  PROVE  StartIInv'
  <1>1. ASSUME NEW a \in Agents, Configure(a) PROVE StartIInv'
    BY <1>1, LaunchKeeps, StatKeeps, CreateKeeps, WriteKeeps, FailKeeps DEF Configure
  <1>2. CASE UNCHANGED startVars
    BY <1>2 DEF startVars, StartIInv, Untouched, HalfWritten, Written, CookieSecret
  <1>3. QED
    BY <1>1, <1>2, RestKeeps, SignInKeeps DEF StartNext

\* Sessions outlive the agent: what signs a cookie is what every agent started
\* later, or beside it, verifies it with, once .env has been written in one go.
THEOREM CookiesStayGood == StartSpec => []CookiesOutliveRestarts
  <1>1. StartInit => StartIInv
    BY CookiesInitial
  <1>2. StartIInv /\ [StartNext]_startVars => StartIInv'
    BY StartNextKeeps
  <1>3. StartIInv => CookiesOutliveRestarts
    BY DEF StartIInv, Untouched, HalfWritten, Written, CookiesOutliveRestarts, Accepts
  <1>4. QED
    BY <1>1, <1>2, <1>3, PTL DEF StartSpec

-----------------------------------------------------------------------------
(* Agents that start together.                                             *)

\* Agent a goes on, and nobody else has inserted the mark that it will insert.
InTheLead(a) ==
  pc[a] # "failed" /\ (pc[a] \in {"run", "mark"} => work[a].at \notin marks)

RaceInv ==
  /\ sound \in BOOLEAN
  /\ sound => \E a \in Agents : InTheLead(a)

\* Whoever inserts a mark, finds one, dies or is started takes the lead.
LEMMA TakesTheLead ==
  ASSUME UpOnly, IInv, NEW a \in Agents,
         Start(a) \/ Check(a) \/ Mark(a) \/ Crash(a)
  PROVE  InTheLead(a)'
  <1> USE DEF IInv, TypeOK, Goto, InTheLead
  <1>1. CASE Start(a) \/ Crash(a)
    BY <1>1 DEF Start, Crash
  <1>2. CASE Mark(a)
    BY <1>2 DEF Mark, Advance
  <1>3. CASE Check(a)
    <2>1. work[a].job = "up" /\ marks' = marks
      BY <1>3 DEF Check, Behind, Running
    <2>2. CASE work[a].at \in marks
      BY <1>3, <2>1, <2>2 DEF Check, Due, Advance
    <2>3. CASE work[a].at \notin marks
      <3>1. pc'[a] = "run" /\ work' = [work EXCEPT ![a].next = 1]
        BY <1>3, <2>1, <2>3 DEF Check, Due
      <3>2. work'[a].at = work[a].at
        BY <3>1
      <3>3. QED
        BY <2>1, <2>3, <3>1, <3>2
    <2>4. QED
      BY <2>2, <2>3
  <1>4. QED
    BY <1>1, <1>2, <1>3

\* The lead is kept through a statement of one's own and any step of another
\* agent that inserts no mark.
LEMMA KeepsTheLead ==
  ASSUME IInv, NEW b \in Agents, InTheLead(b), marks' = marks,
         \/ pc'[b] = pc[b] /\ work'[b] = work[b]
         \/ Statement(b)
  PROVE  InTheLead(b)'
  <1>1. CASE pc'[b] = pc[b] /\ work'[b] = work[b]
    BY <1>1 DEF InTheLead
  <1>2. CASE Statement(b)
    <2>1. pc[b] = "run" /\ pc'[b] \in {"run", "mark"}
      BY <1>2 DEF Statement, Goto, IInv, TypeOK
    <2>2. work'[b].at = work[b].at
      BY <1>2 DEF Statement, IInv, TypeOK
    <2>3. QED
      BY <2>1, <2>2 DEF InTheLead
  <1>3. QED
    BY <1>1, <1>2

\* A step of one agent leaves where the others are.
LEMMA OthersStay ==
  ASSUME IInv, NEW a \in Agents, NEW b \in Agents, b # a, Start(a) \/ Step(a) \/ Crash(a)
  PROVE  pc'[b] = pc[b] /\ work'[b] = work[b]
  BY DEF IInv, TypeOK, Start, Step, Crash, Check, CheckFails, Statement, StatementFails,
         Mark, MarkFails, Advance, Fail, Goto

\* A mark is found in its place only by an agent that does not lead.
LEMMA LeadPasses ==
  ASSUME UpOnly, IInv, NEW b \in Agents, InTheLead(b), NEW a \in Agents,
         \/ Start(a) \/ Crash(a) \/ Check(a) \/ Statement(a) \/ Mark(a)
         \/ MarkFails(a) /\ work[a].at \in marks
  PROVE  \E c \in Agents : InTheLead(c)'
  <1>1. CASE Start(a) \/ Crash(a) \/ Check(a) \/ Mark(a)
    BY <1>1, TakesTheLead
  <1>2. CASE Statement(a)
    BY <1>2, KeepsTheLead, OthersStay DEF Statement, Step
  <1>3. CASE MarkFails(a) /\ work[a].at \in marks
    <2>1. b # a /\ marks' = marks
      BY <1>3 DEF MarkFails, InTheLead
    <2>2. QED
      BY <1>3, <2>1, KeepsTheLead, OthersStay DEF Step
  <1>4. QED
    BY <1>1, <1>2, <1>3

LEMMA RaceNext ==
  ASSUME IInv, RaceInv, [MCNext]_<<startVars, sound>> PROVE RaceInv'
  <1>1. ASSUME UNCHANGED vars, sound' = sound PROVE RaceInv'
    BY <1>1 DEF vars, RaceInv, InTheLead
  <1>2. ASSUME NEW a \in Agents, sound' = sound,
               Start(a) \/ Crash(a) \/ Check(a) \/ Statement(a) \/ Mark(a)
        PROVE  RaceInv'
    BY <1>2, LeadPasses, MigratesUp DEF RaceInv
  <1>3. ASSUME NEW a \in Agents, MarkFails(a), sound' = (sound /\ work[a].at \in marks)
        PROVE  RaceInv'
    BY <1>3, LeadPasses, MigratesUp DEF RaceInv
  <1>4. ASSUME sound' = FALSE PROVE RaceInv'
    BY <1>4 DEF RaceInv
  <1>5. ASSUME NEW a \in Agents, Configure(a) \/ Listen(a) \/ Exit(a) \/ SignIn(a)
        PROVE  UNCHANGED vars
    BY <1>5 DEF Configure, Launch, Stat, CreateEnvFile, WriteEnvFile, EnvFileFails,
                Listen, Exit, SignIn
  <1>6. ASSUME NEW a \in Agents, Connect(a) PROVE Start(a)
    BY <1>6 DEF Connect
  <1>7. ASSUME NEW a \in Agents, Kill(a) PROVE Crash(a) \/ UNCHANGED vars
    BY <1>7 DEF Kill
  <1>8. CASE UNCHANGED <<startVars, sound>>
    BY <1>1, <1>8 DEF startVars
  <1>9. CASE MCNext
    BY <1>1, <1>2, <1>3, <1>4, <1>5, <1>6, <1>7, <1>9, Zenon DEF MCNext
  <1>10. QED
    BY <1>8, <1>9

LEMMA InstanceStarts == MCSpec => StartSpec
  <1>1. MCInit => StartInit
    BY DEF MCInit
  <1>2. [MCNext]_<<startVars, sound>> => [StartNext]_startVars
    <2>1. ASSUME NEW a \in Agents, Migrating(a) PROVE StartNext
      BY <2>1 DEF StartNext
    <2>2. MCNext => StartNext
      BY <2>1, Zenon DEF MCNext, StartNext
    <2>3. QED
      BY <2>2
  <1>3. QED
    BY <1>1, <1>2, PTL DEF MCSpec, StartSpec

\* A lost race for a mark fails a start, but never the last one: the agent that
\* inserted the highest mark goes on, dies and can be started again, or loses
\* to one that inserted a higher one.
THEOREM RacesLeaveAnAgent == ASSUME Agents # {} PROVE MCSpec => []RaceIsHarmless
  <1>1. MCInit => RaceInv
    BY DEF MCInit, StartInit, Init, RaceInv, InTheLead
  <1>2. IInv /\ RaceInv /\ [MCNext]_<<startVars, sound>> => RaceInv'
    BY RaceNext
  <1>3. MCSpec => []IInv
    BY InstanceStarts, StartUpMigrates, MigratesUp, Inductive, PTL
  <1>4. RaceInv => RaceIsHarmless
    BY DEF RaceInv, InTheLead, RaceIsHarmless, SomebodyGoesOn
  <1>5. QED
    BY <1>1, <1>2, <1>3, <1>4, PTL DEF MCSpec
=============================================================================
