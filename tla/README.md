# Verifying the omnihance A3 agent

The agent is a Go web server that game-server operators run next to an A3
server. It edits game files with revisions and revert, starts and stops the
server's processes in sequence, keeps users and sessions, imports client data
and collects metrics. Everything is kept in one SQLite database and in plain
files. Each HTTP request runs in a goroutine of its own; besides them there are
a metrics collector and a log rotation goroutine. No request coordinates with
another except through SQLite and through lock files on disk.

This directory models that behaviour in TLA+, checks the models with TLC and
proves the core's safety for every instance with TLAPS.

## Parts of the system

| Part | State | Operations | What is hard about it | What makes it correct |
| --- | --- | --- | --- | --- |
| File editing and revisions (`internal/server/file_system_routes.go`, `internal/db/file_revisions.go`, `internal/services/file_editor_service.go`) | game files, lock files, rows of `file_revisions`, copies in the revisions directory | edit (NPC, text, spawn), revert, revision summary | read before the lock, write after it; row, copy and file are three stores; crashes leave lock files and copies | lock exclusion, restorable revisions, reverts undo edits in reverse order, requests end |
| Server processes (`internal/server/server_routes.go`, `internal/db/server_processes.go`, `internal/services/server_manager_service.go`, `process_service.go`) | rows of `server_processes`, operating-system processes and ports | create, update, delete, reorder, start and stop of one process or of the sequence, status | checks and effects are apart; a start takes up to a minute per process; rows are a stale snapshot | startup in order, each healthy before the next; shutdown in reverse; unique paths; rows of running programs stay; times that are true |
| Accounts and sessions (`auth_routes.go`, `session_routes.go`, `users_routes.go`, `db/users.go`, `db/sessions.go`, `mw/check_cookie.go`, `permissions`) | users, sessions | sign-up, sign-in, sign-out, change password, set status, set password | first user decides by a count; a password change logs out the others while they sign in | one first super admin; only active users; other sessions end |
| Client data (`game_client_data_routes.go`, `db/*_client_data.go`) | three tables of names | upload, list | delete and insert without a transaction; a parse error does not return | a table is the last upload or what it was |
| Metrics (`metrics_collector_service.go`, `collectors`, `db/metrics.go`) | series, samples, rules | collect, clean up, query | collector, clean-up and queries interleave | samples belong to their series; retention |
| Migrations and database (`db/internal_db.go`) | schema, `migrations` table | up, down | a migration and its mark are two statements; crash in between | a migration is applied once, in order |
| Log files (`logger/logger.go`) | current file, date, lock | write, rotate, auto-rotate, close | rotation by writer and by goroutine | every line is in the file of its day |
| Binary formats (`utils/ull.go`, `utils/string.go`, formats in `file_editor_service.go` and `file_system_routes.go`) | none; forms in browsers | decipher, parse, view, encode | widths, truncated files, a type that is decided anew by extension and size | keys come from the file as uploaded; a list is taken if it is whole; what an editor shows after a save is what is there |
| Start-up and shutdown (`cmd/omnihance-a3-agent/main.go`, `server/server.go`) | the process, its port | launch, migrate, listen, end | several agents of one directory; the end of the process is a kill at any point | an agent that answers has its schema |
| Configuration and cookies (`config/config.go`, `utils/cookie.go`) | `.env` and the secret in it | write the defaults once, read, sign, verify | a default is drawn anew at every launch, a file that exists is never completed | cookies outlive restarts |
| Settings, status and docs routes, local-IP check | settings rows | insert once, answer | nothing | nothing |
| Web interface, chart builder | browser state | rendering | none of the server's state | none |

Parts interact by function calls inside a request, and otherwise only through
SQLite (one write transaction at a time; a statement that finds it taken fails,
because `busy_timeout` is set on one pooled connection only), the file system
and the operating system's processes.

## Modules

Each component has a module with its state, one action per statement or handler
step, its specification and its properties; an `MC` module with what TLC needs
(symmetry, finite operators); where the code breaks a promise, a `Findings`
module with the promise; and a `Proofs` module. Definitions marked "Mutant" are
plausible wrong versions of the definition after them: each property is shown
to fail on one. They are in no specification.

| Component | Modules | Runs |
| --- | --- | --- |
| File editing and revisions | `FileRevisions`, `CalmEditing` refining `UndoLog`, `FileFindings`, `FileRevisionsProofs` | `edit_files`, `edit_progress`, `undo_log`, `lost_update` |
| Server processes | `ServerProcesses`, `ServerFindings`, `ServerProcessesProofs` | `server_sequences`, `server_progress` |
| Accounts and sessions | `Accounts`, `AccountFindings`, `AccountsProofs` | `accounts` |
| Client data | `ClientData`, `ClientDataProofs` | `uploads` |
| Metrics | `Metrics`, `MetricsProofs` | `metrics` |
| Migrations, start-up, configuration, cookies | `Migrations`, `StartUp` on top of it, `MigrationsProofs` about both | `start_up` |
| Log files | `LogFiles`, `LogFilesProofs` | `log_files` |
| Binary formats | `ListFiles` (the client's lists), `GameFiles` (what editors open), `FormatsProofs` | `formats` |

The components share no state but the database's write lock, which each module
models by statements that may fail (`"db"`, `"busy"`, `"fail"`, ... in `Faults`).
The one place where a request holds that lock across steps, the transactions of
`createFileRevision` and `handleRevertFile`, is explicit in `FileRevisions`
(`writer`). So the modules are not composed further, apart from `CalmEditing`
with `UndoLog`, and `StartUp`, in which every agent runs a `MigrateUp` of
`Migrations`. `GameFiles` has every request of `FileRevisions` in one step, for
what the bytes mean rather than for who writes them when.

Conventions. `pc` is where a goroutine is and `work` (`req`, `local`) its
locals. A step is what happens between two points at which another goroutine, a
failure or a crash can be told apart: a database statement, a file operation, a
look at the operating system. A crash resets the goroutines and keeps the rest.
`Faults` says which failures a run admits.

### FileRevisions

State: `disk` (game files), `locks` (lock files in the revisions directory),
`revs` (rows; the id is the position), `backups` (copies), `writer` (who holds
SQLite's write lock), `now` (seconds, the resolution of `CURRENT_TIMESTAMP`).
An edit reads, takes the lock file, inserts a draft row, writes the copy,
commits, releases, and then opens and writes the file. A revert takes the lock
file, looks up the last completed revision, loads its copy, marks it and commits,
and writes the file under the lock. The failure branches of each are actions of
their own: a missing copy marks the row corrupted, a failing statement rolls the
row back and leaves the copy, a failing write leaves the file truncated or torn.

`UndoLog` is what revisions promise: every replaced content was saved, and
reverting goes back through them. Saved contents are numbered, and the last one
saved has the greatest number. `CalmEditing` is `FileRevisions` where different
files have different ids, requests for one file do not overlap, are a second
apart, and a committed revert runs to its end. `MappedContent` and
`MappedHistory` are the refinement mapping: a file that an edit is writing still
counts as what it was, one whose revert is committed as reverted, and the numbers
are the ids of the completed revisions.
Each of the assumptions is needed: the configurations of `FileFindings` drop
them one at a time.

### ServerProcesses

State: `rows` and `nextId` (the table), `procs` and `listening` (processes and
their ports), `pc`, `work` (the snapshot of rows a sequence works through, its
targets, what it read). A start checks that the program does not run, spawns it,
waits for its port and records the time, row after row; a stop scans, kills and
records in reverse; create, update, delete and reorder are a check and a write.
A reorder request writes whatever places it carries, from a list that may be an
old one. Processes become ready (`Listen`), die, and outlive the agent; a stop may
end a process and still be reported as failed (`Kill`: `Wait` fails for a process
that an earlier agent started). `setting`, which never changes, says which
requests arrive, which kinds of them come one by one, and which faults occur, so
that one run covers several environments and a property names the ones it is for:

| Property | Where it is claimed | What breaks it elsewhere |
| --- | --- | --- |
| `EarlierAreUp` | nothing stops or dies (`NothingStops`) | what is stopped later is down |
| `LaterAreDown` | nothing starts (`NothingStarts`) | what is started later is up |
| `UniqueRows` | creations and updates one by one; places: no reorder request | two at once (`DuplicatePath.cfg`); the page moves a row by sending its neighbours' numbers as it knows them, which gives two rows one place across the gap of a deleted one |
| `SingleInstance` | starts one by one, process lists can be read | two starts between check and spawn; a list that cannot be read counts as "not running" |
| `RunningRowsStay` | starts, updates and deletions one by one | a start between check and deletion (`DeleteWhileStarting.cfg`) |
| `TimesAreTrue` | starts, stops and updates one by one, no deaths | what another request, or a death, changes between the check and the record |

Requests of all other kinds arrive beside those that come one by one. Some things
are so even with one request at a time, and no property denies them: an update
does not look whether the row's program runs (server_routes.go:130-191), so the
process of the old path is left without a row; and a time that should be recorded
may be missing (a health check that times out, a stop reported as failed, a failed
write, a crash, a death, an update of the path).

### Accounts

State: `users` by e-mail and `sessions`. Sign-up is lookup, count, insert;
sign-in is credentials, session; the rest is cookie, user, verify, write, end
the other sessions. `password` in a session is a history variable: the last
password its holder proved to know. `settled` in `MCAccounts` is another: no
sign-in overlapped a change of its account's password, no super admin set one, and
no change failed to end other sessions that are open, so that no session may have
survived its password.

### ClientData

`ClientData` begins where the parser ends: the status of the file, `DELETE`,
`INSERT`. The handler for maps goes on after it has answered an error, and the
model with it (`UploadMaps`). `calm` in `MCClientData` records that no two
uploads have overlapped so far.

### ListFiles and GameFiles

`ListFiles` is the loop of `DecodeULL` and the parser, one step per byte and per
entry. Any bytes may be uploaded: what the game's tools write is not known here, and
`KeysAreOfTheUpload` says no more than that the loop in place unmasks every byte by
the one that stood before it in the file. `EncodeULL`, which nothing calls, is the
same loop as `DecodeULL`: it takes its keys from bytes that are still plain, and
`DecodeULL` of what it writes is not what it was given.

`GameFiles` is a file that users open, edit, save and revert, and that the game
rewrites. State: `ext` and `content`, the contents that completed revisions
saved (`undo`), and the form each user has open, with the bytes it was made
from. `Kind` is `GetFileType`; `Decode` and `Encode` are the viewers and the
encoders, which lose what does not fit: the last field of an NPC file, the bytes
after the last whole spawn, bytes that are no character. A text is a sequence of
bytes, and JSON's treatment of bytes that begin no character (`Displayed`) is
part of what a viewer shows. Characters of more than one byte are represented by
U+FFFD alone. `Inputs` says what the constants stand for: files are bytes, and what
users enter came over JSON. It is an assumption of `MCFormats`, where either module
has its behaviours.

### Metrics

State: the five tables (`names`, `labels`, `series`, `links`, `samples`), the
clock, the number of cores, the rounds and the cut-offs of clean-ups under way.
A round waits for two collectors that report in either order, and files each
point by a look-up and an insertion for the name, the label and the series, then
a link, then the sample. A percentage is abstracted to the usage it is a share of,
one of `Usages`, and the number of shares, because the CPU card (`CpuCard`)
multiplies shares and the CPU chart (`CpuChart`) adds them up: a point of the chart
is the number of shares of each size and usage that were filed at one second, so
that a point mixed from the measurements of two rounds differs from the point of
either. `Starts` are the times from which the ranges of the charts reach.

Two rounds that measure the same second do mix it: the first share of a core that
is filed stands, and the other round's is refused by the primary key.
`ChartsAddUp` says that this, a dropped share, a round still filing and retention
are all that can make a point anything but one round's usage. `lost` in `MCMetrics`
records the seconds of which a share was dropped, or refused for another usage, on
a machine that keeps its cores (`LostSpec`); `MCSpec` bounds it for TLC: time passes
only on a machine of a single core, and a round measures a usage of its own. How
the code estimates the usage, from goroutines and collections of garbage, is left
out.

### Migrations and StartUp

State of `Migrations`: `objects` (tables, indexes, triggers in the schema),
`marks` (rows of `migrations`). Each migration is check, one step per statement of
its script, mark. The scripts are constants: `Schema`, `Rollbacks` and
`ForeignKeys` in `MCMigrations` are those of the nine migrations; `MCStartUp` has
two of the same shapes.

State of `StartUp`: how far each agent is in `main` (`stage`), `.env`, the secret
an agent drew as its default (`own`) and the one it read (`loaded`), the ports,
and the secrets that signed cookies. `config` reads `.env` before `main` writes
it, so the launch that writes the file signs with the default it drew itself,
which is the one it writes. The end is a kill: `ListenAndServe` blocks before
`main` comes to listen for signals, so what stands after it never runs. `calm`
records that the first `.env` was written by an agent on its own and in one go;
`sound` in `MCStartUp` that nothing has failed in a migration but a mark that
another agent had made.

### LogFiles

State: the file, its date, the open handles, the read-write lock (`owner`,
`readers`; an announced writer keeps new readers out), the closed flag, and for
each goroutine its place between the lock sections. `line` records the days on
which the last line was called for and written, and the day of its file.

## Runs

Passing runs exhaust all states of their instance. Bounds and what they show:

| Run | Instance | What it shows |
| --- | --- | --- |
| `edit_files` | 2 requests, 1 text file, 2 revisions, crashes, failing disk and database, lock files that cannot be removed, copies an operator deletes | the lock section is exclusive, completed revisions keep their copy, a revert writes the revision it marked, history is append-only |
| `edit_progress` | 2 requests, failing calls, fairness | every request is answered, every lock file removed |
| `undo_log` | a request on each of two files (text and NPC) at a time, crashes and failing statements | the refinement of `UndoLog` |
| `server_sequences` | 2 requests, 2 configured rows of 3, 2 process ids, places 1 and 2, seven environments | a sequence works on a process only when the ones before (behind) it are up and healthy (down), while single starts, stops, updates and reorderings interfere; where the requests named above come one by one, beside any others: rows distinct in path and place, one instance of a program, no row of a running program deleted, no time recorded that is not true |
| `server_progress` | two sequences, slow and dying processes, fairness | every request is answered |
| `accounts` | 2 requests of any kind, 2 sessions, every fault; 1 account with 2 passwords, or 2 accounts with one (`Small`) | someone can always approve; a manager is one still when the request writes; existing accounts change only by right; no session outlives its password but for the cases `settled` names |
| `uploads` | 3 uploads of either table that overlap, fail and die | names stay as uploaded, refused lists of monsters cost nothing; while uploads have not overlapped, tables are replaced whole |
| `start_up` | 2 agents of one directory, 4 launches, 2 ports, 2 migrations (of one table and of two), failing writes, checks, statements and marks, kills | an agent that answers has the whole schema, marks have no gap, agents do not all give up on each other's marks, and cookies stay good unless the first `.env` was disturbed |
| `metrics` | 2 rounds on empty tables, clean-ups, every fault | filing, unique series, samples that stand until retention is over; a point of the CPU chart is the whole of one round's usage, not mixed with another's, unless the second is in doubt: a share of it was dropped or refused, is being filed, or has expired |
| `log_files` | a writer, rotator, closer, 3 days, files that cannot be opened, fairness | lines in the file of their day, no leak, closed for good; writes and `Close` return |
| `formats` | list files up to 5 bytes of 2 bits, 2-byte count, entries of 3; a file of every extension with 2 users, 2 revisions and 7 contents | keys of the deciphering, overflow of the computed size, short files; forms that are true to the file after a save, files that stay editable |

Configurations that are not in this table check what its runs leave out:
`MetricsProgress.cfg` of `Metrics` (under fairness expired samples go, although
clean-ups fail), `MigrateDown.cfg` of `MCMigrations` (one agent migrates the nine
migrations up and down: foreign keys resolve, nothing is left), and those below
for promises that are not kept.

Two requests are enough wherever a hazard is one goroutine acting between two
steps of another. Three are used where a third can undo the interference
(uploads). Two files, two rows and two accounts are the least for something to
be mixed up; the table of processes has room for two more rows, for the gap that
a deleted one leaves. `edit_files` has one file only: that ids which SQLite hands
out again after a rollback mix no files up, and whatever else needs more files,
sessions, days or rounds, is covered by the proofs. In `start_up` the third and
fourth launches are restarts of either agent. The widths of `formats` keep the
proportions that matter: the size of a list overflows for counts a header can
hold, and does not for a header that is cut short; an NPC file of four bytes has
a name that can be cut in the middle of a character.

`MaxRev`, `MaxRows`, `MaxNow`, `MaxDay`, `MaxTime`, `MaxEdits`, `MaxLaunches`,
`SessionIds` and `Handles` bound what grows in the program without limit; at its
bound an action stops being enabled and the rest goes on. What is proved needs
none of these numbers.

Deadlock is checked, except where a run can truly end: requests that are never
repeated (`ClientData`, `CalmEditing`), launches that are used up (`StartUp`) or
an environment that has run out of requests, rows or process ids
(`ServerFindings`).

### Fairness

`FileRevisions` and `ServerProcesses` assume weak fairness of each request's
next step: a goroutine that can go on is scheduled, calls to disk, database and
operating system return, and every wait in them has a timeout. Nothing is
assumed of arrivals, faults, the clock or other processes. `LogFiles` adds
strong fairness of taking the lock, since `sync.RWMutex` hands itself to those
who wait. `Metrics` (in `MetricsProgress.cfg`) assumes that the cron goes on
starting clean-ups and that the deletion for a cut-off does not fail for ever
(strong fairness: it may fail in between, since a busy database is busy for a
while).

### Promises that the code does not keep

Each of these checks one sentence of the README, the API description
(`cmd/omnihance-a3-agent/docs/openapi.yml`) or an answer's text, and TLC finds
the code violating it. `lost_update` is a run of the list; the others are
configurations beside it, for the module that is named.

| Configuration | Property | Promise | What happens |
| --- | --- | --- | --- |
| `LostUpdate.cfg` (`FileFindings`) | `NoLostUpdate` | "Prevents concurrent editing conflicts" (README.md:92) | reading and writing are outside the lock, so an edit is overwritten without ever having been saved |
| `StaleLock.cfg` (`FileFindings`) | `ConflictMeansEditing` | "File is currently being edited by another process" (openapi.yml:634) | a lock file survives its agent, and the file can never be edited again |
| `RevertCutShort.cfg` (`FileFindings`) | `RevertedMeansRestored` | "copies it back to the original location" (openapi.yml:589) | a revert that fails after its commit has used up its revision |
| `SameSecond.cfg` (`FileFindings`) | `RevertsMostRecent` | "Finds the most recent completed revision" (openapi.yml:589) | of two revisions of one second the older may be restored |
| `CaseCollision.cfg` (`FileFindings`) | `RevertsOwnFile` | "to the original location" (openapi.yml:589) | files whose names differ in case share revisions |
| `DuplicatePath.cfg` (`ServerFindings`) | `NoDuplicatePath` | "Duplicate path prevention" (README.md:156) | two requests register one path at once |
| `DeleteWhileStarting.cfg` (`ServerFindings`) | `RunningHasRow` | "Please stop the process first" (answer to a delete) | a process that is being started is left without a row |
| `CurrentUptime.cfg` (`ServerFindings`) | `CurrentUptimeIsOfThisRun` | "current uptime for running processes" (README.md:161) | after a health check that timed out it is counted from the run before |
| `TwoAdmins.cfg` (`AccountFindings`) | `OneSuperAdmin` | "First registered user automatically becomes super admin" (README.md:18) | two first sign-ups both do |
| `StaleSignIn.cfg` (`AccountFindings`) | `OthersLoggedOut` | "Password update logs out all other sessions" (README.md:27) | a sign-in under way keeps the old password's session |
| `RefusedMap.cfg` (`MCClientData`) | `RefusedKeepsMaps` | "Upload MC.ull files to populate map database" (README.md:131) | a map list that was refused replaces the map table |
| `CpuCard.cfg` (`Metrics`) | `CardIsCurrent` | "cards showing current CPU and RAM usage" (README.md:105) | after a restart on fewer cores the CPU card shows a multiple of the usage |

Met while modelling and visible in the modules, without a configuration: paths
are compared as text, while `normalizePath` ignores case on Windows, so one
program can have two rows (`PathAccepted`, `Binary`); a process that dies
after a second start has an `end_time` older than its `start_time`
(`RecordStart`, `Die`); moving a row across the gap of a deleted one gives two rows
one place (`Reorder`); of two password changes that gave the same current
password the later replaces one its caller did not give (`WritePassword`).

Faults that a property does not hold with, none of which a document of the
repository rules out: rollbacks of migrations that are interrupted or whose
check fails silently (`DownLeavesNothing`, `ReferencesResolve`; nothing calls
`MigrateDown`); a lock file that cannot be removed (`LocksReleased`). A new series
whose label could not be linked keeps its samples without one for ever; no
property says otherwise.

## Proofs

Every theorem is of the form `Spec => []P` or `Spec => [][A]_vars`, or says that one
specification implements another (`CalmSpec => Undo!USpec`, `StartSpec => Spec`),
and holds for all values of the constants, under the `ASSUME`s of the module and
those in its statement. Each module proves an inductive invariant `IInv`
(`Init => IInv`, one lemma per action for `IInv /\ [Next]_vars => IInv'`), or
several that rest on each other, and reads the theorems off it. Every invariant
and every action property of the passing runs is stated by a theorem. Properties of
specifications in `MC` modules (which `AccountsProofs`, `ClientDataProofs`,
`FormatsProofs`, `MetricsProofs` and `MigrationsProofs` extend) are proved with the
history variables of these (`settled`, `calm`, `lost`, `sound`) and without the
bounds of the instances.

- `FileRevisionsProofs`: type correctness, exclusion of the lock section,
  restorable revisions, the target of a revert, append-only history. The
  properties are not inductive by themselves: `HoldsLock` ties each place in a
  handler to the lock file and the transaction it holds, and `RowsInv` the rows
  to the copies and to the locals of the handler that is about to write them.
  `CalmEditingIsUndoLog` is the refinement: initial states map to initial states,
  and every step of `CalmNext` to one of the undo log or to a stutter (a commit
  saves, a write replaces, the commit of a revert restores, a missing copy
  forgets). It rests on `CalmInv`, in which `TimesInOrder` is the least obvious
  part: rows are committed in the order of their times, although a draft gets its
  time long before its commit, because it holds SQLite's write lock in between;
  so the latest revision by time is the last saved. `Alone` says what the one
  request of a file has read, saved and not yet written.
- `AccountsProofs`: type correctness, an approver exists, permissions stay,
  accounts change by right. `Carries` says what a request knows at each place,
  in particular that "not the first" implies a manager exists; `Grows` is the
  lemma that makes this stable under the steps of the others.
  `SessionsEndWithPassword` rests on `SettledInv`: sessions, and sign-ins that are
  about to open one, know the password of the account. Between the write of a
  password and the end of the other sessions they do not; nor does the session
  that the change came with, once another change of the same account has overtaken
  it (`Overtaken`): it is then among the sessions that the other one ends.
- `LogFilesProofs`: lines in their day, no leak, closed for good. `Excl` is the
  lock, `FileInv` says that the file is the only open one and of a day begun,
  `WriterInv` that a writer past its look found a file no older than its call,
  `CloseInv` that nobody opens a file once `Close` has passed.
- `ClientDataProofs`: names as uploaded, refusals of monsters; with `Alone` and
  `Honest` for uploads that do not overlap, whole replacement. `UploadsReplaceWhileCalm`
  says the same of behaviours in which uploads do overlap, up to the first time
  (`CalmSoFar`).
- `MetricsProofs`: filing, unique series, samples that stand. `AtWork` ties the
  series id a round carries to the point it is about to file; `CutoffsArePast`
  is what deletions rest on. `ChartsAreWhole` rests on `LostInv`: the shares of a
  usage that a round measured are at hand in it, or filed, and none is missing
  unless the second is recorded as lost or past retention (`SecondsWhole`,
  `RoundsWhole`). That a point of the chart is then the whole of one usage follows
  without adding up: the tables hold one sample of a core and a second, so two
  usages cannot both be whole (`OneUsage`), and the samples of one usage differ in
  their core, so there are at most as many as cores, and as many if each has one.
- `ServerProcessesProofs`: type correctness; startup in order and shutdown in
  reverse; one instance per program, rows of running programs that stay, distinct
  rows, times that are true, each where the requests it names come one by one.
  `KindsOK` ties a request's place to its kind. `UpIInv` says of every start
  sequence that its list is sorted and what is behind it is healthy, which no step
  undoes where nothing stops (`HealthyStays`); `DownIInv` is its mirror image and
  adds that the pids about to be terminated are all of the program's. `SoloIInv`
  says that what comes one by one is alone, so that none of what follows can be
  undone between a check and its effect: `OnceIInv` (what is about to be spawned
  does not run), `RowsIInv` (what is about to be written differs from every other
  row), `StayIInv` (the row about to be deleted is the one that was read, and its
  program does not run) and `TimesIInv` (the listed rows are as in the table, and
  what is about to be recorded is so). Only distinct rows need an assumption, that
  configured paths differ (`DistinctPaths`).
- `MigrationsProofs`: an agent that serves has the whole schema, marks have no
  gap, references resolve, for every list of migrations whose scripts satisfy
  `ScriptAssumption`, and for agents that only migrate up (`UpOnly`, as main
  does). `StartUpMigrates` is a refinement: every step of `StartUp` is one of
  `Migrations` or leaves its variables alone, so these theorems hold of the agents
  of `StartUp`; with `PastMigrations` it gives `ServesOnWholeSchema`.
  `CookiesStayGood` rests on `StartIInv`: as long as `calm` holds, `.env` is
  untouched, half written by an agent alone, or written with the secret that
  everybody who has come past it uses. `RacesLeaveAnAgent` rests on `RaceInv`: there
  is always an agent in the lead, whose next mark nobody else has inserted. Whoever
  inserts that mark takes the lead, and an agent that dies has it when it starts
  again.
- `FormatsProofs`: deciphering in place takes its keys from the upload, for every key
  table and any operation on bytes (`XorAssumption`); lists are cut right for every
  width.
  `ClearedBehind` is the loop invariant. Of `Inputs`, `EditsStayEditable` needs no
  more than that sizes are numbers: what an encoder writes has the type it was
  encoded for, and what a revision saved had an editor when it was saved
  (`EditorsInv`). `FormsStayTrue` needs all of it, and shows that decoding gives
  back what was encoded (`ShownAsEntered`) and that what was shown once is shown as
  it is (`DecodedIsShown`). The latter is an induction, since `Displayed` is
  recursive: `Recursion` shows that the recursive definition has a solution,
  `Shift` that what is displayed from a byte on does not depend on the bytes before
  it, `DisplayedTwice` that displaying twice is displaying once. The theorems on
  induction of the library take an operator, which the provers cannot be given;
  `Least` derives from `WFMin` and `NatLessThanWellFounded`, which take none, that
  a set of naturals has a least element, and `FromTheEnd` is the principle used.

Only model-checked: liveness (its proofs need `ENABLED`), that is `RequestsAnswered`
of both modules, `LocksReleased`, `WritesReturn`, `CloseReturns` and
`ExpiredGoAway`; the rollbacks, and the promises that are not kept. Only proved: type
correctness of every module with a proof module, `CalmUploadsDoNotMix`,
`TablesReferToTables`, `AgentsAnswerOnWholeSchema`.

## What is not modelled

- The code after `ListenAndServe` returns, which no run of the program reaches;
  the order of the routes; values of `.env` other than the secret and the port.
- Settings (rows that are inserted once and that nothing reads), documentation
  and status routes, the check for local addresses: nothing that two steps share.
- The chart builder and the web interface: its requests are inputs, and so are
  others (a reorder request may carry any places).
- The numbers inside NPC and spawn records (`encoding/binary` of a struct copies
  their bytes), messages and formats, logging, `EncodeULL` and the item table (no
  callers).
- SQLite, the file system, the operating system and the game's tools are
  modelled only as the code uses them.

## Plan

In this order, most important first:

1. An abstract specification of accounts (what `manage_users` promises) refined
   by `Accounts`, and of the daily log refined by `LogFiles`.
2. Edits of `FileRevisions` with the bytes of `GameFiles`: whether a form that is
   stale is the only way to lose what another user saved.
3. Theorems of `Migrations` about rollbacks that nothing interrupts: what
   `MigrateUp` made, `MigrateDown` takes away.
