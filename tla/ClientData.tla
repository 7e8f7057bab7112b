----------------------------- MODULE ClientData -----------------------------
(***************************************************************************)
(* Uploads of the client's monster list and map list.                      *)
(*                                                                         *)
(* An upload is parsed, stripped of repeated ids, and then replaces a      *)
(* table by two statements: a DELETE of everything and an INSERT of the    *)
(* new rows.  There is no transaction around the two and uploads of the    *)
(* same table do not exclude each other.                                   *)
(***************************************************************************)
EXTENDS Naturals, Sequences

CONSTANTS
  Requests,    \* uploads, each by a user of its own
  Ids, Names,  \* of monsters and of maps
  EntryLists,  \* what a well-formed file may list: sequences of [id, name]
  Faults       \* "delete", "insert": the statement fails; "crash": the agent dies

Tables == {"monster", "map"}
Entry  == [id : Ids, name : Names]
Row    == [id : Ids, name : Names, by : Requests]

ASSUME ListAssumption  == EntryLists \subseteq Seq(Entry) /\ <<>> \in EntryLists
ASSUME FaultAssumption == Faults \subseteq {"delete", "insert", "crash"}

\* A file: whether it is within MAX_FILE_UPLOAD_SIZE_MB, whether it parses (one
\* that is too short for its count does not), and its list.
Upload == [fits : BOOLEAN, form : {"list", "garbage"}, entries : EntryLists]

VARIABLES
  tables,  \* the rows of monster_client_data and of map_client_data
  pc,      \* where each request is
  work     \* its locals: the table, the file, the rows to store, the status sent

vars == <<tables, pc, work>>

-----------------------------------------------------------------------------

Steps    == {"new", "delete", "insert", "done"}
Statuses == {"none", "stored", "rejected", "failed"}
Work     == [table : Tables, file : Upload, rows : SUBSET Row, status : Statuses]
NoFile   == [fits |-> TRUE, form |-> "list", entries |-> <<>>]

Locals(table, file, rows, status) ==
  [table |-> table, file |-> file, rows |-> rows, status |-> status]

\* Mutant: the last entry of an id counts.
LastEntries(entries) ==
  {entries[i] : i \in {j \in DOMAIN entries :
     \A k \in DOMAIN entries : k > j => entries[k].id # entries[j].id}}

\* The first entry of an id counts, the others are skipped.
FirstEntries(entries) ==
  {entries[i] : i \in {j \in DOMAIN entries : \A k \in 1..(j - 1) : entries[k].id # entries[j].id}}

\* The records of BulkReplace, created_by the caller.
RowsOf(r, entries) == {[id |-> e.id, name |-> e.name, by |-> r] : e \in FirstEntries(entries)}

Goto(r, step) == pc' = [pc EXCEPT ![r] = step]

\* Only the first status written to a response counts.
Send(r, status) ==
  work' = [work EXCEPT ![r].status = IF @ = "none" THEN status ELSE @]

Init ==
  /\ tables = [t \in Tables |-> {}]
  /\ pc = [r \in Requests |-> "new"]
  /\ work = [r \in Requests |-> Locals("monster", NoFile, {}, "none")]

-----------------------------------------------------------------------------
(* The two handlers.                                                       *)

\* Where the handler for maps has got to when it has read a file.
RowsToStore(r, file) == IF file.form = "list" THEN RowsOf(r, file.entries) ELSE {}
FirstStatus(file)    == IF file.fits /\ file.form = "list" THEN "none" ELSE "rejected"

\* The handler for monsters returns on every error.
RejectMonsters(r, file) ==
  /\ ~file.fits \/ file.form = "garbage"
  /\ Goto(r, "done")
  /\ work' = [work EXCEPT ![r] = Locals("monster", file, {}, "rejected")]

\* Mutant: no return after an error, as in the handler for maps.
AcceptMonstersAnyway(r, file) ==
  /\ Goto(r, "delete")
  /\ work' = [work EXCEPT ![r] = Locals("monster", file, RowsToStore(r, file), FirstStatus(file))]

AcceptMonsters(r, file) ==
  /\ file.fits /\ file.form = "list"
  /\ Goto(r, "delete")
  /\ work' = [work EXCEPT ![r] = Locals("monster", file, RowsOf(r, file.entries), "none")]

UploadMonsters(r) ==
  /\ pc[r] = "new"
  /\ \E file \in Upload : RejectMonsters(r, file) \/ AcceptMonsters(r, file)
  /\ UNCHANGED tables

\* The handler for maps answers an error and goes on: with the whole list when
\* the file is too large, with no row when it does not parse.
UploadMaps(r) ==
  /\ pc[r] = "new"
  /\ \E file \in Upload :
       /\ Goto(r, "delete")
       /\ work' = [work EXCEPT ![r] = Locals("map", file, RowsToStore(r, file), FirstStatus(file))]
  /\ UNCHANGED tables

\* A form without a file; the handler for maps panics when it has answered.
NoFileSent(r) ==
  /\ pc[r] = "new"
  /\ Goto(r, "done") /\ Send(r, "rejected")
  /\ UNCHANGED tables

-----------------------------------------------------------------------------
(* BulkReplaceMonsterClientData and BulkReplaceMapClientData.              *)

\* Mutant: a list without rows is answered before the DELETE.
DeleteUnlessEmpty(r) ==
  /\ pc[r] = "delete"
  /\ IF work[r].rows = {}
     THEN Goto(r, "done") /\ Send(r, "stored") /\ UNCHANGED tables
     ELSE Goto(r, "insert") /\ tables' = [tables EXCEPT ![work[r].table] = {}]
          /\ UNCHANGED work

DeleteAll(r) ==
  /\ pc[r] = "delete"
  /\ tables' = [tables EXCEPT ![work[r].table] = {}]
  /\ IF work[r].rows = {}
     THEN Goto(r, "done") /\ Send(r, "stored")
     ELSE Goto(r, "insert") /\ UNCHANGED work

DeleteFails(r) ==
  /\ pc[r] = "delete" /\ "delete" \in Faults
  /\ Goto(r, "done") /\ Send(r, "failed")
  /\ UNCHANGED tables

\* The primary key refuses the whole statement when one id is taken.
IdTaken(r) ==
  \E row \in work[r].rows, old \in tables[work[r].table] : row.id = old.id

InsertAll(r) ==
  /\ pc[r] = "insert" /\ ~IdTaken(r)
  /\ tables' = [tables EXCEPT ![work[r].table] = @ \cup work[r].rows]
  /\ Goto(r, "done") /\ Send(r, "stored")

InsertFails(r) ==
  /\ pc[r] = "insert" /\ (IdTaken(r) \/ "insert" \in Faults)
  /\ Goto(r, "done") /\ Send(r, "failed")
  /\ UNCHANGED tables

\* The agent dies, and with it every request it is working on.
Crash ==
  /\ "crash" \in Faults
  /\ pc' = [r \in Requests |-> IF pc[r] = "new" THEN "new" ELSE "done"]
  /\ UNCHANGED <<tables, work>>

-----------------------------------------------------------------------------

Step(r) ==
  \/ UploadMonsters(r) \/ UploadMaps(r) \/ NoFileSent(r)
  \/ DeleteAll(r) \/ DeleteFails(r)
  \/ InsertAll(r) \/ InsertFails(r)

Next == Crash \/ \E r \in Requests : Step(r)

Spec == Init /\ [][Next]_vars

\* Calm uploads: one runs to its end, or dies with the agent, before the next.
Calm == \A r, s \in Requests :
  pc'[r] \in {"delete", "insert"} /\ pc'[s] \in {"delete", "insert"} => r = s

CalmSpec == Init /\ [][Next /\ Calm]_vars

-----------------------------------------------------------------------------
(* Properties.                                                             *)

TypeOK ==
  /\ tables \in [Tables -> SUBSET Row]
  /\ pc \in [Requests -> Steps]
  /\ work \in [Requests -> Work]

\* Whatever uploads race and fail, a table names an id once, and as the first
\* entry of that id in the file it came from.
NamesAsUploaded ==
  \A t \in Tables : \A row \in tables[t] :
    /\ work[row.by].table = t
    /\ LET entries == work[row.by].file.entries IN
         \E i \in DOMAIN entries : /\ entries[i] = [id |-> row.id, name |-> row.name]
                                   /\ \A j \in 1..(i - 1) : entries[j].id # row.id
    /\ \A other \in tables[t] : other.id = row.id => other = row

\* A monster upload that was refused has cost the table nothing: rows disappear
\* only by the step of an upload of that table that has not answered an error.
RefusedKeepsMonsters ==
  [][~(tables["monster"] \subseteq tables'["monster"]) =>
       \E r \in Requests : /\ pc[r] = "delete" /\ pc'[r] # "delete"
                           /\ work[r].table = "monster"
                           /\ work'[r].status \in {"none", "stored"}]_vars

\* Calm uploads: an upload that answers success has replaced the table.
StoredMeansReplaced ==
  [][\A r \in Requests : pc[r] # "done" /\ pc'[r] = "done" /\ work'[r].status = "stored" =>
       tables'[work[r].table] = RowsOf(r, work[r].file.entries)]_vars

\* Calm uploads: a reader of a table sees one upload or nothing, never a mixture.
ShowsOneUpload ==
  \A t \in Tables : \A row, other \in tables[t] : row.by = other.by

=============================================================================
