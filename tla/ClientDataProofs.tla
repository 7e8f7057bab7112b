-------------------------- MODULE ClientDataProofs --------------------------
(***************************************************************************)
(* Safety of ClientData for every number of uploads, ids, names and lists. *)
(***************************************************************************)
EXTENDS MCClientData, TLAPS

-----------------------------------------------------------------------------
(* The inductive invariant.                                                *)

\* Entry e is the first of its id.
IsFirst(e, entries) ==
  \E i \in DOMAIN entries : /\ entries[i] = e
                            /\ \A j \in 1..(i - 1) : entries[j].id # e.id

\* What a request is about to insert comes from its file.
Sound(r, w) ==
  \A row \in w.rows :
    /\ row.by = r
    /\ IsFirst([id |-> row.id, name |-> row.name], w.file.entries)
    /\ \A other \in w.rows : other.id = row.id => other = row

WorkInv == \A r \in Requests : Sound(r, work[r])

\* Requests that have not begun own no row.
NewInv ==
  \A t \in Tables : \A row \in tables[t] : pc[row.by] = "done"

\* The handler for monsters goes on only if it has answered nothing.
MonsterInv ==
  \A r \in Requests : pc[r] \in {"delete", "insert"} /\ work[r].table = "monster" =>
    work[r].status = "none"

IInv == TypeOK /\ NamesAsUploaded /\ WorkInv /\ NewInv /\ MonsterInv

-----------------------------------------------------------------------------
(* Lists.                                                                  *)

LEMMA ListFacts ==
  ASSUME NEW entries \in EntryLists
  PROVE  /\ entries \in Seq(Entry)
         /\ \A i \in DOMAIN entries : i \in Nat /\ entries[i] \in Entry
         /\ DOMAIN entries = 1..Len(entries) /\ Len(entries) \in Nat
  BY ListAssumption

\* FirstEntries keeps one entry of each id, the first.
LEMMA FirstOnly ==
  ASSUME NEW entries \in EntryLists, NEW e \in FirstEntries(entries)
  PROVE  /\ e \in Entry
         /\ IsFirst(e, entries)
         /\ \A f \in FirstEntries(entries) : f.id = e.id => f = e
  <1>1. PICK i \in DOMAIN entries :
          e = entries[i] /\ \A k \in 1..(i - 1) : entries[k].id # entries[i].id
    BY DEF FirstEntries
  <1>2. e \in Entry /\ IsFirst(e, entries)
    BY <1>1, ListFacts DEF IsFirst
  <1>3. ASSUME NEW f \in FirstEntries(entries), f.id = e.id PROVE f = e
    <2>1. PICK j \in DOMAIN entries :
            f = entries[j] /\ \A k \in 1..(j - 1) : entries[k].id # entries[j].id
      BY DEF FirstEntries
    <2>2. i \in Nat /\ j \in Nat /\ i \in 1..Len(entries) /\ j \in 1..Len(entries)
          /\ Len(entries) \in Nat
      BY ListFacts
    <2>3. ~(i < j) /\ ~(j < i)
      <3>1. i < j => i \in 1..(j - 1)
        BY <2>2
      <3>2. j < i => j \in 1..(i - 1)
        BY <2>2
      <3>3. QED
        BY <1>1, <1>3, <2>1, <3>1, <3>2
    <2>4. QED
      BY <1>1, <2>1, <2>2, <2>3
  <1>4. QED
    BY <1>2, <1>3

LEMMA RowFacts ==
  ASSUME NEW r \in Requests, NEW entries \in EntryLists
  PROVE  /\ RowsOf(r, entries) \subseteq Row
         /\ \A row \in RowsOf(r, entries) :
              /\ row.by = r
              /\ IsFirst([id |-> row.id, name |-> row.name], entries)
              /\ \A other \in RowsOf(r, entries) : other.id = row.id => other = row
  <1>1. ASSUME NEW row \in RowsOf(r, entries)
        PROVE  /\ row \in Row /\ row.by = r
               /\ [id |-> row.id, name |-> row.name] \in FirstEntries(entries)
    <2>1. PICK e \in FirstEntries(entries) : row = [id |-> e.id, name |-> e.name, by |-> r]
      BY DEF RowsOf
    <2>2. e \in Entry
      BY FirstOnly
    <2>3. e = [id |-> e.id, name |-> e.name]
      BY <2>2 DEF Entry
    <2>4. QED
      BY <2>1, <2>2, <2>3 DEF Row, Entry
  <1>2. ASSUME NEW row \in RowsOf(r, entries), NEW other \in RowsOf(r, entries),
               other.id = row.id
        PROVE  other = row
    <2>1. [id |-> other.id, name |-> other.name] = [id |-> row.id, name |-> row.name]
      BY <1>1, <1>2, FirstOnly
    <2>2. other.name = row.name
      BY <2>1
    <2>3. QED
      <3>1. \A x \in Row : x = [id |-> x.id, name |-> x.name, by |-> x.by]
        BY DEF Row
      <3>2. row \in Row /\ other \in Row /\ row.by = other.by
        BY <1>1
      <3>3. QED
        BY <1>2, <2>2, <3>1, <3>2
  <1>3. QED
    BY <1>1, <1>2, FirstOnly

\* Locals that hold the rows of a file, or none, are sound.
LEMMA LocalsSound ==
  ASSUME NEW r \in Requests, NEW t \in Tables, NEW file \in Upload,
         NEW status \in Statuses, NEW rows \in {{}, RowsOf(r, file.entries)}
  PROVE  /\ Locals(t, file, rows, status) \in Work
         /\ Sound(r, Locals(t, file, rows, status))
         /\ Locals(t, file, rows, status).table = t
         /\ Locals(t, file, rows, status).status = status
  <1>1. file.entries \in EntryLists
    BY DEF Upload
  <1>2. rows \subseteq Row
    BY <1>1, RowFacts
  <1>3. \A row \in rows :
          /\ row.by = r
          /\ IsFirst([id |-> row.id, name |-> row.name], file.entries)
          /\ \A other \in rows : other.id = row.id => other = row
    <2>1. CASE rows = {}
      BY <2>1
    <2>2. CASE rows = RowsOf(r, file.entries)
      BY <1>1, <2>2, RowFacts
    <2>3. QED
      BY <2>1, <2>2
  <1>4. QED
    BY <1>2, <1>3 DEF Locals, Sound, Work

-----------------------------------------------------------------------------
(* Initial states and steps.                                               *)

LEMMA Initial == Init => IInv
  <1> SUFFICES ASSUME Init PROVE IInv
    OBVIOUS
  <1>1. NoFile \in Upload
    BY ListAssumption DEF NoFile, Upload
  <1>2. \A r \in Requests : work[r] \in Work /\ Sound(r, work[r])
    BY <1>1, LocalsSound DEF Init, Tables, Statuses
  <1>3. TypeOK
    BY <1>2 DEF Init, TypeOK, Steps
  <1>4. NamesAsUploaded /\ WorkInv /\ NewInv /\ MonsterInv
    BY <1>2 DEF Init, NamesAsUploaded, WorkInv, NewInv, MonsterInv
  <1>5. QED
    BY <1>3, <1>4 DEF IInv

\* What Send does: the status, and no other part of the locals.
LEMMA SendFacts ==
  ASSUME TypeOK, NEW r \in Requests, NEW status \in Statuses, Send(r, status)
  PROVE  /\ work' \in [Requests -> Work]
         /\ \A s \in Requests : /\ work'[s].table = work[s].table
                                /\ work'[s].file = work[s].file
                                /\ work'[s].rows = work[s].rows
                                /\ s # r => work'[s] = work[s]
  <1>1. \A s \in Requests : work[s] \in Work
    BY DEF TypeOK
  <1>2. QED
    BY <1>1 DEF Send, TypeOK, Work

\* A request that begins or ends leaves the tables alone.
LEMMA BeginKeeps ==
  ASSUME IInv, NEW r \in Requests, UploadMonsters(r) \/ UploadMaps(r) \/ NoFileSent(r)
  PROVE  IInv'
  <1>1. pc[r] = "new" /\ UNCHANGED tables
    BY DEF UploadMonsters, UploadMaps, NoFileSent
  <1>2. PICK step \in {"delete", "done"}, w \in Work :
          /\ pc' = [pc EXCEPT ![r] = step]
          /\ work' = [work EXCEPT ![r] = w]
          /\ Sound(r, w)
          /\ step = "delete" /\ w.table = "monster" => w.status = "none"
    <2>1. CASE UploadMonsters(r)
      <3>1. PICK file \in Upload : RejectMonsters(r, file) \/ AcceptMonsters(r, file)
        BY <2>1 DEF UploadMonsters
      <3>2. CASE RejectMonsters(r, file)
        <4>1. Locals("monster", file, {}, "rejected") \in Work
              /\ Sound(r, Locals("monster", file, {}, "rejected"))
          BY LocalsSound DEF Tables, Statuses
        <4>2. pc' = [pc EXCEPT ![r] = "done"] /\ work' = [work EXCEPT ![r] = Locals("monster", file, {}, "rejected")]
          BY <3>2 DEF RejectMonsters, Goto
        <4>3. QED
          BY <4>1, <4>2
      <3>3. CASE AcceptMonsters(r, file)
        <4>1. Locals("monster", file, RowsOf(r, file.entries), "none") \in Work
              /\ Sound(r, Locals("monster", file, RowsOf(r, file.entries), "none"))
              /\ Locals("monster", file, RowsOf(r, file.entries), "none").status = "none"
          BY LocalsSound DEF Tables, Statuses
        <4>2. pc' = [pc EXCEPT ![r] = "delete"] /\ work' = [work EXCEPT ![r] = Locals("monster", file, RowsOf(r, file.entries), "none")]
          BY <3>3 DEF AcceptMonsters, Goto
        <4>3. QED
          BY <4>1, <4>2
      <3>4. QED
        BY <3>1, <3>2, <3>3
    <2>2. CASE UploadMaps(r)
      <3>1. PICK file \in Upload :
              /\ Goto(r, "delete")
              /\ work' = [work EXCEPT ![r] =
                   Locals("map", file, RowsToStore(r, file), FirstStatus(file))]
        BY <2>2 DEF UploadMaps
      <3>2. RowsToStore(r, file) \in {{}, RowsOf(r, file.entries)} /\ FirstStatus(file) \in Statuses
        BY DEF RowsToStore, FirstStatus, Statuses
      <3>3. Locals("map", file, RowsToStore(r, file), FirstStatus(file)) \in Work
            /\ Sound(r, Locals("map", file, RowsToStore(r, file), FirstStatus(file)))
            /\ Locals("map", file, RowsToStore(r, file), FirstStatus(file)).table = "map"
        <4>1. "map" \in Tables
          BY DEF Tables
        <4>2. \A rows \in {{}, RowsOf(r, file.entries)}, status \in Statuses :
                /\ Locals("map", file, rows, status) \in Work
                /\ Sound(r, Locals("map", file, rows, status))
                /\ Locals("map", file, rows, status).table = "map"
          BY <4>1, LocalsSound
        <4>3. QED
          BY <3>2, <4>2
      <3>4. QED
        BY <3>1, <3>3 DEF Goto
    <2>3. CASE NoFileSent(r)
      <3>1. /\ work' \in [Requests -> Work]
            /\ work'[r].file = work[r].file /\ work'[r].rows = work[r].rows
            /\ work' = [work EXCEPT ![r] = work'[r]]
        <4>1. /\ work' \in [Requests -> Work]
              /\ \A s \in Requests : /\ work'[s].file = work[s].file
                                     /\ work'[s].rows = work[s].rows
                                     /\ s # r => work'[s] = work[s]
          BY <2>3, SendFacts DEF NoFileSent, IInv, Statuses
        <4>2. QED
          BY <4>1 DEF IInv, TypeOK
      <3>2. Sound(r, work'[r])
        BY <3>1 DEF IInv, WorkInv, Sound
      <3>3. QED
        BY <2>3, <3>1, <3>2 DEF NoFileSent, Goto
    <2>4. QED
      BY <2>1, <2>2, <2>3
  <1>3. TypeOK'
    BY <1>1, <1>2 DEF IInv, TypeOK, Steps
  <1>4. \A t \in Tables : \A row \in tables[t] : row \in Row /\ row.by # r
    BY <1>1 DEF IInv, TypeOK, NewInv
  <1>5. NamesAsUploaded'
    <2>1. \A t \in Tables : \A row \in tables[t] : work'[row.by] = work[row.by]
      BY <1>2, <1>4 DEF IInv, TypeOK, Row
    <2>2. QED
      BY <1>1, <2>1 DEF IInv, NamesAsUploaded
  <1>6. WorkInv' /\ NewInv' /\ MonsterInv'
    <2>1. \A s \in Requests : s # r => work'[s] = work[s] /\ pc'[s] = pc[s]
      BY <1>2 DEF IInv, TypeOK
    <2>2. work'[r] = w /\ pc'[r] = step
      BY <1>2 DEF IInv, TypeOK
    <2>3. WorkInv'
      BY <1>2, <2>1, <2>2 DEF IInv, WorkInv, Sound
    <2>4. NewInv' /\ MonsterInv'
      BY <1>1, <1>2, <1>4, <2>1, <2>2 DEF IInv, NewInv, MonsterInv, Row
    <2>5. QED
      BY <2>3, <2>4
  <1>7. QED
    BY <1>3, <1>5, <1>6 DEF IInv

\* The statements of BulkReplace and the end of the agent.
LEMMA ReplaceKeeps ==
  ASSUME IInv, NEW r \in Requests,
         DeleteAll(r) \/ DeleteFails(r) \/ InsertAll(r) \/ InsertFails(r)
  PROVE  IInv'
  <1>1. /\ work' \in [Requests -> Work]
        /\ \A s \in Requests : /\ work'[s].table = work[s].table
                               /\ work'[s].file = work[s].file
                               /\ work'[s].rows = work[s].rows
                               /\ s # r => work'[s] = work[s]
    BY SendFacts DEF DeleteAll, DeleteFails, InsertAll, InsertFails, Statuses, IInv, TypeOK
  <1>2. /\ pc' \in [Requests -> Steps]
        /\ pc'[r] \in {"insert", "done"} /\ pc[r] \in {"delete", "insert"}
        /\ pc'[r] = "insert" => work' = work
        /\ \A s \in Requests : s # r => pc'[s] = pc[s]
    BY DEF DeleteAll, DeleteFails, InsertAll, InsertFails, Goto, IInv, TypeOK, Steps
  <1>3. WorkInv' /\ MonsterInv'
    BY <1>1, <1>2 DEF IInv, WorkInv, MonsterInv, Sound
  <1>4. CASE InsertAll(r)
    <2> DEFINE t == work[r].table
    <2>1. t \in Tables /\ work[r].rows \subseteq Row
      BY DEF IInv, TypeOK, Work
    <2>2. /\ tables' \in [Tables -> SUBSET Row]
          /\ tables'[t] = tables[t] \cup work[r].rows
          /\ \A u \in Tables : u # t => tables'[u] = tables[u]
      BY <1>4, <2>1 DEF InsertAll, IInv, TypeOK
    <2>3. \A row \in work[r].rows, old \in tables[t] : row.id # old.id
      BY <1>4 DEF InsertAll, IdTaken
    <2>4. pc'[r] = "done"
      BY <1>4 DEF InsertAll, Goto, IInv, TypeOK
    <2>5. NewInv'
      <3>1. ASSUME NEW u \in Tables, NEW row \in tables'[u] PROVE pc'[row.by] = "done"
        <4>1. row.by \in Requests /\ (row \in tables[u] \/ row \in work[r].rows)
          BY <2>2, <3>1 DEF Row
        <4>2. CASE row \in tables[u]
          BY <1>2, <2>4, <4>1, <4>2 DEF IInv, NewInv
        <4>3. CASE row \in work[r].rows
          BY <2>4, <4>3 DEF IInv, WorkInv, Sound
        <4>4. QED
          BY <4>1, <4>2, <4>3
      <3>2. QED
        BY <3>1 DEF NewInv
    <2>6. NamesAsUploaded'
      <3>1. ASSUME NEW u \in Tables, NEW row \in tables'[u]
            PROVE  /\ work'[row.by].table = u
                   /\ IsFirst([id |-> row.id, name |-> row.name], work'[row.by].file.entries)
                   /\ \A other \in tables'[u] : other.id = row.id => other = row
        <4>1. row.by \in Requests
          BY <3>1, <2>2 DEF Row
        <4>2. CASE row \in tables[u]
          BY <1>1, <2>2, <2>3, <3>1, <4>1, <4>2 DEF IInv, NamesAsUploaded, IsFirst
        <4>3. CASE row \notin tables[u]
          <5>1. u = t /\ row \in work[r].rows
            BY <2>2, <3>1, <4>3
          <5>2. QED
            BY <1>1, <2>2, <2>3, <3>1, <5>1 DEF IInv, WorkInv, Sound, Row
        <4>4. QED
          BY <4>2, <4>3
      <3>2. QED
        BY <3>1 DEF NamesAsUploaded, IsFirst
    <2>7. QED
      BY <1>1, <1>2, <1>3, <2>2, <2>5, <2>6 DEF IInv, TypeOK
  <1>5. CASE ~InsertAll(r)
    <2>1. /\ tables' \in [Tables -> SUBSET Row]
          /\ \A u \in Tables : tables'[u] \subseteq tables[u]
      BY <1>5 DEF DeleteAll, DeleteFails, InsertFails, IInv, TypeOK, Work
    <2>2. \A u \in Tables : \A row \in tables[u] : row.by \in Requests
      BY DEF IInv, TypeOK, Row
    <2>3. NewInv'
      BY <1>2, <2>1, <2>2 DEF IInv, NewInv
    <2>4. NamesAsUploaded'
      BY <1>1, <2>1, <2>2 DEF IInv, NamesAsUploaded
    <2>5. QED
      BY <1>1, <1>2, <1>3, <2>1, <2>3, <2>4 DEF IInv, TypeOK
  <1>6. QED
    BY <1>4, <1>5

LEMMA NextKeeps == ASSUME IInv, [Next]_vars PROVE IInv'
  <1>1. ASSUME NEW r \in Requests, Step(r) PROVE IInv'
    BY <1>1, BeginKeeps, ReplaceKeeps DEF Step
  <1>2. CASE Crash
    <2>1. TypeOK' /\ NamesAsUploaded' /\ WorkInv'
      BY <1>2 DEF Crash, IInv, TypeOK, NamesAsUploaded, WorkInv, Steps
    <2>2. NewInv' /\ MonsterInv'
      BY <1>2 DEF Crash, IInv, TypeOK, NewInv, MonsterInv, Row
    <2>3. QED
      BY <2>1, <2>2 DEF IInv
  <1>3. CASE UNCHANGED vars
    BY <1>3 DEF vars, IInv, TypeOK, NamesAsUploaded, WorkInv, NewInv, MonsterInv
  <1>4. QED
    BY <1>1, <1>2, <1>3 DEF Next

-----------------------------------------------------------------------------
(* Calm uploads.                                                           *)

\* The one upload that is between its statements has an empty table before it.
Alone ==
  \A r \in Requests : pc[r] \in {"delete", "insert"} =>
    /\ \A s \in Requests : pc[s] \in {"delete", "insert"} => s = r
    /\ pc[r] = "insert" => tables[work[r].table] = {}

\* An upload that has answered nothing is storing the rows of its file.
Honest ==
  \A r \in Requests : pc[r] # "done" =>
    /\ work[r].status # "stored"
    /\ pc[r] # "new" /\ work[r].status = "none" =>
         work[r].rows = RowsOf(r, work[r].file.entries)

CalmInv == IInv /\ Alone /\ Honest /\ ShowsOneUpload

LEMMA CalmInitial == Init => CalmInv
  <1> SUFFICES ASSUME Init PROVE CalmInv
    OBVIOUS
  <1>1. Alone /\ Honest /\ ShowsOneUpload
    BY DEF Init, Alone, Honest, ShowsOneUpload, Locals
  <1>2. QED
    BY <1>1, Initial DEF CalmInv

LEMMA CalmBegin ==
  ASSUME CalmInv, Calm, IInv', NEW r \in Requests,
         UploadMonsters(r) \/ UploadMaps(r) \/ NoFileSent(r)
  PROVE  CalmInv'
  <1> USE DEF CalmInv, IInv, TypeOK
  <1>1. /\ UNCHANGED tables
        /\ pc[r] = "new" /\ pc'[r] \in {"delete", "done"}
        /\ \A s \in Requests : s # r => pc'[s] = pc[s] /\ work'[s] = work[s]
    BY DEF UploadMonsters, RejectMonsters, AcceptMonsters, UploadMaps, NoFileSent,
           Goto, Send
  <1>2. Alone'
    BY <1>1 DEF Alone, Calm
  <1>3. Honest'
    <2>1. pc'[r] = "delete" => work'[r].status \in {"none", "rejected"}
      BY DEF UploadMonsters, RejectMonsters, AcceptMonsters, UploadMaps, NoFileSent, Goto, Locals,
             FirstStatus
    <2>2. pc'[r] = "delete" /\ work'[r].status = "none" =>
            work'[r].rows = RowsOf(r, work'[r].file.entries)
      BY DEF UploadMonsters, RejectMonsters, AcceptMonsters, UploadMaps, NoFileSent, Goto, Locals,
             FirstStatus, RowsToStore
    <2>3. QED
      BY <1>1, <2>1, <2>2 DEF Honest
  <1>4. ShowsOneUpload'
    BY <1>1 DEF ShowsOneUpload
  <1>5. QED
    BY <1>2, <1>3, <1>4

LEMMA CalmReplace ==
  ASSUME CalmInv, Calm, IInv', NEW r \in Requests,
         DeleteAll(r) \/ DeleteFails(r) \/ InsertAll(r) \/ InsertFails(r)
  PROVE  CalmInv'
  <1> USE DEF CalmInv, IInv
  <1>1. /\ \A s \in Requests : /\ work'[s].table = work[s].table
                               /\ work'[s].file = work[s].file
                               /\ work'[s].rows = work[s].rows
                               /\ s # r => work'[s] = work[s]
    BY SendFacts DEF DeleteAll, DeleteFails, InsertAll, InsertFails, Statuses, TypeOK
  <1>2. /\ pc'[r] \in {"insert", "done"} /\ pc[r] \in {"delete", "insert"}
        /\ pc'[r] = "insert" => work' = work
        /\ \A s \in Requests : s # r => pc'[s] = pc[s]
    BY DEF DeleteAll, DeleteFails, InsertAll, InsertFails, Goto, TypeOK
  <1>3. Honest'
    BY <1>1, <1>2 DEF Honest
  <1>4. work[r].table \in Tables
    BY DEF TypeOK, Work
  <1>5. CASE DeleteAll(r)
    <2>1. /\ tables'[work[r].table] = {}
          /\ \A t \in Tables : t # work[r].table => tables'[t] = tables[t]
      BY <1>4, <1>5 DEF DeleteAll, TypeOK
    <2>2. Alone'
      BY <1>1, <1>2, <2>1 DEF Alone
    <2>3. ShowsOneUpload'
      BY <2>1 DEF ShowsOneUpload
    <2>4. QED
      BY <1>3, <2>2, <2>3
  <1>6. CASE InsertAll(r)
    <2>1. pc[r] = "insert" /\ pc'[r] = "done"
      BY <1>6 DEF InsertAll, Goto, TypeOK
    <2>2. /\ tables'[work[r].table] = work[r].rows
          /\ \A t \in Tables : t # work[r].table => tables'[t] = tables[t]
      BY <1>4, <1>6, <2>1 DEF InsertAll, TypeOK, Alone
    <2>3. Alone'
      BY <1>2, <2>1 DEF Alone
    <2>4. ShowsOneUpload'
      <3>1. \A row \in work[r].rows : row.by = r
        BY DEF WorkInv, Sound
      <3>2. QED
        BY <1>4, <2>2, <3>1 DEF ShowsOneUpload
    <2>5. QED
      BY <1>3, <2>3, <2>4
  <1>7. CASE DeleteFails(r) \/ InsertFails(r)
    <2>1. pc'[r] = "done" /\ UNCHANGED tables
      BY <1>7 DEF DeleteFails, InsertFails, Goto, TypeOK
    <2>2. Alone' /\ ShowsOneUpload'
      BY <1>2, <2>1 DEF Alone, ShowsOneUpload
    <2>3. QED
      BY <1>3, <2>2
  <1>8. QED
    BY <1>5, <1>6, <1>7

LEMMA CalmKeeps == ASSUME CalmInv, [Next /\ Calm]_vars PROVE CalmInv'
  <1>1. IInv'
    BY NextKeeps DEF CalmInv
  <1>2. ASSUME NEW r \in Requests, Step(r), Calm PROVE CalmInv'
    BY <1>1, <1>2, CalmBegin, CalmReplace DEF Step
  <1>3. CASE Crash
    BY <1>1, <1>3 DEF Crash, CalmInv, Alone, Honest, ShowsOneUpload, IInv, TypeOK
  <1>4. CASE UNCHANGED vars
    BY <1>1, <1>4 DEF vars, CalmInv, Alone, Honest, ShowsOneUpload
  <1>5. QED
    BY <1>2, <1>3, <1>4 DEF Next

\* A step in the sense of StoredMeansReplaced, without the temporal operators.
LEMMA StoringReplaces ==
  ASSUME CalmInv, [Next /\ Calm]_vars, NEW r \in Requests,
         pc[r] # "done", pc'[r] = "done", work'[r].status = "stored"
  PROVE  tables'[work[r].table] = RowsOf(r, work[r].file.entries)
  <1> USE DEF CalmInv, IInv, TypeOK
  <1>1. ASSUME NEW s \in Requests, Step(s) PROVE s = r
    BY <1>1 DEF Step, UploadMonsters, RejectMonsters, AcceptMonsters, UploadMaps, NoFileSent,
                DeleteAll, DeleteFails, InsertAll, InsertFails, Goto
  <1>2. ~Crash /\ ~UNCHANGED vars
    BY DEF Crash, vars, Honest
  <1>3. Step(r)
    BY <1>1, <1>2 DEF Next
  <1>4. DeleteAll(r) \/ InsertAll(r)
    <2>1. ~UploadMonsters(r) /\ ~UploadMaps(r)
      BY DEF UploadMonsters, RejectMonsters, AcceptMonsters, UploadMaps, Goto, Locals, Honest
    <2>2. ~NoFileSent(r)
      BY DEF NoFileSent, Send, Honest, Work
    <2>3. ~DeleteFails(r) /\ ~InsertFails(r)
      BY DEF DeleteFails, InsertFails, Send, Honest, Work
    <2>4. QED
      BY <1>3, <2>1, <2>2, <2>3 DEF Step
  <1>5. work[r].status = "none" /\ work[r].table \in Tables /\ work[r] \in Work
    BY <1>4 DEF DeleteAll, InsertAll, Send, Honest, Work
  <1>6. work[r].rows = RowsOf(r, work[r].file.entries)
    BY <1>4, <1>5 DEF DeleteAll, InsertAll, Honest
  <1>7. CASE DeleteAll(r)
    BY <1>5, <1>6, <1>7 DEF DeleteAll, Goto
  <1>8. CASE InsertAll(r)
    BY <1>5, <1>6, <1>8 DEF InsertAll, Alone
  <1>9. QED
    BY <1>4, <1>7, <1>8

\* Rows of monsters disappear by the DELETE of an upload that was not refused.
LEMMA DeletingAccepted ==
  ASSUME IInv, [Next]_vars, ~(tables["monster"] \subseteq tables'["monster"])
  PROVE  \E r \in Requests : /\ pc[r] = "delete" /\ pc'[r] # "delete"
                             /\ work[r].table = "monster"
                             /\ work'[r].status \in {"none", "stored"}
  <1> USE DEF IInv, TypeOK
  <1>1. "monster" \in Tables
    BY DEF Tables
  <1>2. tables["monster"] # tables'["monster"]
    OBVIOUS
  <1>3. PICK r \in Requests : DeleteAll(r)
    <2>1. ~Crash /\ ~UNCHANGED vars
      BY <1>2 DEF Crash, vars
    <2>2. PICK r \in Requests : Step(r)
      BY <2>1 DEF Next
    <2>3. ~InsertAll(r)
      BY <1>1 DEF InsertAll
    <2>4. DeleteAll(r)
      BY <1>2, <2>2, <2>3 DEF Step, UploadMonsters, UploadMaps, NoFileSent, DeleteFails, InsertFails
    <2>5. QED
      BY <2>4
  <1>4. work[r].table = "monster" /\ work[r].status = "none" /\ work[r] \in Work
    BY <1>1, <1>2, <1>3 DEF DeleteAll, MonsterInv
  <1>5. pc[r] = "delete" /\ pc'[r] # "delete" /\ work'[r].status \in {"none", "stored"}
    BY <1>3, <1>4 DEF DeleteAll, Goto, Send, Work
  <1>6. QED
    BY <1>4, <1>5

-----------------------------------------------------------------------------
(* The theorems.                                                           *)

LEMMA Inductive == Spec => []IInv
  <1>1. Init => IInv
    BY Initial
  <1>2. IInv /\ [Next]_vars => IInv'
    BY NextKeeps
  <1>3. QED
    BY <1>1, <1>2, PTL DEF Spec

LEMMA CalmInductive == CalmSpec => []CalmInv
  <1>1. Init => CalmInv
    BY CalmInitial
  <1>2. CalmInv /\ [Next /\ Calm]_vars => CalmInv'
    BY CalmKeeps
  <1>3. QED
    BY <1>1, <1>2, PTL DEF CalmSpec

\* Every variable has its type.
THEOREM TypeCorrect == Spec => []TypeOK
  <1>1. IInv => TypeOK
    BY DEF IInv
  <1>2. QED
    BY <1>1, Inductive, PTL

\* The order of dedup, DELETE and INSERT keeps names right: a table names an id
\* once, as the first entry of that id in an uploaded file.
THEOREM NamesAreAsUploaded == Spec => []NamesAsUploaded
  <1>1. IInv => NamesAsUploaded
    BY DEF IInv
  <1>2. QED
    BY <1>1, Inductive, PTL

\* An upload of monsters that is refused deletes no row.
THEOREM RefusalKeepsMonsters == Spec => RefusedKeepsMonsters
  <1>1. IInv /\ [Next]_vars =>
          [~(tables["monster"] \subseteq tables'["monster"]) =>
             \E r \in Requests : /\ pc[r] = "delete" /\ pc'[r] # "delete"
                                 /\ work[r].table = "monster"
                                 /\ work'[r].status \in {"none", "stored"}]_vars
    BY DeletingAccepted
  <1>2. QED
    BY <1>1, Inductive, PTL DEF Spec, RefusedKeepsMonsters

\* Uploads that do not overlap replace the table, or say that they failed.
THEOREM CalmUploadsReplace == CalmSpec => StoredMeansReplaced
  <1>1. CalmInv /\ [Next /\ Calm]_vars =>
          [\A r \in Requests : pc[r] # "done" /\ pc'[r] = "done" /\ work'[r].status = "stored" =>
             tables'[work[r].table] = RowsOf(r, work[r].file.entries)]_vars
    BY StoringReplaces
  <1>2. QED
    BY <1>1, CalmInductive, PTL DEF CalmSpec, StoredMeansReplaced

\* Uploads that do not overlap never show a mixture of two lists.
THEOREM CalmUploadsDoNotMix == CalmSpec => []ShowsOneUpload
  <1>1. CalmInv => ShowsOneUpload
    BY DEF CalmInv
  <1>2. QED
    BY <1>1, CalmInductive, PTL

-----------------------------------------------------------------------------
(* Uploads that have been calm so far.                                     *)

CalmSoFar == IInv /\ calm \in BOOLEAN /\ (calm => CalmInv)

LEMMA CalmSoFarKept == ASSUME CalmSoFar, [MCNext]_<<vars, calm>> PROVE CalmSoFar'
  <1>1. CASE MCNext
    <2>1. IInv' /\ calm' \in BOOLEAN
      BY <1>1, NextKeeps DEF CalmSoFar, MCNext
    <2>2. calm' => CalmInv'
      BY <1>1, CalmKeeps DEF CalmSoFar, MCNext
    <2>3. QED
      BY <2>1, <2>2 DEF CalmSoFar
  <1>2. CASE UNCHANGED <<vars, calm>>
    <2>1. IInv'
      BY <1>2, NextKeeps DEF CalmSoFar
    <2>2. CalmInv => CalmInv'
      BY <1>2, CalmKeeps
    <2>3. QED
      BY <1>2, <2>1, <2>2 DEF CalmSoFar
  <1>3. QED
    BY <1>1, <1>2

\* An upload that answers success has replaced the table, as long as no two have
\* overlapped so far, whatever happens later and whatever failed or died before.
THEOREM UploadsReplaceWhileCalm == MCSpec => CalmReplaces
  <1>1. MCInit => CalmSoFar
    BY Initial, CalmInitial DEF MCInit, CalmSoFar
  <1>2. CalmSoFar /\ [MCNext]_<<vars, calm>> => CalmSoFar'
    BY CalmSoFarKept
  <1>3. CalmSoFar /\ [MCNext]_<<vars, calm>> =>
          [\A r \in Requests :
             calm' /\ pc[r] # "done" /\ pc'[r] = "done" /\ work'[r].status = "stored" =>
               tables'[work[r].table] = RowsOf(r, work[r].file.entries)]_vars
    <2>1. SUFFICES ASSUME CalmSoFar, [MCNext]_<<vars, calm>>, NEW r \in Requests, calm',
                          pc[r] # "done", pc'[r] = "done", work'[r].status = "stored"
                   PROVE  tables'[work[r].table] = RowsOf(r, work[r].file.entries)
      OBVIOUS
    <2>2. MCNext
      BY <2>1 DEF vars
    <2>3. CalmInv /\ [Next /\ Calm]_vars
      BY <2>1, <2>2 DEF CalmSoFar, MCNext
    <2>4. QED
      BY <2>1, <2>3, StoringReplaces
  <1>4. QED
    BY <1>1, <1>2, <1>3, PTL DEF MCSpec, CalmReplaces
=============================================================================
