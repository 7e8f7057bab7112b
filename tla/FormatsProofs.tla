--------------------------- MODULE FormatsProofs ---------------------------
(***************************************************************************)
(* Deciphering and parsing are right for every key table, every entry size *)
(* and every length of file; no edit or revert takes a game file away from *)
(* the editors, and what they show is true, for every file and every form. *)
(***************************************************************************)
EXTENDS MCFormats, WellFoundedInduction, TLAPS

-----------------------------------------------------------------------------
(* The inductive invariant.                                                *)

\* The loop has unmasked the bytes behind it and touched none before it.
ClearedBehind ==
  pc = "decode" =>
    \A k \in DOMAIN data : data[k] = IF k <= at THEN upload[k] ELSE Unmasked(upload)[k]

\* The entries read lie in the file, and the count is that of its header.
EntriesAreThere ==
  /\ pc = "decode" => entries = 0
  /\ pc = "read" => HeaderSize + entries * EntrySize <= Len(data)
  /\ pc \in {"read", "done", "refused"} => count = CountOf(data)

IInv ==
  /\ TypeOK /\ DOMAIN data = DOMAIN upload
  /\ at <= Len(data)
  /\ ClearedBehind /\ KeysAreOfTheUpload /\ EntriesAreThere
  /\ ListIsWhole /\ WholeListIsTaken /\ ShortFilesAreRefused

-----------------------------------------------------------------------------
(* Arithmetic and masks.                                                   *)

LEMMA ModBelow ==
  ASSUME NEW x \in Nat, NEW m \in Nat \ {0}
  PROVE  x % m \in 0..(m - 1) /\ x % m <= x /\ (x < m => x % m = x)
  OBVIOUS

\* A file is a sequence.
LEMMA FileFacts ==
  ASSUME NEW f \in Files
  PROVE  /\ Len(f) \in 0..MaxSize /\ DOMAIN f = 1..Len(f)
         /\ f \in [1..Len(f) -> Byte]
  <1>1. PICK n \in 0..MaxSize : f \in [1..n -> Byte]
    BY DEF Files
  <1>2. f \in Seq(Byte) /\ Len(f) = n
    BY <1>1, SizeAssumption
  <1>3. QED
    BY <1>1, <1>2

LEMMA SameLength ==
  ASSUME NEW f \in Files, NEW g \in Files, DOMAIN f = DOMAIN g
  PROVE  Len(f) = Len(g)
  BY FileFacts, SizeAssumption

\* What is unmasked is a byte.
LEMMA MaskTyped ==
  ASSUME NEW prev \in Byte, NEW b \in Byte, NEW k \in Nat, NEW n \in Nat, k <= n
  PROVE  Masked(prev, b, k, n) \in Byte
  <1> DEFINE x == (n - k + 1) % Base
             y == n % Base
             z == CryptTable[prev]
  <1>1. x \in Byte /\ y \in Byte /\ z \in Byte
    BY ModBelow, SizeAssumption DEF Byte
  <1> HIDE DEF x, y, z
  <1>2. Xor(x, Xor(y, Xor(z, b))) \in Byte
    BY <1>1, XorAssumption
  <1>3. QED
    BY <1>2 DEF Masked, x, y, z

-----------------------------------------------------------------------------
(* Steps.                                                                  *)

LEMMA Initial == Init => IInv
  <1> SUFFICES ASSUME Init PROVE IInv
    OBVIOUS
  <1>1. Len(upload) \in 0..MaxSize /\ DOMAIN upload = 1..Len(upload)
    BY FileFacts DEF Init
  <1>2. QED
    BY <1>1, SizeAssumption DEF Init, IInv, TypeOK, ClearedBehind, KeysAreOfTheUpload,
       EntriesAreThere, ListIsWhole, WholeListIsTaken, ShortFilesAreRefused

LEMMA DecodeKeeps == ASSUME IInv, DecodeByte PROVE IInv'
  <1> DEFINE n == Len(data)
             b == Masked(data[at - 1], data[at], at, n)
  <1>1. /\ n \in 0..MaxSize /\ DOMAIN data = 1..n /\ data \in [1..n -> Byte]
        /\ Len(upload) = n /\ at \in 2..n /\ DOMAIN upload = 1..n
    <2>1. data \in Files /\ upload \in Files /\ at \in Nat
      BY SizeAssumption DEF IInv, TypeOK
    <2>2. n \in 0..MaxSize /\ DOMAIN data = 1..n /\ data \in [1..n -> Byte]
      BY <2>1, FileFacts
    <2>3. Len(upload) = n /\ DOMAIN upload = 1..n
      BY <2>1, <2>2, SameLength DEF IInv
    <2>4. at > 1 /\ at <= n
      BY DEF DecodeByte, IInv
    <2>5. QED
      BY <2>1, <2>2, <2>3, <2>4, SizeAssumption
  <1>2. data[at] = upload[at] /\ data[at - 1] = upload[at - 1]
    BY <1>1 DEF IInv, ClearedBehind, DecodeByte
  <1>3. b = Unmasked(upload)[at]
    BY <1>1, <1>2 DEF Unmasked
  <1>4. b \in Byte
    <2>1. at \in Nat /\ n \in Nat /\ at <= n /\ at - 1 \in 1..n /\ at \in 1..n
      BY <1>1, SizeAssumption
    <2>2. data[at - 1] \in Byte /\ data[at] \in Byte
      BY <1>1, <2>1
    <2>3. QED
      BY <2>1, <2>2, MaskTyped
  <1>5. /\ data' = [data EXCEPT ![at] = b] /\ at' = at - 1
        /\ UNCHANGED <<upload, pc, count, entries>> /\ pc = "decode"
    BY DEF DecodeByte
  <1> HIDE DEF b
  <1>6. /\ data' \in [1..n -> Byte] /\ data' \in Files
        /\ DOMAIN data' = DOMAIN data
    BY <1>1, <1>4, <1>5 DEF Files
  <1>7. Len(data') = n
    BY <1>6, SameLength DEF IInv, TypeOK
  <1>8. ClearedBehind'
    BY <1>1, <1>3, <1>5, <1>6 DEF ClearedBehind, IInv
  <1>9. TypeOK' /\ at' <= Len(data')
    BY <1>1, <1>5, <1>6, <1>7, SizeAssumption DEF IInv, TypeOK
  <1>10. QED
    BY <1>5, <1>6, <1>8, <1>9 DEF IInv, KeysAreOfTheUpload, EntriesAreThere,
       ListIsWhole, WholeListIsTaken, ShortFilesAreRefused

LEMMA CountKeeps == ASSUME IInv, ReadCount PROVE IInv'
  <1>1. DOMAIN data = 1..Len(data) /\ Len(data) \in 0..MaxSize /\ data \in [DOMAIN data -> Byte]
    BY FileFacts DEF IInv, TypeOK
  <1>2. \A k \in DOMAIN data : data[k] = Unmasked(upload)[k]
    <2>1. ASSUME NEW k \in DOMAIN data, k <= at PROVE data[k] = Unmasked(upload)[k]
      <3>1. k = 1 /\ data[k] = upload[k] /\ k \in DOMAIN upload
        BY <1>1, <2>1, SizeAssumption DEF IInv, TypeOK, ClearedBehind, ReadCount
      <3>2. QED
        BY <3>1 DEF Unmasked
    <2>2. QED
      BY <2>1 DEF IInv, ClearedBehind, ReadCount
  <1>3. data = Unmasked(upload)
    BY <1>1, <1>2 DEF IInv, Unmasked
  <1> DEFINE c == CountOf(data)
             size == c * EntrySize + HeaderSize
  <1>4. c \in 0..(Modulus - 1) /\ (Len(data) < HeaderSize => size < Modulus)
    BY CountAssumption DEF IInv, TypeOK
  <1>5. size \in Nat /\ c * EntrySize \in Nat /\ size >= HeaderSize
    BY <1>4, SizeAssumption
  <1>6. SizeOf(c) <= size /\ (size < Modulus => SizeOf(c) = size)
    BY <1>5, ModBelow, SizeAssumption DEF SizeOf
  <1>7. /\ count' = c
        /\ pc' = IF Len(data) < SizeOf(c) THEN "refused"
                 ELSE IF Len(data) < HeaderSize THEN "panicked" ELSE "read"
        /\ UNCHANGED <<upload, data, at, entries>> /\ entries = 0
    BY DEF ReadCount, TooSmall, IInv, EntriesAreThere
  <1> HIDE DEF c, size
  <1>8. /\ pc' = "read" => HeaderSize <= Len(data)
        /\ pc' = "refused" => size > Len(data)
        /\ pc' # "panicked"
    <2>1. Len(data) \in Nat /\ HeaderSize \in Nat /\ SizeOf(c) \in Nat
      BY <1>1, <1>5, ModBelow, SizeAssumption DEF SizeOf, size
    <2>2. CASE Len(data) < SizeOf(c)
      BY <1>5, <1>6, <1>7, <2>1, <2>2
    <2>3. CASE ~(Len(data) < SizeOf(c))
      <3>1. ~(Len(data) < HeaderSize)
        BY <1>4, <1>5, <1>6, <2>1, <2>3
      <3>2. pc' = "read"
        BY <1>7, <2>3, <3>1
      <3>3. QED
        BY <2>1, <3>1, <3>2
    <2>4. QED
      BY <2>2, <2>3
  <1>9. TypeOK'
    BY <1>4, <1>7, SizeAssumption DEF IInv, TypeOK
  <1>10. /\ pc' \in {"refused", "read"} /\ 0 * EntrySize = 0
         /\ HeaderSize + c * EntrySize = size
    BY <1>4, <1>5, <1>7, <1>8, SizeAssumption DEF size
  <1>11. EntriesAreThere' /\ ListIsWhole' /\ WholeListIsTaken' /\ ShortFilesAreRefused'
    BY <1>7, <1>8, <1>10, SizeAssumption
       DEF EntriesAreThere, ListIsWhole, WholeListIsTaken, ShortFilesAreRefused, c
  <1>12. QED
    BY <1>3, <1>7, <1>9, <1>10, <1>11 DEF IInv, ClearedBehind, KeysAreOfTheUpload

LEMMA EntryKeeps == ASSUME IInv, ReadEntry PROVE IInv'
  <1>1. /\ pc = "read" /\ UNCHANGED <<upload, data, at, count>>
        /\ entries \in 0..count /\ count \in 0..(Modulus - 1)
        /\ Len(data) \in Nat
    BY FileFacts, SizeAssumption DEF IInv, TypeOK, ReadEntry
  <1>2. HeaderSize + entries * EntrySize <= Len(data)
    BY <1>1 DEF IInv, EntriesAreThere
  <1>3. CASE entries = count
    BY <1>1, <1>2, <1>3 DEF ReadEntry, IInv, TypeOK, ClearedBehind, KeysAreOfTheUpload,
       EntriesAreThere, ListIsWhole, WholeListIsTaken, ShortFilesAreRefused
  <1>4. CASE /\ entries < count
             /\ HeaderSize + (entries + 1) * EntrySize <= Len(data)
    <2>1. entries' = entries + 1 /\ pc' = "read" /\ entries' \in 0..count
      BY <1>1, <1>4, SizeAssumption DEF ReadEntry
    <2>2. QED
      BY <1>1, <1>4, <2>1 DEF IInv, TypeOK, ClearedBehind, KeysAreOfTheUpload,
         EntriesAreThere, ListIsWhole, WholeListIsTaken, ShortFilesAreRefused
  <1>5. CASE /\ entries < count
             /\ HeaderSize + (entries + 1) * EntrySize > Len(data)
    <2>1. entries' = entries /\ pc' = "refused"
      BY <1>1, <1>5, SizeAssumption DEF ReadEntry
    <2> DEFINE more == count - (entries + 1)
    <2>2. more \in Nat /\ count = (entries + 1) + more
      BY <1>1, <1>5, SizeAssumption
    <2>3. count * EntrySize = (entries + 1) * EntrySize + more * EntrySize
      BY <1>1, <2>2, SizeAssumption
    <2>4. more * EntrySize >= 0
      BY <2>2, SizeAssumption
    <2> HIDE DEF more
    <2>5. HeaderSize + count * EntrySize > Len(data)
      BY <1>1, <1>5, <2>2, <2>3, <2>4, SizeAssumption
    <2>6. QED
      BY <1>1, <2>1, <2>5 DEF IInv, TypeOK, ClearedBehind, KeysAreOfTheUpload,
         EntriesAreThere, ListIsWhole, WholeListIsTaken, ShortFilesAreRefused
  <1>6. QED
    BY <1>1, <1>3, <1>4, <1>5, SizeAssumption DEF ReadEntry

-----------------------------------------------------------------------------
(* The theorems.                                                           *)

LEMMA Inductive == Spec => []IInv
  <1>1. IInv /\ [Next]_vars => IInv'
    <2>1. CASE UNCHANGED vars
      BY <2>1 DEF vars, IInv, TypeOK, ClearedBehind, KeysAreOfTheUpload, EntriesAreThere,
         ListIsWhole, WholeListIsTaken, ShortFilesAreRefused
    <2>2. QED
      BY <2>1, DecodeKeeps, CountKeeps, EntryKeeps DEF Next, Ended
  <1>2. QED
    BY <1>1, Initial, PTL DEF Spec

\* Buffer and counters have their types.
THEOREM TypeCorrect == Spec => []TypeOK
  <1>1. IInv => TypeOK
    BY DEF IInv
  <1>2. QED
    BY <1>1, Inductive, PTL

\* Deciphering in place takes its keys from the file as it was uploaded, for
\* every key table, exclusive or and length.
THEOREM DecipheringInPlace == Spec => []KeysAreOfTheUpload
  <1>1. IInv => KeysAreOfTheUpload
    BY DEF IInv
  <1>2. QED
    BY <1>1, Inductive, PTL

\* The comparison of sizes may overflow, and yet no list is taken that the file
\* does not hold.
THEOREM ListsAreWhole == Spec => []ListIsWhole
  <1>1. IInv => ListIsWhole
    BY DEF IInv
  <1>2. QED
    BY <1>1, Inductive, PTL

\* No list is refused that the file holds, and a file too short for a header
\* never gets past the comparison.
THEOREM ShortListsAreRefused == Spec => []RefusedIfShort
  <1>1. IInv => RefusedIfShort
    BY DEF IInv, RefusedIfShort
  <1>2. QED
    BY <1>1, Inductive, PTL

-----------------------------------------------------------------------------
(* The editors (module GameFiles), for all sizes, all contents and all that *)
(* users may enter.                                                         *)

Sizes == NameSize \in Nat /\ AttacksSize \in Nat /\ UnknownSize \in Nat

\* A saved content is one of an editor, whatever the type of the file has been
\* since, and a form is one of an editor.
EditorsInv ==
  /\ ext \in Game!Extensions
  /\ \E A : undo \in Seq(A)
  /\ \A i \in DOMAIN undo : Game!Editable(undo[i])
  /\ form = [u \in Users |-> form[u]]
  /\ \A u \in Users : form[u] # NoForm => form[u].kind \in Game!Kinds

LEMMA PaddedSize ==
  ASSUME NEW b, NEW n \in Nat
  PROVE  \E A : /\ Game!Padded(b, n) \in Seq(A)
                /\ Len(Game!Padded(b, n)) = n
  <1> DEFINE s == Game!Padded(b, n)
             A == {s[i] : i \in 1..n}
  <1>1. s \in [1..n -> A]
    BY DEF Game!Padded
  <1> HIDE DEF s, A
  <1>2. s \in Seq(A) /\ Len(s) = n
    BY <1>1
  <1>3. QED
    BY <1>2 DEF s

LEMMA ThreeParts ==
  ASSUME NEW D, NEW a \in Seq(D), NEW b \in Seq(D), NEW c \in Seq(D)
  PROVE  Len(a \o b \o c) = Len(a) + Len(b) + Len(c)
  OBVIOUS

LEMMA WiderSeq ==
  ASSUME NEW A, NEW D, A \subseteq D, NEW s \in Seq(A)
  PROVE  s \in Seq(D)
  OBVIOUS

LEMMA EncodedSize ==
  ASSUME Sizes, NEW npc
  PROVE  Len(Game!EncodeNPC(npc)) = Game!NPCFileSize
  <1> DEFINE a == Game!Padded(npc.name, NameSize)
             b == Game!Padded(npc.attacks, AttacksSize)
             c == Game!Padded(<<>>, UnknownSize)
  <1>1. PICK A : a \in Seq(A) /\ Len(a) = NameSize
    BY PaddedSize DEF Sizes
  <1>2. PICK B : b \in Seq(B) /\ Len(b) = AttacksSize
    BY PaddedSize DEF Sizes
  <1>3. PICK C : c \in Seq(C) /\ Len(c) = UnknownSize
    BY PaddedSize DEF Sizes
  <1>4. Game!EncodeNPC(npc) = a \o b \o c
    BY DEF Game!EncodeNPC
  <1> HIDE DEF a, b, c
  <1> DEFINE D == (A \cup B) \cup C
  <1>5. A \subseteq D /\ B \subseteq D /\ C \subseteq D
    OBVIOUS
  <1> HIDE DEF D
  <1>6. a \in Seq(D) /\ b \in Seq(D) /\ c \in Seq(D)
    BY <1>1, <1>2, <1>3, <1>5, WiderSeq
  <1>7. Len(a \o b \o c) = Len(a) + Len(b) + Len(c)
    BY <1>6, ThreeParts
  <1>8. QED
    BY <1>1, <1>2, <1>3, <1>4, <1>7 DEF Game!NPCFileSize

\* What an editor encodes for a file of its type, an editor opens.
LEMMA EncodedIsEditable ==
  ASSUME Sizes, EditorsInv, NEW b, NEW value, Game!Kind(b) \in Game!Kinds
  PROVE  LET e == Game!Encode(Game!Kind(b), value) IN
           /\ Game!Editable(e)
           /\ Game!Kind(e) \in
                {Game!Kind(b)} \cup (IF Game!Kind(b) = "text" THEN {"npc"} ELSE {})
  <1> DEFINE e == Game!Encode(Game!Kind(b), value)
  <1>1. CASE Game!Kind(b) = "npc"
    <2>1. Len(e) = Game!NPCFileSize
      BY <1>1, EncodedSize DEF Game!Encode
    <2>2. ext \notin {"itm", "map", "n_ndt"}
      BY <1>1 DEF Game!Kind
    <2> HIDE DEF e
    <2>3. Game!Kind(e) = "npc"
      BY <2>1, <2>2 DEF Game!Kind
    <2>4. QED
      BY <1>1, <2>3 DEF e, Game!Editable, Game!Kinds
  <1>2. CASE Game!Kind(b) = "text"
    <2>1. ext = "txt"
      BY <1>2 DEF Game!Kind, EditorsInv, Game!Extensions
    <2>2. Game!Kind(e) \in {"npc", "text"}
      BY <2>1 DEF Game!Kind
    <2>3. QED
      BY <1>2, <2>2 DEF Game!Editable, Game!Kinds
  <1>3. CASE Game!Kind(b) = "spawn"
    <2>1. ext = "n_ndt"
      BY <1>3 DEF Game!Kind, EditorsInv, Game!Extensions
    <2>2. Game!Kind(e) = "spawn"
      BY <2>1 DEF Game!Kind
    <2>3. QED
      BY <1>3, <2>2 DEF Game!Editable, Game!Kinds
  <1>4. QED
    BY <1>1, <1>2, <1>3 DEF Game!Kinds

\* Saving adds the content that was there.
LEMMA UndoSaved ==
  ASSUME NEW A, NEW s \in Seq(A), NEW x
  PROVE  /\ \E B : Append(s, x) \in Seq(B)
         /\ \A i \in DOMAIN Append(s, x) :
              Append(s, x)[i] = x \/ (i \in DOMAIN s /\ Append(s, x)[i] = s[i])
  <1>1. A \subseteq A \cup {x}
    OBVIOUS
  <1>2. s \in Seq(A \cup {x})
    BY <1>1, WiderSeq
  <1>3. Append(s, x) \in Seq(A \cup {x})
    BY <1>2
  <1>4. QED
    BY <1>2, <1>3

\* Reverting takes the last one back.
LEMMA UndoReverted ==
  ASSUME NEW A, NEW s \in Seq(A), s # <<>>
  PROVE  LET t == SubSeq(s, 1, Len(s) - 1) IN
           /\ t \in Seq(A) /\ Len(t) < Len(s) /\ Len(s) \in DOMAIN s
           /\ \A i \in DOMAIN t : i \in DOMAIN s /\ t[i] = s[i]
  <1>1. Len(s) \in Nat /\ Len(s) > 0 /\ DOMAIN s = 1..Len(s)
    OBVIOUS
  <1> DEFINE t == SubSeq(s, 1, Len(s) - 1)
  <1>2. t \in Seq(A) /\ Len(t) = Len(s) - 1 /\ DOMAIN t = 1..(Len(s) - 1)
    BY <1>1
  <1>3. \A i \in 1..(Len(s) - 1) : t[i] = s[i]
    BY <1>1
  <1> HIDE DEF t
  <1>4. QED
    BY <1>1, <1>2, <1>3 DEF t


-----------------------------------------------------------------------------
(* The steps of the editors.                                               *)

\* An edit or a revert as StaysEditable wants it.
KeepsEditable ==
  undo' # undo =>
    /\ Game!Editable(content')
    /\ Len(undo') > Len(undo) =>
         Game!Kind(content') \in
           {Game!Kind(content)} \cup (IF Game!Kind(content) = "text" THEN {"npc"} ELSE {})

\* The type of a content depends on the extension alone.
LEMMA SameExtension ==
  ASSUME ext' = ext
  PROVE  \A b : (Game!Editable(b))' <=> Game!Editable(b)
  BY DEF Game!Editable, Game!Kind

LEMMA EditorsStart == Game!Init => EditorsInv
  <1> SUFFICES ASSUME Game!Init PROVE EditorsInv
    OBVIOUS
  <1>1. <<>> \in Seq({}) /\ DOMAIN <<>> = {}
    OBVIOUS
  <1>2. QED
    BY <1>1 DEF Game!Init, EditorsInv

LEMMA OpenKeeps ==
  ASSUME EditorsInv, NEW u \in Users, Game!Open(u)
  PROVE  EditorsInv' /\ KeepsEditable
  BY DEF Game!Open, EditorsInv, KeepsEditable, Game!Editable, Game!Kind

LEMMA SubmitKeeps ==
  ASSUME Sizes, EditorsInv, NEW u \in Users, Game!Submit(u)
  PROVE  EditorsInv' /\ KeepsEditable
  <1>1. PICK value : Game!Save(u, value)
    BY DEF Game!Submit
  <1>2. form[u] # NoForm /\ form[u].kind \in Game!Kinds
    BY DEF Game!Submit, EditorsInv
  <1>3. /\ Game!Kind(content) = form[u].kind
        /\ content' = Game!Encode(Game!Kind(content), value)
        /\ undo' = Append(undo, content) /\ ext' = ext
    BY <1>1 DEF Game!Save
  <1>4. /\ Game!Editable(content')
        /\ Game!Kind(content') \in
             {Game!Kind(content)} \cup (IF Game!Kind(content) = "text" THEN {"npc"} ELSE {})
    BY <1>2, <1>3, EncodedIsEditable
  <1>5. Game!Editable(content)
    BY <1>2, <1>3 DEF Game!Editable
  <1>6. PICK A : undo \in Seq(A)
    BY DEF EditorsInv
  <1>7. /\ \E B : undo' \in Seq(B)
        /\ \A i \in DOMAIN undo' : undo'[i] = content \/ (i \in DOMAIN undo /\ undo'[i] = undo[i])
    BY <1>3, <1>6, UndoSaved
  <1>8. \A i \in DOMAIN undo' : Game!Editable(undo'[i])
    BY <1>5, <1>7 DEF EditorsInv
  <1>9. /\ form' = [v \in Users |-> form'[v]]
        /\ \A v \in Users : form'[v] # NoForm => form'[v].kind \in Game!Kinds
    BY <1>1, <1>2 DEF Game!Save, EditorsInv
  <1>10. EditorsInv'
    <2>1. \A i \in DOMAIN undo' : (Game!Editable(undo[i]))'
      BY <1>3, <1>8 DEF Game!Editable, Game!Kind
    <2>2. QED
      BY <1>3, <1>7, <1>9, <2>1 DEF EditorsInv
  <1>11. QED
    BY <1>4, <1>10 DEF KeepsEditable

LEMMA RevertKeeps ==
  ASSUME EditorsInv, Game!Revert
  PROVE  EditorsInv' /\ KeepsEditable
  <1>1. /\ undo # <<>> /\ content' = undo[Len(undo)]
        /\ undo' = SubSeq(undo, 1, Len(undo) - 1) /\ ext' = ext /\ form' = form
    BY DEF Game!Revert
  <1>2. PICK A : undo \in Seq(A)
    BY DEF EditorsInv
  <1>3. /\ undo' \in Seq(A) /\ Len(undo') < Len(undo) /\ Len(undo) \in DOMAIN undo
        /\ \A i \in DOMAIN undo' : i \in DOMAIN undo /\ undo'[i] = undo[i]
    BY <1>1, <1>2, UndoReverted
  <1>4. Len(undo) \in Nat /\ Len(undo') \in Nat
    BY <1>2, <1>3
  <1>5. \A i \in DOMAIN undo' : Game!Editable(undo'[i])
    BY <1>3 DEF EditorsInv
  <1>6. EditorsInv'
    <2>1. \A i \in DOMAIN undo' : (Game!Editable(undo[i]))'
      BY <1>1, <1>5 DEF Game!Editable, Game!Kind
    <2>2. QED
      BY <1>1, <1>3, <2>1 DEF EditorsInv
  <1>7. Game!Editable(content')
    BY <1>1, <1>3 DEF EditorsInv
  <1>8. ~(Len(undo') > Len(undo))
    BY <1>3, <1>4
  <1>9. QED
    BY <1>6, <1>7, <1>8 DEF KeepsEditable

LEMMA OutsideKeeps ==
  ASSUME EditorsInv, Game!WrittenOutside
  PROVE  EditorsInv' /\ KeepsEditable
  BY DEF Game!WrittenOutside, EditorsInv, KeepsEditable, Game!Editable, Game!Kind

LEMMA EditorsIdle ==
  ASSUME EditorsInv, UNCHANGED Game!vars
  PROVE  EditorsInv' /\ KeepsEditable
  BY DEF Game!vars, EditorsInv, KeepsEditable, Game!Editable, Game!Kind

LEMMA EditorsKeep ==
  ASSUME Sizes, EditorsInv, [Game!Next]_(Game!vars)
  PROVE  EditorsInv' /\ KeepsEditable
  BY OpenKeeps, SubmitKeeps, RevertKeeps, OutsideKeeps, EditorsIdle DEF Game!Next

\* Whatever the sizes of the fields, whatever users enter and tools write, an
\* edit or a revert leaves a file that an editor opens, of the type it had or,
\* from text, of an NPC file.
THEOREM EditsStayEditable == MCSpec => StaysEditable
  <1> DEFINE Inv == job \in {"list", "game"} /\ (job = "game" => EditorsInv)
  <1>1. MCInit => Inv
    BY EditorsStart DEF MCInit, ListInit, GameInit
  <1>2. Inv /\ [MCNext]_<<job, vars, gameVars>> => Inv' /\ KeepsEditable
    <2> SUFFICES ASSUME Inv, [MCNext]_<<job, vars, gameVars>>
                 PROVE  Inv' /\ KeepsEditable
      OBVIOUS
    <2>1. CASE job' = job /\ UNCHANGED gameVars
      BY <2>1, EditorsIdle DEF gameVars, Game!vars, KeepsEditable
    <2>2. CASE job = "game" /\ Game!Next /\ job' = job
      BY <2>2, EditorsKeep, InputAssumption DEF Sizes, Game!Inputs
    <2>3. QED
      BY <2>1, <2>2 DEF MCNext
  <1>3. KeepsEditable =>
          [undo' # undo =>
             /\ Game!Editable(content')
             /\ Len(undo') > Len(undo) =>
                  Game!Kind(content') \in
                    {Game!Kind(content)} \cup
                    (IF Game!Kind(content) = "text" THEN {"npc"} ELSE {})]_(Game!vars)
    BY DEF KeepsEditable
  <1>4. QED
    BY <1>1, <1>2, <1>3, PTL DEF MCSpec, StaysEditable, Game!StaysEditable

-----------------------------------------------------------------------------
(* Induction over the bytes of a string.  The theorems on induction take an *)
(* operator, so these take the set where what is to be shown holds.        *)

\* A set of naturals has a least one.
LEMMA Least ==
  ASSUME NEW T, T \subseteq Nat, T # {}
  PROVE  \E x \in T : \A y \in T : x <= y
  <1> DEFINE R == OpToRel(<, Nat)
  <1>1. R = {ss \in Nat \X Nat : ss[1] < ss[2]}
    BY DEF OpToRel
  <1>2. IsWellFoundedOn(R, Nat)
    BY NatLessThanWellFounded
  <1> HIDE DEF R
  <1>3. PICK x \in T : \A y \in T : ~ (<<y, x>> \in R)
    BY <1>2, WFMin
  <1>4. SUFFICES ASSUME NEW y \in T PROVE x <= y
    BY <1>3
  <1>5. x \in Nat /\ y \in Nat /\ <<y, x>> \notin R
    BY <1>3
  <1>6. ~(y < x)
    BY <1>1, <1>5
  <1>7. QED
    BY <1>5, <1>6

\* What holds at the end, and at a byte if it holds behind it, holds everywhere.
LEMMA FromTheEnd ==
  ASSUME NEW n \in Nat, NEW G, n + 1 \in G,
         \A i \in 1..n : (\A j \in (i + 1)..(n + 1) : j \in G) => i \in G
  PROVE  \A i \in 1..(n + 1) : i \in G
  <1> SUFFICES ASSUME NEW i \in 1..(n + 1), i \notin G PROVE FALSE
    OBVIOUS
  <1> DEFINE T == {m \in Nat : m <= n /\ n + 1 - m \notin G}
  <1>1. n + 1 - i \in T
    <2>1. n + 1 - (n + 1 - i) = i /\ n + 1 - i \in Nat /\ n + 1 - i <= n
      OBVIOUS
    <2>2. QED
      BY <2>1
  <1>2. PICK m \in T : \A k \in T : m <= k
    BY <1>1, Least
  <1>3. m \in Nat /\ m <= n /\ n + 1 - m \notin G
    BY <1>2
  <1>4. m # 0
    BY <1>3
  <1>5. \A j \in (n + 1 - m + 1)..(n + 1) : j \in G
    <2>1. SUFFICES ASSUME NEW j \in (n + 1 - m + 1)..(n + 1), j \notin G PROVE FALSE
      OBVIOUS
    <2>2. n + 1 - j \in Nat /\ n + 1 - j <= n /\ n + 1 - (n + 1 - j) = j /\ n + 1 - j < m
      BY <1>3, <2>1
    <2>3. n + 1 - j \in T
      BY <2>1, <2>2
    <2>4. m <= n + 1 - j
      BY <1>2, <2>3
    <2>5. QED
      BY <1>3, <2>2, <2>4
  <1>6. n + 1 - m \in 1..n
    BY <1>3, <1>4
  <1>7. QED
    BY <1>3, <1>5, <1>6

\* One step of DisplayedFrom, given what is displayed from the bytes behind.
FromByte(b, f, i) ==
  IF i > Len(b) THEN <<>>
  ELSE IF b[i] < 128 THEN <<b[i]>> \o f[i + 1]
  ELSE Game!Wide \o f[IF Game!IsWide(b, i) THEN i + 3 ELSE i + 1]

\* A step looks only at what is behind it.
LEMMA OnlyBehind ==
  ASSUME NEW b \in Game!Bytes, NEW f, NEW g, NEW i \in 1..(Len(b) + 1),
         \A j \in (i + 1)..(Len(b) + 1) : f[j] = g[j]
  PROVE  FromByte(b, f, i) = FromByte(b, g, i)
  <1>1. Len(b) \in Nat
    BY DEF Game!Bytes
  <1>2. CASE i > Len(b)
    BY <1>2 DEF FromByte
  <1>3. CASE i <= Len(b) /\ Game!IsWide(b, i)
    <2>1. i + 1 \in (i + 1)..(Len(b) + 1) /\ i + 3 \in (i + 1)..(Len(b) + 1)
      BY <1>1, <1>3 DEF Game!IsWide
    <2>2. QED
      BY <1>1, <1>3, <2>1 DEF FromByte
  <1>4. CASE i <= Len(b) /\ ~Game!IsWide(b, i)
    <2>1. i + 1 \in (i + 1)..(Len(b) + 1)
      BY <1>1, <1>4
    <2>2. QED
      BY <1>1, <1>4, <2>1 DEF FromByte
  <1>5. QED
    BY <1>1, <1>2, <1>3, <1>4

\* The recursion of DisplayedFrom has a solution.
LEMMA Recursion ==
  ASSUME NEW b \in Game!Bytes
  PROVE  Game!DisplayedFrom(b) =
           [i \in 1..(Len(b) + 1) |-> FromByte(b, Game!DisplayedFrom(b), i)]
  <1> DEFINE n == Len(b)
             IsFrom(f, k) == \A i \in k..(n + 1) : f[i] = FromByte(b, f, i)
             G == {k \in 1..(n + 1) : \E f : IsFrom(f, k)}
  <1>1. n \in Nat
    BY DEF Game!Bytes
  <1>2. n + 1 \in G
    <2> DEFINE f == [i \in {n + 1} |-> <<>>]
    <2>1. \A i \in (n + 1)..(n + 1) : f[i] = FromByte(b, f, i)
      BY <1>1 DEF FromByte
    <2>2. IsFrom(f, n + 1)
      BY <2>1
    <2>3. n + 1 \in 1..(n + 1)
      BY <1>1
    <2> HIDE DEF f, IsFrom
    <2>4. QED
      BY <2>2, <2>3
  <1>3. ASSUME NEW k \in 1..n, \A j \in (k + 1)..(n + 1) : j \in G
        PROVE  k \in G
    <2>1. k + 1 \in G
      <3>1. k + 1 \in (k + 1)..(n + 1)
        BY <1>1
      <3> HIDE DEF G
      <3>2. QED
        BY <1>3, <3>1
    <2>2. PICK f : IsFrom(f, k + 1)
      BY <2>1
    <2> DEFINE g == [i \in k..(n + 1) |-> IF i = k THEN FromByte(b, f, k) ELSE f[i]]
    <2>3. \A i \in (k + 1)..(n + 1) : g[i] = f[i]
      BY <1>1
    <2>4. g[k] = FromByte(b, f, k)
      BY <1>1
    <2>5. ASSUME NEW i \in k..(n + 1) PROVE FromByte(b, g, i) = FromByte(b, f, i)
      <3>1. i \in 1..(Len(b) + 1) /\ \A j \in (i + 1)..(Len(b) + 1) : g[j] = f[j]
        BY <1>1, <2>3
      <3> HIDE DEF g
      <3>2. QED
        BY <3>1, OnlyBehind
    <2> HIDE DEF g
    <2>6. \A i \in k..(n + 1) : g[i] = FromByte(b, g, i)
      BY <1>1, <2>2, <2>3, <2>4, <2>5
    <2>7. k \in 1..(n + 1)
      BY <1>1
    <2>8. QED
      BY <2>6, <2>7
  <1>4. 1 \in G
    <2> HIDE DEF G
    <2>1. \A i \in 1..(n + 1) : i \in G
      BY <1>1, <1>2, <1>3, FromTheEnd
    <2>2. QED
      BY <1>1, <2>1
  <1>5. PICK f : IsFrom(f, 1)
    BY <1>4
  <1> DEFINE g == [i \in 1..(n + 1) |-> f[i]]
  <1>6. \A i \in 1..(n + 1) : FromByte(b, g, i) = FromByte(b, f, i)
    <2>1. \A i \in 1..(n + 1) : g[i] = f[i]
      OBVIOUS
    <2>2. SUFFICES ASSUME NEW i \in 1..(n + 1) PROVE FromByte(b, g, i) = FromByte(b, f, i)
      OBVIOUS
    <2>3. i \in 1..(Len(b) + 1) /\ \A j \in (i + 1)..(Len(b) + 1) : g[j] = f[j]
      BY <1>1, <2>1
    <2> HIDE DEF g
    <2>4. QED
      BY <2>3, OnlyBehind
  <1>7. g = [i \in 1..(n + 1) |-> FromByte(b, g, i)]
    BY <1>5, <1>6
  <1> HIDE DEF g
  <1> DEFINE h == CHOOSE h : h = [i \in 1..(Len(b) + 1) |-> FromByte(b, h, i)]
  <1>8. h = [i \in 1..(Len(b) + 1) |-> FromByte(b, h, i)]
    BY <1>7
  <1>9. Game!DisplayedFrom(b) = h
    BY DEF Game!DisplayedFrom, FromByte
  <1> HIDE DEF h
  <1>10. QED
    BY <1>8, <1>9

\* What a step depends on in what is displayed from the bytes behind.
LEMMA DisplayedAt ==
  ASSUME NEW b \in Game!Bytes
  PROVE  /\ DOMAIN Game!DisplayedFrom(b) = 1..(Len(b) + 1)
         /\ \A i \in 1..(Len(b) + 1) :
              Game!DisplayedFrom(b)[i] = FromByte(b, Game!DisplayedFrom(b), i)
  <1> DEFINE d == Game!DisplayedFrom(b)
  <1>1. d = [i \in 1..(Len(b) + 1) |-> FromByte(b, d, i)]
    BY Recursion
  <1> HIDE DEF d
  <1>2. /\ DOMAIN d = 1..(Len(b) + 1)
        /\ \A i \in 1..(Len(b) + 1) : d[i] = FromByte(b, d, i)
    BY <1>1
  <1>3. QED
    BY <1>2 DEF d

\* Three bytes, and not their order among others, make a wide character.
LEMMA WideAt ==
  ASSUME NEW b \in Game!Bytes, NEW i \in Nat \ {0}
  PROVE  Game!IsWide(b, i) <=>
           /\ i + 2 <= Len(b)
           /\ b[i] = 239 /\ b[i + 1] = 191 /\ b[i + 2] = 189
  <1> SUFFICES ASSUME i + 2 <= Len(b)
               PROVE  SubSeq(b, i, i + 2) = Game!Wide <=>
                        b[i] = 239 /\ b[i + 1] = 191 /\ b[i + 2] = 189
    BY DEF Game!IsWide, Game!Bytes
  <1> DEFINE t == SubSeq(b, i, i + 2)
  <1>1. /\ t \in Seq(Game!Byte) /\ Len(t) = 3
        /\ t[1] = b[i] /\ t[2] = b[i + 1] /\ t[3] = b[i + 2]
    BY DEF Game!Bytes
  <1> HIDE DEF t
  <1>2. /\ Len(Game!Wide) = 3
        /\ Game!Wide[1] = 239 /\ Game!Wide[2] = 191 /\ Game!Wide[3] = 189
    BY DEF Game!Wide
  <1>3. t = Game!Wide <=> t[1] = 239 /\ t[2] = 191 /\ t[3] = 189
    <2>1. Game!Wide \in Seq(Game!Byte)
      BY DEF Game!Wide, Game!Byte
    <2>2. \A s \in Seq(Game!Byte) :
            Len(s) = 3 /\ t[1] = s[1] /\ t[2] = s[2] /\ t[3] = s[3] => t = s
      BY <1>1
    <2>3. QED
      BY <1>2, <2>1, <2>2
  <1>4. QED
    BY <1>1, <1>3 DEF t

LEMMA JoinFacts ==
  ASSUME NEW a \in Game!Bytes, NEW s \in Game!Bytes
  PROVE  /\ a \o s \in Game!Bytes /\ Len(a \o s) = Len(a) + Len(s)
         /\ Len(a) \in Nat /\ Len(s) \in Nat
         /\ \A i \in 1..Len(a) : (a \o s)[i] = a[i]
         /\ \A i \in 1..Len(s) : (a \o s)[Len(a) + i] = s[i]
  BY DEF Game!Bytes

\* What is displayed from a byte on does not depend on the bytes before it.
LEMMA Shift ==
  ASSUME NEW a \in Game!Bytes, NEW s \in Game!Bytes
  PROVE  \A i \in 1..(Len(s) + 1) :
           Game!DisplayedFrom(a \o s)[Len(a) + i] = Game!DisplayedFrom(s)[i]
  <1> DEFINE b == a \o s
             n == Len(s)
             d == Game!DisplayedFrom(b)
             e == Game!DisplayedFrom(s)
             G == {i \in 1..(n + 1) : d[Len(a) + i] = e[i]}
  <1>1. /\ b \in Game!Bytes /\ Len(b) = Len(a) + n /\ Len(a) \in Nat /\ n \in Nat
        /\ \A i \in 1..n : b[Len(a) + i] = s[i]
    BY JoinFacts
  <1> HIDE DEF b
  <1>2. /\ \A i \in 1..(Len(b) + 1) : d[i] = FromByte(b, d, i)
        /\ \A i \in 1..(n + 1) : e[i] = FromByte(s, e, i)
    BY <1>1, DisplayedAt
  <1> HIDE DEF d, e
  <1>3. n + 1 \in G
    <2>1. Len(a) + (n + 1) = Len(b) + 1 /\ Len(b) + 1 \in 1..(Len(b) + 1) /\ n + 1 \in 1..(n + 1)
      BY <1>1
    <2>2. d[Len(b) + 1] = FromByte(b, d, Len(b) + 1) /\ e[n + 1] = FromByte(s, e, n + 1)
      BY <1>2, <2>1
    <2>3. FromByte(b, d, Len(b) + 1) = <<>> /\ FromByte(s, e, n + 1) = <<>>
      BY <1>1 DEF FromByte
    <2>4. QED
      BY <2>1, <2>2, <2>3
  <1>4. ASSUME NEW i \in 1..n, \A j \in (i + 1)..(n + 1) : j \in G
        PROVE  i \in G
    <2> DEFINE m == Len(a) + i
    <2>1. /\ m \in 1..Len(b) /\ m \in Nat \ {0} /\ i \in Nat \ {0} /\ b[m] = s[i]
          /\ m \in 1..(Len(b) + 1) /\ i \in 1..(n + 1)
      BY <1>1
    <2>2. d[m] = FromByte(b, d, m) /\ e[i] = FromByte(s, e, i)
      BY <1>2, <2>1
    <2>3. d[m + 1] = e[i + 1]
      <3>1. i + 1 \in (i + 1)..(n + 1)
        BY <1>1
      <3>2. d[Len(a) + (i + 1)] = e[i + 1]
        BY <1>4, <3>1
      <3>3. Len(a) + (i + 1) = m + 1
        BY <1>1
      <3>4. QED
        BY <3>2, <3>3
    <2>4. i + 2 <= n => d[m + 3] = e[i + 3]
      <3>1. SUFFICES ASSUME i + 2 <= n PROVE d[m + 3] = e[i + 3]
        OBVIOUS
      <3>2. i + 3 \in (i + 1)..(n + 1)
        BY <1>1, <3>1
      <3>3. d[Len(a) + (i + 3)] = e[i + 3]
        BY <1>4, <3>2
      <3>4. Len(a) + (i + 3) = m + 3
        BY <1>1
      <3>5. QED
        BY <3>3, <3>4
    <2>5. Game!IsWide(b, m) <=> Game!IsWide(s, i)
      <3>1. m + 2 <= Len(b) <=> i + 2 <= n
        BY <1>1
      <3>2. i + 2 <= n => b[m + 1] = s[i + 1] /\ b[m + 2] = s[i + 2]
        <4>1. SUFFICES ASSUME i + 2 <= n PROVE b[m + 1] = s[i + 1] /\ b[m + 2] = s[i + 2]
          OBVIOUS
        <4>2. /\ i + 1 \in 1..n /\ i + 2 \in 1..n
              /\ m + 1 = Len(a) + (i + 1) /\ m + 2 = Len(a) + (i + 2)
          BY <1>1, <4>1
        <4>3. b[Len(a) + (i + 1)] = s[i + 1] /\ b[Len(a) + (i + 2)] = s[i + 2]
          BY <1>1, <4>2
        <4>4. QED
          BY <4>2, <4>3
      <3> HIDE DEF m
      <3>3. Game!IsWide(b, m) <=>
              m + 2 <= Len(b) /\ b[m] = 239 /\ b[m + 1] = 191 /\ b[m + 2] = 189
        <4>1. b \in Game!Bytes /\ m \in Nat \ {0}
          BY <1>1, <2>1
        <4>2. QED
          BY <4>1, WideAt
      <3>4. Game!IsWide(s, i) <=>
              i + 2 <= n /\ s[i] = 239 /\ s[i + 1] = 191 /\ s[i + 2] = 189
        BY <2>1, WideAt
      <3>5. QED
        BY <2>1, <3>1, <3>2, <3>3, <3>4
    <2>6. ~(m > Len(b)) /\ ~(i > n)
      BY <1>1, <2>1
    <2>7. Game!IsWide(s, i) => i + 2 <= n
      BY DEF Game!IsWide
    <2> HIDE DEF m
    <2>8. FromByte(b, d, m) = FromByte(s, e, i)
      BY <2>1, <2>3, <2>4, <2>5, <2>6, <2>7 DEF FromByte
    <2>9. QED
      BY <2>1, <2>2, <2>8 DEF m
  <1>5. \A i \in 1..(n + 1) : i \in G
    <2> HIDE DEF G
    <2>1. QED
      BY <1>1, <1>3, <1>4, FromTheEnd
  <1>6. QED
    BY <1>5 DEF d, e, b

LEMMA WideBytes == Game!Wide \in Game!Bytes /\ Len(Game!Wide) = 3
  BY DEF Game!Wide, Game!Bytes, Game!Byte

\* Before what is displayed, an ASCII character and a wide one stay themselves.
LEMMA DisplayedJoin ==
  ASSUME NEW s \in Game!Bytes
  PROVE  /\ \A c \in Game!Byte : c < 128 =>
              Game!Displayed(<<c>> \o s) = <<c>> \o Game!Displayed(s)
         /\ Game!Displayed(Game!Wide \o s) = Game!Wide \o Game!Displayed(s)
  <1>1. Len(s) \in Nat /\ 1 \in 1..(Len(s) + 1)
    BY DEF Game!Bytes
  <1>2. ASSUME NEW c \in Game!Byte, c < 128
        PROVE  Game!Displayed(<<c>> \o s) = <<c>> \o Game!Displayed(s)
    <2> DEFINE a == <<c>>
               b == a \o s
               d == Game!DisplayedFrom(b)
    <2>1. a \in Game!Bytes /\ Len(a) = 1 /\ a[1] = c
      BY DEF Game!Bytes
    <2> HIDE DEF a
    <2>2. b \in Game!Bytes /\ Len(b) = 1 + Len(s) /\ b[1] = c
      <3>1. /\ b \in Game!Bytes /\ Len(b) = Len(a) + Len(s)
            /\ \A i \in 1..Len(a) : b[i] = a[i]
        BY <2>1, JoinFacts
      <3> HIDE DEF b
      <3>2. QED
        BY <2>1, <3>1
    <2>3. d[1 + 1] = Game!DisplayedFrom(s)[1]
      <3>1. d[Len(a) + 1] = Game!DisplayedFrom(s)[1]
        BY <1>1, <2>1, Shift
      <3> HIDE DEF d
      <3>2. QED
        BY <2>1, <3>1
    <2> HIDE DEF b
    <2>4. 1 \in 1..(Len(b) + 1) /\ ~(1 > Len(b))
      BY <1>1, <2>2
    <2>5. d[1] = FromByte(b, d, 1)
      BY <2>2, <2>4, DisplayedAt
    <2> HIDE DEF d
    <2>6. d[1] = <<c>> \o d[1 + 1]
      BY <1>2, <2>2, <2>4, <2>5 DEF FromByte
    <2>7. QED
      BY <2>3, <2>6 DEF Game!Displayed, d, b, a
  <1>3. Game!Displayed(Game!Wide \o s) = Game!Wide \o Game!Displayed(s)
    <2> DEFINE a == Game!Wide
               b == a \o s
               d == Game!DisplayedFrom(b)
    <2>1. /\ a \in Game!Bytes /\ Len(a) = 3
          /\ a[1] = 239 /\ a[2] = 191 /\ a[3] = 189
      BY WideBytes DEF Game!Wide
    <2> HIDE DEF a
    <2>2. /\ b \in Game!Bytes /\ Len(b) = 3 + Len(s)
          /\ b[1] = 239 /\ b[2] = 191 /\ b[3] = 189
      <3>1. /\ b \in Game!Bytes /\ Len(b) = Len(a) + Len(s)
            /\ \A i \in 1..Len(a) : b[i] = a[i]
        <4>1. a \in Game!Bytes
          BY <2>1
        <4>2. QED
          BY <4>1, JoinFacts
      <3> HIDE DEF b
      <3>2. QED
        BY <2>1, <3>1
    <2>3. d[3 + 1] = Game!DisplayedFrom(s)[1]
      <3>1. d[Len(a) + 1] = Game!DisplayedFrom(s)[1]
        <4>1. a \in Game!Bytes
          BY <2>1
        <4>2. QED
          BY <1>1, <4>1, Shift
      <3> HIDE DEF d
      <3>2. QED
        BY <2>1, <3>1
    <2> HIDE DEF b
    <2>4. 1 \in 1..(Len(b) + 1) /\ ~(1 > Len(b)) /\ Game!IsWide(b, 1)
      BY <1>1, <2>2, WideAt
    <2>5. d[1] = FromByte(b, d, 1)
      BY <2>2, <2>4, DisplayedAt
    <2> HIDE DEF d
    <2>6. d[1] = Game!Wide \o d[3 + 1]
      BY <2>2, <2>4, <2>5 DEF FromByte
    <2>7. d[1] = Game!Wide \o Game!Displayed(s)
      BY <2>3, <2>6 DEF Game!Displayed
    <2>8. QED
      BY <2>7 DEF Game!Displayed, d, b, a
  <1>4. QED
    BY <1>2, <1>3

\* A string that was displayed once is displayed as it is: U+FFFD is a character.
LEMMA DisplayedTwice ==
  ASSUME NEW b \in Game!Bytes
  PROVE  /\ Game!Displayed(b) \in Game!Bytes
         /\ Game!Displayed(Game!Displayed(b)) = Game!Displayed(b)
  <1> DEFINE n == Len(b)
             d == Game!DisplayedFrom(b)
             G == {i \in 1..(n + 1) : d[i] \in Game!Bytes /\ Game!Displayed(d[i]) = d[i]}
  <1>1. n \in Nat /\ \A i \in 1..n : b[i] \in Game!Byte
    BY DEF Game!Bytes
  <1>2. \A i \in 1..(n + 1) : d[i] = FromByte(b, d, i)
    BY DisplayedAt
  <1> HIDE DEF d
  <1>3. n + 1 \in G
    <2>1. <<>> \in Game!Bytes /\ Len(<<>>) = 0 /\ 1 \in 1..(0 + 1)
      BY DEF Game!Bytes
    <2>2. Game!DisplayedFrom(<<>>)[1] = FromByte(<<>>, Game!DisplayedFrom(<<>>), 1)
      BY <2>1, DisplayedAt
    <2>3. Game!Displayed(<<>>) = <<>>
      BY <2>1, <2>2 DEF FromByte, Game!Displayed
    <2>4. n + 1 \in 1..(n + 1) /\ n + 1 > n
      BY <1>1
    <2>5. d[n + 1] = <<>>
      BY <1>2, <2>4 DEF FromByte
    <2>6. QED
      BY <2>1, <2>3, <2>4, <2>5
  <1>4. ASSUME NEW i \in 1..n, \A j \in (i + 1)..(n + 1) : j \in G
        PROVE  i \in G
    <2>1. i \in 1..(n + 1) /\ ~(i > n) /\ b[i] \in Game!Byte
      BY <1>1
    <2>2. d[i] = FromByte(b, d, i)
      BY <1>2, <2>1
    <2>3. i + 1 \in G
      <3>1. i + 1 \in (i + 1)..(n + 1)
        BY <1>1
      <3> HIDE DEF G
      <3>2. QED
        BY <1>4, <3>1
    <2>4. CASE b[i] < 128
      <3>1. d[i] = <<b[i]>> \o d[i + 1]
        BY <2>1, <2>2, <2>4 DEF FromByte
      <3>2. d[i + 1] \in Game!Bytes /\ Game!Displayed(d[i + 1]) = d[i + 1]
        BY <2>3
      <3>3. <<b[i]>> \o d[i + 1] \in Game!Bytes
        <4>1. <<b[i]>> \in Game!Bytes
          BY <2>1 DEF Game!Bytes
        <4>2. QED
          BY <3>2, <4>1, JoinFacts
      <3>4. Game!Displayed(<<b[i]>> \o d[i + 1]) = <<b[i]>> \o d[i + 1]
        BY <2>1, <2>4, <3>2, DisplayedJoin
      <3>5. QED
        BY <2>1, <3>1, <3>3, <3>4
    <2>5. CASE ~(b[i] < 128)
      <3>1. PICK j : j \in G /\ d[i] = Game!Wide \o d[j]
        <4>1. CASE Game!IsWide(b, i)
          <5>1. i + 3 \in (i + 1)..(n + 1)
            BY <1>1, <4>1 DEF Game!IsWide
          <5>2. d[i] = Game!Wide \o d[i + 3]
            BY <2>1, <2>2, <2>5, <4>1 DEF FromByte
          <5> HIDE DEF G
          <5>3. QED
            BY <1>4, <5>1, <5>2
        <4>2. CASE ~Game!IsWide(b, i)
          <5>1. d[i] = Game!Wide \o d[i + 1]
            BY <2>1, <2>2, <2>5, <4>2 DEF FromByte
          <5> HIDE DEF G
          <5>2. QED
            BY <2>3, <5>1
        <4>3. QED
          BY <4>1, <4>2
      <3>2. d[j] \in Game!Bytes /\ Game!Displayed(d[j]) = d[j]
        BY <3>1
      <3>3. Game!Wide \o d[j] \in Game!Bytes
        BY <3>2, WideBytes, JoinFacts
      <3>4. Game!Displayed(Game!Wide \o d[j]) = Game!Wide \o d[j]
        BY <3>2, DisplayedJoin
      <3>5. QED
        BY <2>1, <3>1, <3>3, <3>4
    <2>6. QED
      BY <2>4, <2>5
  <1>5. 1 \in G
    <2> HIDE DEF G
    <2>1. \A i \in 1..(n + 1) : i \in G
      BY <1>1, <1>3, <1>4, FromTheEnd
    <2>2. QED
      BY <1>1, <2>1
  <1>6. QED
    BY <1>5 DEF Game!Displayed, d

-----------------------------------------------------------------------------
(* Decoding what was encoded.                                              *)

LEMMA PaddedBytes ==
  ASSUME NEW b \in Game!Bytes, NEW n \in Nat
  PROVE  /\ Game!Padded(b, n) \in Game!Bytes /\ Len(Game!Padded(b, n)) = n
         /\ \A i \in 1..n : Game!Padded(b, n)[i] = IF i <= Len(b) THEN b[i] ELSE 0
  <1> DEFINE s == Game!Padded(b, n)
  <1>1. Len(b) \in Nat /\ DOMAIN b = 1..Len(b) /\ \A i \in 1..Len(b) : b[i] \in Game!Byte
    BY DEF Game!Bytes
  <1>2. 0 \in Game!Byte
    BY DEF Game!Byte
  <1>3. s \in [1..n -> Game!Byte]
    BY <1>1, <1>2 DEF Game!Padded
  <1>4. \A i \in 1..n : s[i] = IF i <= Len(b) THEN b[i] ELSE 0
    BY <1>1 DEF Game!Padded
  <1> HIDE DEF s
  <1>5. s \in Seq(Game!Byte) /\ Len(s) = n
    BY <1>3
  <1>6. QED
    BY <1>4, <1>5 DEF s, Game!Bytes

LEMMA PartBytes ==
  ASSUME NEW b \in Game!Bytes, NEW m \in Nat, NEW n \in Nat, m + n <= Len(b)
  PROVE  /\ SubSeq(b, m + 1, m + n) \in Game!Bytes
         /\ Len(SubSeq(b, m + 1, m + n)) = n
         /\ \A i \in 1..n : SubSeq(b, m + 1, m + n)[i] = b[m + i]
  BY DEF Game!Bytes

LEMMA FrontBytes ==
  ASSUME NEW b \in Game!Bytes, NEW n \in Nat, n <= Len(b)
  PROVE  /\ SubSeq(b, 1, n) \in Game!Bytes /\ Len(SubSeq(b, 1, n)) = n
         /\ \A i \in 1..n : SubSeq(b, 1, n)[i] = b[i]
  BY DEF Game!Bytes

LEMMA SameBytes ==
  ASSUME NEW s \in Game!Bytes, NEW t \in Game!Bytes, Len(s) = Len(t),
         \A i \in 1..Len(s) : s[i] = t[i]
  PROVE  s = t
  BY DEF Game!Bytes

\* The zeros of a string and the first of them.
LEMMA UpToFirst ==
  ASSUME NEW b \in Game!Bytes, NEW k \in 1..Len(b), b[k] = 0,
         \A i \in 1..Len(b) : i < k => b[i] # 0
  PROVE  Game!UpToNul(b) = SubSeq(b, 1, k - 1)
  <1> DEFINE zeros == {i \in DOMAIN b : b[i] = 0}
             first == CHOOSE i \in zeros : \A j \in zeros : i <= j
  <1>1. Len(b) \in Nat /\ DOMAIN b = 1..Len(b)
    BY DEF Game!Bytes
  <1>2. k \in zeros /\ \A j \in zeros : k <= j /\ j \in Nat
    BY <1>1
  <1>3. first \in zeros /\ \A j \in zeros : first <= j
    <2> HIDE DEF zeros
    <2>1. QED
      BY <1>2
  <1>4. first = k
    <2> HIDE DEF first, zeros
    <2>1. first <= k /\ k <= first /\ first \in Nat /\ k \in Nat
      BY <1>2, <1>3
    <2>2. QED
      BY <2>1
  <1>5. zeros # {}
    BY <1>2
  <1>6. Game!UpToNul(b) = SubSeq(b, 1, first - 1)
    BY <1>5 DEF Game!UpToNul
  <1>7. QED
    BY <1>4, <1>6

LEMMA FirstZero ==
  ASSUME NEW b \in Game!Bytes, NEW z \in 1..Len(b), b[z] = 0
  PROVE  \E k \in 1..Len(b) : b[k] = 0 /\ \A i \in 1..Len(b) : i < k => b[i] # 0
  <1> DEFINE T == {i \in 1..Len(b) : b[i] = 0}
  <1>1. T \subseteq Nat /\ z \in T
    BY DEF Game!Bytes
  <1>2. PICK k \in T : \A i \in T : k <= i
    <2> HIDE DEF T
    <2>1. QED
      BY <1>1, Least
  <1>3. Len(b) \in Nat
    BY DEF Game!Bytes
  <1>4. QED
    BY <1>2, <1>3

LEMMA NoZeroLeft ==
  ASSUME NEW b \in Game!Bytes, \A i \in 1..Len(b) : b[i] # 0
  PROVE  Game!UpToNul(b) = b
  BY DEF Game!UpToNul, Game!Bytes

LEMMA UpToNulBytes ==
  ASSUME NEW b \in Game!Bytes
  PROVE  /\ Game!UpToNul(b) \in Game!Bytes
         /\ Game!UpToNul(b) = b => \A i \in 1..Len(b) : b[i] # 0
  <1>1. CASE \A i \in 1..Len(b) : b[i] # 0
    BY <1>1, NoZeroLeft
  <1>2. CASE \E z \in 1..Len(b) : b[z] = 0
    <2>1. PICK k \in 1..Len(b) : b[k] = 0 /\ \A i \in 1..Len(b) : i < k => b[i] # 0
      BY <1>2, FirstZero
    <2>2. Game!UpToNul(b) = SubSeq(b, 1, k - 1)
      BY <2>1, UpToFirst
    <2>3. Len(b) \in Nat /\ k - 1 \in Nat /\ k - 1 <= Len(b)
      BY DEF Game!Bytes
    <2>4. SubSeq(b, 1, k - 1) \in Game!Bytes /\ Len(SubSeq(b, 1, k - 1)) = k - 1
      BY <2>3, FrontBytes
    <2>5. k - 1 # Len(b)
      BY <2>3
    <2>6. QED
      BY <2>2, <2>3, <2>4, <2>5
  <1>3. QED
    BY <1>1, <1>2

\* Filled up with zeros, a name without zeros is read back.
LEMMA NameBack ==
  ASSUME NEW b \in Game!Bytes, \A i \in 1..Len(b) : b[i] # 0,
         NEW n \in Nat, Len(b) <= n
  PROVE  Game!UpToNul(Game!Padded(b, n)) = b
  <1> DEFINE s == Game!Padded(b, n)
  <1>1. /\ s \in Game!Bytes /\ Len(s) = n
        /\ \A i \in 1..n : s[i] = IF i <= Len(b) THEN b[i] ELSE 0
    BY PaddedBytes
  <1> HIDE DEF s
  <1>2. Len(b) \in Nat
    BY DEF Game!Bytes
  <1>3. CASE Len(b) = n
    <2>1. s = b
      BY <1>1, <1>2, <1>3, SameBytes
    <2>2. QED
      BY <2>1, NoZeroLeft DEF s
  <1>4. CASE Len(b) < n
    <2> DEFINE k == Len(b) + 1
    <2>1. /\ k \in 1..Len(s) /\ s[k] = 0
          /\ \A i \in 1..Len(s) : i < k => s[i] # 0
      BY <1>1, <1>2, <1>4
    <2>2. Game!UpToNul(s) = SubSeq(s, 1, k - 1)
      <3> HIDE DEF k
      <3>1. QED
        BY <1>1, <2>1, UpToFirst
    <2>3. k - 1 = Len(b) /\ Len(b) <= Len(s)
      BY <1>1, <1>2, <1>4
    <2> DEFINE t == SubSeq(s, 1, Len(b))
    <2>4. /\ t \in Game!Bytes /\ Len(t) = Len(b)
          /\ \A i \in 1..Len(b) : t[i] = s[i]
      BY <1>1, <1>2, <2>3, FrontBytes
    <2> HIDE DEF t
    <2>5. t = b
      <3>1. \A i \in 1..Len(b) : t[i] = b[i]
        BY <1>1, <1>2, <1>4, <2>4
      <3>2. QED
        BY <2>4, <3>1, SameBytes
    <2>6. QED
      BY <2>2, <2>3, <2>5 DEF t, s
  <1>5. QED
    BY <1>2, <1>3, <1>4

\* What was shown once is shown as it is.
LEMMA DecodedIsShown ==
  ASSUME Game!Inputs, NEW b \in Game!Bytes, NEW kind \in Game!Kinds,
         kind = "npc" => Len(b) = Game!NPCFileSize
  PROVE  Game!Shown(kind, Game!Decode(kind, b))
  <1>1. CASE kind = "npc"
    <2> DEFINE first == SubSeq(b, 1, NameSize)
               name == Game!UpToNul(first)
               attacks == SubSeq(b, NameSize + 1, NameSize + AttacksSize)
    <2>1. /\ NameSize \in Nat /\ AttacksSize \in Nat /\ Len(b) \in Nat
          /\ NameSize + AttacksSize <= Len(b) /\ NameSize <= Len(b)
      BY <1>1 DEF Game!Inputs, Game!NPCFileSize
    <2>2. first \in Game!Bytes /\ attacks \in Game!Bytes
      BY <2>1, PartBytes, FrontBytes
    <2>3. Game!Decode(kind, b) = [name |-> Game!Displayed(name), attacks |-> attacks]
      BY <1>1, <2>1 DEF Game!Decode, Game!DecodeNPC
    <2> HIDE DEF first, attacks
    <2>4. name \in Game!Bytes
      BY <2>2, UpToNulBytes
    <2> HIDE DEF name
    <2>5. /\ Game!Displayed(name) \in Game!Bytes
          /\ Game!Displayed(Game!Displayed(name)) = Game!Displayed(name)
      BY <2>4, DisplayedTwice
    <2>6. QED
      BY <1>1, <2>2, <2>3, <2>5 DEF Game!Shown
  <1>2. CASE kind = "text"
    BY <1>2, DisplayedTwice DEF Game!Shown, Game!Decode
  <1>3. CASE kind = "spawn"
    <2> DEFINE n == SpawnSize * (Len(b) \div SpawnSize)
               t == SubSeq(b, 1, n)
    <2>1. /\ Len(b) \in Nat /\ SpawnSize \in Nat \ {0}
      BY DEF Game!Bytes, Game!Inputs
    <2>2. \A l \in Nat, s \in Nat \ {0} :
            /\ s * (l \div s) \in Nat /\ s * (l \div s) <= l
            /\ s * ((s * (l \div s)) \div s) = s * (l \div s)
      OBVIOUS
    <2>3. n \in Nat /\ n <= Len(b) /\ SpawnSize * (n \div SpawnSize) = n
      BY <2>1, <2>2
    <2> HIDE DEF n
    <2>4. t \in Game!Bytes /\ Len(t) = n
      BY <2>3, FrontBytes
    <2>5. Game!DecodeSpawns(b) = t
      BY DEF Game!DecodeSpawns, n
    <2> HIDE DEF t
    <2>6. Game!DecodeSpawns(t) = t
      <3>1. Game!DecodeSpawns(t) = SubSeq(t, 1, Len(t))
        BY <2>3, <2>4 DEF Game!DecodeSpawns
      <3>2. QED
        BY <2>4, <3>1 DEF Game!Bytes
    <2>7. QED
      BY <1>3, <2>4, <2>5, <2>6 DEF Game!Shown, Game!Decode
  <1>4. QED
    BY <1>1, <1>2, <1>3 DEF Game!Kinds

LEMMA EncodedBytes ==
  ASSUME Game!Inputs, NEW kind \in Game!Kinds, NEW value, Game!Shown(kind, value)
  PROVE  Game!Encode(kind, value) \in Game!Bytes
  <1>1. CASE kind = "npc"
    <2> DEFINE a == Game!Padded(value.name, NameSize)
               b == Game!Padded(value.attacks, AttacksSize)
               c == Game!Padded(<<>>, UnknownSize)
    <2>1. /\ value.name \in Game!Bytes /\ value.attacks \in Game!Bytes
          /\ <<>> \in Game!Bytes
          /\ NameSize \in Nat /\ AttacksSize \in Nat /\ UnknownSize \in Nat
      BY <1>1 DEF Game!Shown, Game!Inputs, Game!Bytes
    <2>2. a \in Game!Bytes /\ b \in Game!Bytes /\ c \in Game!Bytes
      BY <2>1, PaddedBytes
    <2>3. Game!Encode(kind, value) = a \o b \o c
      BY <1>1 DEF Game!Encode, Game!EncodeNPC
    <2> HIDE DEF a, b, c
    <2>4. a \o b \o c \in Game!Bytes
      BY <2>2 DEF Game!Bytes
    <2>5. QED
      BY <2>3, <2>4
  <1>2. CASE kind # "npc"
    BY <1>2 DEF Game!Encode, Game!Shown, Game!Kinds
  <1>3. QED
    BY <1>1, <1>2

\* The fields of an NPC are found again where they were put.
LEMMA FieldsApart ==
  ASSUME NEW a \in Game!Bytes, NEW b \in Game!Bytes, NEW c \in Game!Bytes
  PROVE  /\ SubSeq(a \o b \o c, 1, Len(a)) = a
         /\ SubSeq(a \o b \o c, Len(a) + 1, Len(a) + Len(b)) = b
  <1> DEFINE e == a \o b \o c
             s == SubSeq(e, 1, Len(a))
             t == SubSeq(e, Len(a) + 1, Len(a) + Len(b))
  <1>1. /\ Len(a) \in Nat /\ Len(b) \in Nat /\ Len(c) \in Nat
        /\ e \in Game!Bytes /\ Len(e) = Len(a) + Len(b) + Len(c)
        /\ \A i \in 1..Len(a) : e[i] = a[i]
        /\ \A i \in 1..Len(b) : e[Len(a) + i] = b[i]
    BY DEF Game!Bytes
  <1> HIDE DEF e
  <1>2. /\ s \in Game!Bytes /\ Len(s) = Len(a) /\ \A i \in 1..Len(a) : s[i] = e[i]
    BY <1>1, FrontBytes
  <1>3. /\ t \in Game!Bytes /\ Len(t) = Len(b)
        /\ \A i \in 1..Len(b) : t[i] = e[Len(a) + i]
    <2>1. e \in Game!Bytes /\ Len(a) + Len(b) <= Len(e)
      BY <1>1
    <2>2. Len(a) \in Nat /\ Len(b) \in Nat
      BY <1>1
    <2>3. QED
      BY <2>1, <2>2, PartBytes
  <1> HIDE DEF s, t
  <1>4. s = a
    BY <1>1, <1>2, SameBytes
  <1>5. t = b
    BY <1>1, <1>3, SameBytes
  <1>6. QED
    BY <1>4, <1>5 DEF s, t, e

\* What the validator lets through, and fits, is shown as it was entered.
LEMMA ShownAsEntered ==
  ASSUME Game!Inputs, NEW kind \in Game!Kinds, NEW value, Game!Shown(kind, value),
         Game!Valid(kind, value), Game!Fits(kind, value)
  PROVE  Game!Decode(kind, Game!Encode(kind, value)) = value
  <1>1. CASE kind = "npc"
    <2> DEFINE a == Game!Padded(value.name, NameSize)
               b == Game!Padded(value.attacks, AttacksSize)
               c == Game!Padded(<<>>, UnknownSize)
    <2>1. /\ value = [name |-> value.name, attacks |-> value.attacks]
          /\ value.name \in Game!Bytes /\ value.attacks \in Game!Bytes
          /\ Game!Displayed(value.name) = value.name
          /\ <<>> \in Game!Bytes
          /\ NameSize \in Nat /\ AttacksSize \in Nat /\ UnknownSize \in Nat
      BY <1>1 DEF Game!Shown, Game!Inputs, Game!Bytes
    <2>2. /\ Len(value.attacks) = AttacksSize /\ Len(value.name) <= NameSize
          /\ Game!UpToNul(value.name) = value.name
      BY <1>1 DEF Game!Valid, Game!Fits
    <2>3. /\ a \in Game!Bytes /\ Len(a) = NameSize /\ c \in Game!Bytes
          /\ b \in Game!Bytes /\ Len(b) = AttacksSize
          /\ \A i \in 1..AttacksSize :
               b[i] = IF i <= Len(value.attacks) THEN value.attacks[i] ELSE 0
      BY <2>1, PaddedBytes
    <2>4. Game!UpToNul(a) = value.name
      <3>1. \A i \in 1..Len(value.name) : value.name[i] # 0
        BY <2>1, <2>2, UpToNulBytes
      <3>2. QED
        BY <2>1, <2>2, <3>1, NameBack
    <2>5. Game!Encode(kind, value) = a \o b \o c
      BY <1>1 DEF Game!Encode, Game!EncodeNPC
    <2> HIDE DEF a, b, c
    <2>6. b = value.attacks
      <3>1. \A i \in 1..Len(b) : b[i] = value.attacks[i]
        BY <2>1, <2>2, <2>3
      <3>2. QED
        BY <2>1, <2>2, <2>3, <3>1, SameBytes
    <2>7. /\ SubSeq(a \o b \o c, 1, NameSize) = a
          /\ SubSeq(a \o b \o c, NameSize + 1, NameSize + AttacksSize) = b
      <3>1. /\ SubSeq(a \o b \o c, 1, Len(a)) = a
            /\ SubSeq(a \o b \o c, Len(a) + 1, Len(a) + Len(b)) = b
        BY <2>3, FieldsApart
      <3>2. QED
        BY <2>3, <3>1
    <2>8. Game!DecodeNPC(a \o b \o c) =
            [name |-> Game!Displayed(Game!UpToNul(a)), attacks |-> b]
      BY <2>7 DEF Game!DecodeNPC
    <2>9. QED
      BY <1>1, <2>1, <2>4, <2>5, <2>6, <2>8 DEF Game!Decode
  <1>2. CASE kind = "text"
    BY <1>2 DEF Game!Encode, Game!Decode, Game!Shown
  <1>3. CASE kind = "spawn"
    BY <1>3 DEF Game!Encode, Game!Decode, Game!Shown
  <1>4. QED
    BY <1>1, <1>2, <1>3 DEF Game!Kinds

-----------------------------------------------------------------------------
(* Forms.                                                                  *)

\* A form shows the bytes it came from, if they hold what it says.
TrueForm(f) ==
  /\ f.kind \in Game!Kinds /\ Game!Shown(f.kind, f.value)
  /\ Game!Fits(f.kind, f.value) => Game!Decode(f.kind, f.of) = f.value

FormsInv ==
  /\ content \in Game!Bytes
  /\ undo \in Seq(Game!Bytes)
  /\ form = [u \in Users |-> form[u]]
  /\ \A u \in Users : form[u] # NoForm => TrueForm(form[u])

LEMMA FormsStart == ASSUME Game!Inputs, Game!Init PROVE FormsInv
  BY DEF Game!Inputs, Game!Init, FormsInv

LEMMA OpenShows ==
  ASSUME Game!Inputs, FormsInv, NEW u \in Users, Game!Open(u)
  PROVE  FormsInv'
  <1> DEFINE f == [kind  |-> Game!Kind(content),
                   value |-> Game!Decode(Game!Kind(content), content),
                   of    |-> content]
  <1>1. /\ Game!Kind(content) \in Game!Kinds
        /\ form' = [form EXCEPT ![u] = f] /\ content' = content /\ undo' = undo
    BY DEF Game!Open, Game!Editable
  <1>2. TrueForm(f)
    <2>1. Game!Kind(content) = "npc" => Len(content) = Game!NPCFileSize
      BY DEF Game!Kind
    <2>2. Game!Shown(Game!Kind(content), Game!Decode(Game!Kind(content), content))
      BY <1>1, <2>1, DecodedIsShown DEF FormsInv
    <2>3. QED
      BY <1>1, <2>2 DEF TrueForm
  <1> HIDE DEF f
  <1>3. /\ form' = [v \in Users |-> form'[v]]
        /\ \A v \in Users : form'[v] = IF v = u THEN f ELSE form[v]
    BY <1>1 DEF FormsInv
  <1>4. \A v \in Users : form'[v] # NoForm => TrueForm(form'[v])
    BY <1>2, <1>3 DEF FormsInv
  <1>5. QED
    BY <1>1, <1>3, <1>4 DEF FormsInv, TrueForm

LEMMA SubmitShows ==
  ASSUME Game!Inputs, FormsInv, NEW u \in Users, Game!Submit(u)
  PROVE  FormsInv'
  <1>1. PICK value \in {form[u].value} \cup Typed[form[u].kind] : Game!Save(u, value)
    BY DEF Game!Submit
  <1> DEFINE kind == form[u].kind
             f == [kind |-> kind, value |-> value, of |-> Game!Encode(kind, value)]
  <1>2. TrueForm(form[u])
    BY DEF Game!Submit, FormsInv
  <1>3. kind \in Game!Kinds /\ Game!Shown(kind, value)
    BY <1>1, <1>2 DEF TrueForm, Game!Inputs
  <1>4. /\ Game!Valid(kind, value)
        /\ content' = Game!Encode(kind, value) /\ undo' = Append(undo, content)
        /\ form' = [form EXCEPT ![u] = f]
    BY <1>1 DEF Game!Save
  <1>5. TrueForm(f)
    <2> HIDE DEF kind
    <2>1. Game!Fits(kind, value) =>
            Game!Decode(kind, Game!Encode(kind, value)) = value
      BY <1>3, <1>4, ShownAsEntered
    <2>2. QED
      BY <1>3, <2>1 DEF TrueForm
  <1>6. content' \in Game!Bytes
    BY <1>3, <1>4, EncodedBytes
  <1>7. undo' \in Seq(Game!Bytes)
    BY <1>4 DEF FormsInv
  <1> HIDE DEF f
  <1>8. /\ form' = [v \in Users |-> form'[v]]
        /\ \A v \in Users : form'[v] = IF v = u THEN f ELSE form[v]
    BY <1>4 DEF FormsInv
  <1>9. \A v \in Users : form'[v] # NoForm => TrueForm(form'[v])
    BY <1>5, <1>8 DEF FormsInv
  <1>10. QED
    BY <1>6, <1>7, <1>8, <1>9 DEF FormsInv, TrueForm

LEMMA RevertShows ==
  ASSUME FormsInv, Game!Revert
  PROVE  FormsInv'
  <1>1. /\ undo # <<>> /\ content' = undo[Len(undo)]
        /\ undo' = SubSeq(undo, 1, Len(undo) - 1) /\ form' = form
    BY DEF Game!Revert
  <1>2. undo \in Seq(Game!Bytes)
    BY DEF FormsInv
  <1>3. undo' \in Seq(Game!Bytes) /\ Len(undo) \in DOMAIN undo
    BY <1>1, <1>2, UndoReverted
  <1>4. content' \in Game!Bytes
    BY <1>1, <1>2, <1>3
  <1>5. QED
    BY <1>1, <1>3, <1>4 DEF FormsInv, TrueForm

LEMMA OutsideShows ==
  ASSUME Game!Inputs, FormsInv, Game!WrittenOutside
  PROVE  FormsInv'
  BY DEF Game!Inputs, Game!WrittenOutside, FormsInv, TrueForm

LEMMA FormsKept ==
  ASSUME Game!Inputs, FormsInv, [Game!Next]_(Game!vars)
  PROVE  FormsInv'
  <1>1. CASE UNCHANGED Game!vars
    BY <1>1 DEF Game!vars, FormsInv, TrueForm
  <1>2. QED
    BY <1>1, OpenShows, SubmitShows, RevertShows, OutsideShows DEF Game!Next

\* For any file, any number of users and all that they enter, edit, save and
\* revert: what a user has before him is what others see who open the file now,
\* if nobody changed it since and it is still of that type.
THEOREM FormsStayTrue == MCSpec => []FormsAreTrue
  <1> DEFINE Inv == job \in {"list", "game"} /\ (job = "game" => FormsInv)
  <1>1. MCInit => Inv
    BY FormsStart, InputAssumption DEF MCInit, ListInit, GameInit
  <1>2. Inv /\ [MCNext]_<<job, vars, gameVars>> => Inv'
    <2> SUFFICES ASSUME Inv, [MCNext]_<<job, vars, gameVars>> PROVE Inv'
      OBVIOUS
    <2>1. CASE job' = job /\ UNCHANGED gameVars
      BY <2>1, FormsKept, InputAssumption DEF gameVars, Game!vars
    <2>2. CASE job = "game" /\ Game!Next /\ job' = job
      BY <2>2, FormsKept, InputAssumption
    <2>3. QED
      BY <2>1, <2>2 DEF MCNext
  <1>3. Inv => FormsAreTrue
    BY DEF FormsInv, TrueForm, FormsAreTrue, Game!FormsAreTrue
  <1>4. QED
    BY <1>1, <1>2, <1>3, PTL DEF MCSpec
=============================================================================
