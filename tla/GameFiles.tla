------------------------------ MODULE GameFiles ------------------------------
(***************************************************************************)
(* What the editors show of a file and what they write back.               *)
(*                                                                         *)
(* The type of a file is decided anew from its extension and its size at   *)
(* every request.  A viewer decodes the bytes into a form; the form, edited *)
(* or not, comes back later, perhaps after the file was changed by others, *)
(* and is encoded again.  Reverting writes the saved bytes back whatever   *)
(* their type.  Every request is one step here: FileRevisions has the steps *)
(* of an edit and of a revert, and what goes wrong between them.           *)
(***************************************************************************)
EXTENDS Integers, Sequences

CONSTANTS
  Users,         \* those who have the file open
  NameSize,      \* bytes of the name in an NPC file, 20
  AttacksSize,   \* bytes of its attacks and other numbers, 56
  UnknownSize,   \* bytes of its last field, which no form has, 2
  SpawnSize,     \* bytes of a record in a spawn file, 8
  OnDisk,        \* what the game and its tools write
  Typed,         \* kind -> what a user may enter
  NoForm,
  MaxEdits       \* bound: revisions to revert

Byte        == 0..255
Bytes       == Seq(Byte)
NPCFileSize == NameSize + AttacksSize + UnknownSize
Kinds       == {"npc", "text", "spawn"}
Extensions  == {"itm", "map", "n_ndt", "txt", "other"}

VARIABLES
  ext,      \* the extension of the file
  content,  \* its bytes
  undo,     \* the contents its completed revisions saved, oldest first
  form      \* what each user has before him: [kind, value, of: the bytes it shows]

vars == <<ext, content, undo, form>>

-----------------------------------------------------------------------------
(* Types.                                                                  *)

\* GetFileType: extensions of the game first, then the size, then the MIME type.
Kind(b) ==
  CASE ext = "itm"   -> "drop"
    [] ext = "map"   -> "map"
    [] ext = "n_ndt" -> "spawn"
    [] OTHER         -> IF Len(b) = NPCFileSize THEN "npc"
                        ELSE IF ext = "txt" THEN "text" ELSE "unknown"

Editable(b) == Kind(b) \in Kinds

-----------------------------------------------------------------------------
(* Encoding.  A text is its bytes, a list of spawns the bytes of its       *)
(* records, an NPC its name and the bytes of its numbers.                  *)

\* U+FFFD, which stands for every character of more than one byte.
Wide == <<239, 191, 189>>

\* Such a character begins at the i-th byte.
IsWide(b, i) == i + 2 <= Len(b) /\ SubSeq(b, i, i + 2) = Wide

\* How JSON carries a string, from each byte on: a byte that begins no character
\* becomes U+FFFD.
DisplayedFrom(b) ==
  LET from[i \in 1..(Len(b) + 1)] ==
        IF i > Len(b) THEN <<>>
        ELSE IF b[i] < 128 THEN <<b[i]>> \o from[i + 1]
        ELSE Wide \o from[IF IsWide(b, i) THEN i + 3 ELSE i + 1]
  IN  from

Displayed(b) == DisplayedFrom(b)[1]

\* copy into an array of n bytes: cut off or filled up with zeros.
Padded(b, n) == [i \in 1..n |-> IF i \in DOMAIN b THEN b[i] ELSE 0]

\* ReadStringFromBytes.
UpToNul(b) ==
  LET zeros == {i \in DOMAIN b : b[i] = 0}
  IN  IF zeros = {} THEN b
      ELSE SubSeq(b, 1, (CHOOSE i \in zeros : \A j \in zeros : i <= j) - 1)

\* Mutant: the last byte of the name is kept zero.
NameTerminated(npc) ==
  Padded(Padded(npc.name, NameSize - 1), NameSize) \o Padded(npc.attacks, AttacksSize)
    \o Padded(<<>>, UnknownSize)

\* Mutant: the last field is left out.
NPCWithoutUnknown(npc) ==
  Padded(npc.name, NameSize) \o Padded(npc.attacks, AttacksSize)

\* The last field is written as zero, whatever the file had there.
EncodeNPC(npc) ==
  Padded(npc.name, NameSize) \o Padded(npc.attacks, AttacksSize)
    \o Padded(<<>>, UnknownSize)

DecodeNPC(b) ==
  [name    |-> Displayed(UpToNul(SubSeq(b, 1, NameSize))),
   attacks |-> SubSeq(b, NameSize + 1, NameSize + AttacksSize)]

\* Whole records only: what follows the last one is not shown and not kept.
DecodeSpawns(b) == SubSeq(b, 1, SpawnSize * (Len(b) \div SpawnSize))

Encode(kind, value) == IF kind = "npc" THEN EncodeNPC(value) ELSE value

Decode(kind, b) ==
  CASE kind = "npc"   -> DecodeNPC(b)
    [] kind = "spawn" -> DecodeSpawns(b)
    [] kind = "text"  -> Displayed(b)

\* The validator takes an empty string for a missing one, and counts attacks.
Valid(kind, value) ==
  /\ kind = "npc"  => value.name # <<>> /\ Len(value.attacks) = AttacksSize
  /\ kind = "text" => value # <<>>

-----------------------------------------------------------------------------
(* Requests.                                                               *)

Init ==
  /\ ext \in Extensions /\ content \in OnDisk
  /\ undo = <<>> /\ form = [u \in Users |-> NoForm]

\* handleNPCFileData, handleTextFileData, handleSpawnFileData.
Open(u) ==
  /\ Editable(content)
  /\ form' = [form EXCEPT ![u] = [kind  |-> Kind(content),
                                  value |-> Decode(Kind(content), content),
                                  of    |-> content]]
  /\ UNCHANGED <<ext, content, undo>>

\* An edit: refused if the file is of another type by now, or would not change.
Save(u, value) ==
  LET kind == form[u].kind IN
  /\ Kind(content) = kind /\ Valid(kind, value)
  /\ Encode(kind, value) # content
  /\ Len(undo) < MaxEdits
  /\ content' = Encode(kind, value)
  /\ undo' = Append(undo, content)
  /\ form' = [form EXCEPT ![u] = [kind |-> kind, value |-> value, of |-> content']]
  /\ UNCHANGED ext

\* A form is sent as it is, or after its user has changed it.
Submit(u) ==
  /\ form[u] # NoForm
  /\ \E value \in {form[u].value} \cup Typed[form[u].kind] : Save(u, value)

\* The type of the file is not looked at.
Revert ==
  /\ undo # <<>>
  /\ content' = undo[Len(undo)]
  /\ undo' = SubSeq(undo, 1, Len(undo) - 1)
  /\ UNCHANGED <<ext, form>>

\* The game, or a tool of its own, writes the file.
WrittenOutside ==
  /\ content' \in OnDisk
  /\ UNCHANGED <<ext, undo, form>>

Next == Revert \/ WrittenOutside \/ \E u \in Users : Open(u) \/ Submit(u)

Spec == Init /\ [][Next]_vars

-----------------------------------------------------------------------------
(* Properties.                                                             *)

\* A name that fits its field.
Fits(kind, value) ==
  kind = "npc" => Len(value.name) <= NameSize /\ UpToNul(value.name) = value.name

\* What a user may have before him or enter: a string that came over JSON, and
\* whole records.
Shown(kind, value) ==
  CASE kind = "npc"   -> /\ value = [name |-> value.name, attacks |-> value.attacks]
                         /\ value.name \in Bytes /\ Displayed(value.name) = value.name
                         /\ value.attacks \in Bytes
    [] kind = "text"  -> value \in Bytes /\ Displayed(value) = value
    [] kind = "spawn" -> value \in Bytes /\ DecodeSpawns(value) = value

\* What the constants stand for.
Inputs ==
  /\ NameSize \in Nat /\ AttacksSize \in Nat /\ UnknownSize \in Nat
  /\ SpawnSize \in Nat \ {0} /\ OnDisk \subseteq Bytes
  /\ \A kind \in Kinds : \A value \in Typed[kind] : Shown(kind, value)

\* What a user sees is what others see who open the file now, as long as nobody
\* changed it since he opened or saved it: saving a form, edited or not, shows
\* what was saved.  It takes a name that fits, and a file still of that type.
FormsAreTrue ==
  \A u \in Users :
    /\ form[u] # NoForm
    /\ form[u].of = content /\ form[u].kind = Kind(content)
    /\ Fits(form[u].kind, form[u].value)
    => Decode(form[u].kind, content) = form[u].value

\* An edit or a revert leaves a file that one of the editors opens, and an edit
\* changes the type of a file only when a text has come to the size of an NPC
\* file; from there it is an NPC file for every later edit, until it is reverted.
StaysEditable ==
  [][undo' # undo =>
       /\ Editable(content')
       /\ Len(undo') > Len(undo) =>
            Kind(content') \in {Kind(content)} \cup (IF Kind(content) = "text" THEN {"npc"} ELSE {})]_vars
=============================================================================
