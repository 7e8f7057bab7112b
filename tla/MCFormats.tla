------------------------------ MODULE MCFormats ------------------------------
(***************************************************************************)
(* ListFiles and GameFiles for TLC, one or the other in a behaviour.       *)
(*                                                                         *)
(* A list file has bytes of two bits, a count of two bytes and entries of  *)
(* three, so that counts from 5 on overflow the size.                      *)
(***************************************************************************)
EXTENDS ListFiles

CONSTANTS Users, NameSize, AttacksSize, UnknownSize, SpawnSize, OnDisk, Typed, NoForm, MaxEdits

\* Exclusive or of two bits each.
XorOfBits(a, b) ==
  LET bit(x, y) == (x + y) % 2
  IN  2 * bit(a \div 2, b \div 2) + bit(a % 2, b % 2)

Table == [b \in 0..3 |-> <<2, 2, 3, 0>>[b + 1]]

\* A byte that the file lacks is zero.
LittleEndian(f) ==
  LET byte(k) == IF k \in DOMAIN f THEN f[k] ELSE 0
  IN  byte(1) + 4 * byte(2)

VARIABLES job, ext, content, undo, form

\* Nothing, a character, half of one, a record and a half, and files of four
\* bytes, the size of an NPC file: names that end early, fill their field, or are
\* not UTF-8.  The text <<65, 239>> gets that size when it is saved as it is shown.
Written ==
  { <<>>, <<239, 191, 189>>, <<65, 239>>, <<1, 2, 3>>,
    <<65, 0, 1, 2>>, <<65, 65, 1, 0>>, <<239, 65, 1, 2>> }

\* Names that are too long, that end early, and that end in half a character.
TypedForms ==
  [npc   |-> [name : {<<65>>, <<65, 0>>, <<65, 65, 65>>, <<65, 239, 191, 189>>},
              attacks : {<<>>, <<1>>, <<1, 2>>}],
   text  |-> {<<65>>, <<65, 65, 65, 65>>, <<239, 191, 189, 65, 65>>},
   spawn |-> {<<>>, <<1, 2>>, <<1, 2, 3, 4>>}]

Game == INSTANCE GameFiles

ASSUME InputAssumption == Game!Inputs

gameVars == <<ext, content, undo, form>>

ListInit ==
  /\ job = "list" /\ Init
  /\ ext = "other" /\ content = <<>> /\ undo = <<>> /\ form = [u \in Users |-> NoForm]

GameInit ==
  /\ job = "game" /\ Game!Init
  /\ upload = <<>> /\ data = <<>> /\ at = 0 /\ pc = "refused"
  /\ count = 0 /\ entries = 0

MCInit == ListInit \/ GameInit

MCNext ==
  \/ job = "list" /\ Next /\ UNCHANGED <<job, gameVars>>
  \/ job = "game" /\ Game!Next /\ UNCHANGED <<job, vars>>

MCSpec == MCInit /\ [][MCNext]_<<job, vars, gameVars>>

FormsAreTrue  == job = "game" => Game!FormsAreTrue
StaysEditable == Game!StaysEditable
=============================================================================
