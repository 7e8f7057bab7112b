\* Every list file of up to five bytes; a file of every type with two users.
SPECIFICATION MCSpec

CONSTANTS
  Users = {u1, u2}
  NameSize = 2
  AttacksSize = 1
  UnknownSize = 1
  SpawnSize = 2
  OnDisk <- Written
  Typed <- TypedForms
  NoForm = NoForm
  MaxEdits = 2
  Base = 4
  Xor <- XorOfBits
  CryptTable <- Table
  HeaderSize = 2
  CountOf <- LittleEndian
  EntrySize = 3
  Modulus = 16
  MaxSize = 5

INVARIANTS KeysAreOfTheUpload ListIsWhole RefusedIfShort FormsAreTrue
PROPERTIES StaysEditable
