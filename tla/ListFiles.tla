----------------------------- MODULE ListFiles -----------------------------
(***************************************************************************)
(* The client's list files, MON.ull and MC.ull: an uploaded file is        *)
(* deciphered in place, from its last byte to its second, and then read as *)
(* a count and that many entries of one size.  Nothing is assumed of what  *)
(* the game's tools write: any bytes may be uploaded.                      *)
(***************************************************************************)
EXTENDS Integers, Sequences

CONSTANTS
  Base,         \* the number of bytes, 256
  Xor(_, _),    \* exclusive or of two bytes
  CryptTable,   \* the key table
  HeaderSize,   \* the bytes of the count, 4
  CountOf(_),   \* the count that the header of a file holds, little-endian
  EntrySize,    \* the bytes of an entry, 96 or 56
  Modulus,      \* 2^32: the count and the size computed from it are uint32
  MaxSize       \* bound: the length of a file

Byte  == 0..(Base - 1)
Files == UNION {[1..n -> Byte] : n \in 0..MaxSize}

ASSUME SizeAssumption ==
  /\ Base \in Nat \ {0} /\ HeaderSize \in Nat \ {0} /\ EntrySize \in Nat \ {0}
  /\ Modulus \in Nat \ {0} /\ MaxSize \in Nat /\ MaxSize < Modulus
  /\ CryptTable \in [Byte -> Byte]

\* The count of a file without a whole header has zeros for the bytes it lacks,
\* and too few others for its size to overflow.
ASSUME CountAssumption ==
  \A f \in Files :
    /\ CountOf(f) \in 0..(Modulus - 1)
    /\ Len(f) < HeaderSize => CountOf(f) * EntrySize + HeaderSize < Modulus

ASSUME XorAssumption ==
  \A a, b \in Byte : Xor(a, b) \in Byte

VARIABLES
  upload,   \* the file as uploaded
  data,     \* the handler's buffer
  at,       \* the byte to decipher next, counted from 1
  pc,       \* "decode", "read", "done", "refused" or "panicked"
  count,    \* the number of entries the header claims
  entries   \* the number of entries read

vars == <<upload, data, at, pc, count, entries>>

-----------------------------------------------------------------------------

\* What the k-th byte of n becomes, where prev is the byte before it.
Masked(prev, b, k, n) ==
  Xor((n - k + 1) % Base, Xor(n % Base, Xor(CryptTable[prev], b)))

Init ==
  /\ upload \in Files /\ data = upload /\ at = Len(upload)
  /\ pc = "decode" /\ count = 0 /\ entries = 0

\* Mutant: the loop runs from the second byte to the last.
DecodeByteAhead ==
  /\ pc = "decode" /\ at > 1
  /\ data' = [data EXCEPT ![Len(data) - at + 2] =
                Masked(data[Len(data) - at + 1], @, Len(data) - at + 2, Len(data))]
  /\ at' = at - 1 /\ UNCHANGED <<upload, pc, count, entries>>

\* One turn of the loop of DecodeULL, which leaves the first byte alone.
DecodeByte ==
  /\ pc = "decode" /\ at > 1
  /\ data' = [data EXCEPT ![at] = Masked(data[at - 1], @, at, Len(data))]
  /\ at' = at - 1 /\ UNCHANGED <<upload, pc, count, entries>>

\* Mutant: the size is compared with the entries alone.
SizeOfEntries(n) == (n * EntrySize) % Modulus

\* The size that a count asks for, in the width of the count.
SizeOf(n) == (n * EntrySize + HeaderSize) % Modulus


TooSmall(n) == Len(data) < SizeOf(n)

\* The count is taken from the buffer's first bytes, which are there, as zeros,
\* also when the file is shorter; to skip them in such a file would panic.
ReadCount ==
  /\ pc = "decode" /\ at <= 1
  /\ count' = CountOf(data)
  /\ pc' = IF TooSmall(count') THEN "refused"
           ELSE IF Len(data) < HeaderSize THEN "panicked" ELSE "read"
  /\ UNCHANGED <<upload, data, at, entries>>

\* Mutant: the comparison of sizes is trusted.
ReadEntryTrusting ==
  /\ pc = "read"
  /\ IF entries = count
     THEN pc' = "done" /\ UNCHANGED entries
     ELSE entries' = entries + 1 /\ UNCHANGED pc
  /\ UNCHANGED <<upload, data, at, count>>

\* The next entry, the end of the list, or the end of the file.
ReadEntry ==
  /\ pc = "read"
  /\ \/ entries = count /\ pc' = "done" /\ UNCHANGED entries
     \/ /\ entries < count /\ HeaderSize + (entries + 1) * EntrySize <= Len(data)
        /\ entries' = entries + 1 /\ UNCHANGED pc
     \/ /\ entries < count /\ HeaderSize + (entries + 1) * EntrySize > Len(data)
        /\ pc' = "refused" /\ UNCHANGED entries
  /\ UNCHANGED <<upload, data, at, count>>

Ended == pc \in {"done", "refused", "panicked"} /\ UNCHANGED vars

Next == DecodeByte \/ ReadCount \/ ReadEntry \/ Ended

Spec == Init /\ [][Next]_vars

-----------------------------------------------------------------------------
(* Properties.                                                             *)

\* Every variable has its type.
TypeOK ==
  /\ upload \in Files /\ data \in Files
  /\ at \in 0..MaxSize /\ count \in 0..(Modulus - 1) /\ entries \in 0..count
  /\ pc \in {"decode", "read", "done", "refused", "panicked"}

\* Every byte of a file unmasked by the byte that stood before it in the file.
Unmasked(file) ==
  [k \in DOMAIN file |->
     IF k = 1 THEN file[k] ELSE Masked(file[k - 1], file[k], k, Len(file))]

\* Although the loop overwrites the bytes that are keys, every byte of what is
\* parsed was unmasked by a byte of the upload, never by one already unmasked.
KeysAreOfTheUpload == pc # "decode" => data = Unmasked(upload)

\* A list is taken only when the file holds every entry its header claims, also
\* when the size computed in 32 bits wraps and the comparison lets it pass.
ListIsWhole ==
  pc = "done" => entries = count /\ HeaderSize + count * EntrySize <= Len(data)

\* A file shorter than the header is refused by the comparison of sizes alone.
ShortFilesAreRefused == pc # "panicked"

\* No list is refused that the file holds.
WholeListIsTaken ==
  pc = "refused" => HeaderSize + count * EntrySize > Len(data)

\* A list is refused exactly when the file does not hold it: also a file shorter
\* than its header, by the comparison of sizes alone (to cut it would panic).
RefusedIfShort == ShortFilesAreRefused /\ WholeListIsTaken
=============================================================================
