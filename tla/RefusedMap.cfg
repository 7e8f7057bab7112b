\* A map list that the agent refuses.
SPECIFICATION MCSpec
CONSTANTS
  Requests = {r1, r2}
  Ids = {1, 2}
  a = a
  b = b
  Names = {a, b}
  EntryLists <- Lists
  Faults = {"delete", "insert", "crash"}
SYMMETRY Symmetry
CHECK_DEADLOCK FALSE
PROPERTY RefusedKeepsMaps
