\* Three uploads of either table that overlap, fail, and die with the agent.
SPECIFICATION MCSpec
CONSTANTS
  Requests = {r1, r2, r3}
  Ids = {1, 2}
  a = a
  b = b
  Names = {a, b}
  EntryLists <- Lists
  Faults = {"delete", "insert", "crash"}
SYMMETRY Symmetry
CHECK_DEADLOCK FALSE
INVARIANTS NamesAsUploaded
PROPERTIES RefusedKeepsMonsters CalmReplaces
