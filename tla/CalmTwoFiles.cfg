\* Two files (p2 an NPC file), a request on each, edits failing and crashing.
SPECIFICATION CalmSpec
CONSTANTS
  h1 = h1  h2 = h2  p1 = p1  p2 = p2  c1 = c1  c2 = c2  c3 = c3
  Handlers = {h1, h2}
  Paths = {p1, p2}
  FileOf <- DistinctFiles
  SizedPaths = {p2}
  Contents = {c1, c2}
  Empty = Empty  Torn = Torn  Absent = Absent  None = None
  Faults = {"crash", "db"}
  MaxRev = 2
  MaxNow = 1
SYMMETRY Symmetry
CHECK_DEADLOCK FALSE
PROPERTY ImplementsUndoLog
