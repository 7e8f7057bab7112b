\* One request at a time, two edits in one second.
SPECIFICATION Spec
CONSTANTS
  h1 = h1  h2 = h2  p1 = p1  p2 = p2  c1 = c1  c2 = c2
  Handlers = {h1}
  Paths = {p1}
  FileOf <- DistinctFiles
  SizedPaths = {}
  Contents = {c1, c2}
  Empty = Empty  Torn = Torn  Absent = Absent  None = None
  Faults = {}
  MaxRev = 2
  MaxNow = 0
INVARIANT RevertsMostRecent
