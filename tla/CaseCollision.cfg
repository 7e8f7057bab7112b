\* One request at a time on two files whose names differ in case.
SPECIFICATION Spec
CONSTANTS
  h1 = h1  h2 = h2  p1 = p1  p2 = p2  c1 = c1  c2 = c2
  Handlers = {h1}
  Paths = {p1, p2}
  FileOf <- CaseInsensitiveFiles
  SizedPaths = {}
  Contents = {c1, c2}
  Empty = Empty  Torn = Torn  Absent = Absent  None = None
  Faults = {}
  MaxRev = 1
  MaxNow = 0
INVARIANT RevertsOwnFile
