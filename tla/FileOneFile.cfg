\* Two requests at a time on one text file, every fault but a deleted lock.
SPECIFICATION Spec
CONSTANTS
  h1 = h1  h2 = h2  p1 = p1  p2 = p2  c1 = c1  c2 = c2
  Handlers = {h1, h2}
  Paths = {p1}
  FileOf <- DistinctFiles
  SizedPaths = {}
  Contents = {c1, c2}
  Empty = Empty  Torn = Torn  Absent = Absent  None = None
  Faults = {"crash", "io", "db", "unlock", "operator"}
  MaxRev = 2
  MaxNow = 1
SYMMETRY Symmetry
INVARIANTS LockExclusion CompletedHasBackup RevertTargetsLatest RevertWritesItsRevision
PROPERTY HistoryAppendOnly
