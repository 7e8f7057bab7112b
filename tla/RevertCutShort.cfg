\* One request at a time; the disk may fail.
SPECIFICATION Spec
CONSTANTS
  h1 = h1  h2 = h2  p1 = p1  p2 = p2  c1 = c1  c2 = c2
  Handlers = {h1}
  Paths = {p1}
  FileOf <- DistinctFiles
  SizedPaths = {}
  Contents = {c1, c2}
  Empty = Empty  Torn = Torn  Absent = Absent  None = None
  Faults = {"io"}
  MaxRev = 1
  MaxNow = 0
PROPERTY RevertedMeansRestored
