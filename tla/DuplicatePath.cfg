\* Two requests register one path at the same time.
SPECIFICATION Spec
CONSTANTS
  r1 = r1  r2 = r2  a = a  b = b  k1 = k1  k2 = k2
  Requests = {r1, r2}
  Paths = {a, b}
  Binary <- DistinctBinaries
  Pids = {k1}
  Configured <- NoRows
  Settings <- Creating
  None = None
  MaxRows = 2
  Places = {1, 2}
  Ports = {TRUE}
CHECK_DEADLOCK FALSE
INVARIANT NoDuplicatePath
