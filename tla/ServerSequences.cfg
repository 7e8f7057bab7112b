\* Starting, stopping and registering two configured processes and a new one.
SPECIFICATION Spec
CONSTANTS
  r1 = r1  r2 = r2  a = a  b = b  k1 = k1  k2 = k2
  Requests = {r1, r2}
  Paths = {a, b}
  Binary <- DistinctBinaries
  Pids = {k1, k2}
  Configured <- TwoRows
  Settings <- AllSettings
  None = None
  MaxRows = 3
  Places = {1, 2}
  Ports = {TRUE}
SYMMETRY Symmetry
INVARIANTS EarlierAreUp LaterAreDown
INVARIANTS UniqueRows SingleInstance
PROPERTIES RunningRowsStay TimesAreTrue
