\* A process is stopped, started again and slow to be ready.
SPECIFICATION Spec
CONSTANTS
  r1 = r1  r2 = r2  a = a  b = b  k1 = k1  k2 = k2
  Requests = {r1}
  Paths = {a, b}
  Binary <- DistinctBinaries
  Pids = {k1}
  Configured <- TwoRows
  Settings <- SlowStart
  None = None
  MaxRows = 2
  Places = {1, 2}
  Ports = {TRUE}
CHECK_DEADLOCK FALSE
INVARIANT CurrentUptimeIsOfThisRun
