\* A goroutine logs over two midnights while the file rotates and is closed.
SPECIFICATION FairSpec
CONSTANTS
  Writers = {w1}
  Rotator = rotator
  Closer = closer
  Handles = {h1, h2, h3}
  Faults = {"open"}
  None = None
  MaxDay = 3
INVARIANTS LinesInTheirDay NoLeak ClosedForGood
PROPERTIES WritesReturn CloseReturns
