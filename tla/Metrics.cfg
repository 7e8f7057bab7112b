\* Two rounds on empty tables, every fault, one core or two.
SPECIFICATION MCSpec
CONSTANTS
  r1 = r1
  r2 = r2
  Rounds = {r1, r2}
  Usages = {r1, r2}
  CoreCounts = {1, 2}
  Retention = 0
  MaxTime = 1
  Faults = {"busy", "link", "crash"}
INVARIANTS SamplesAreFiled OneSeriesEach ChartsAddUp
PROPERTIES HistoryStands
SYMMETRY Symmetry
