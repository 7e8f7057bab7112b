\* One agent migrates up and down; checks of marks fail, except quiet ones.
SPECIFICATION Spec
CONSTANTS
  Agents = {a1}
  Jobs = {"up", "down"}
  Last = 9
  Creates <- Schema
  Drops <- Rollbacks
  References <- ForeignKeys
  QuietChecks <- Quiet
  Faults = {"check"}
SYMMETRY Symmetry
INVARIANTS ReferencesResolve DownLeavesNothing
