\* One round at a time; the agent may die and start on another number of cores.
SPECIFICATION Spec

CONSTANTS
  Rounds = {r1}
  Usages = {r1}
  CoreCounts = {1, 2}
  Retention = 2
  MaxTime = 1
  Faults = {"crash"}

INVARIANTS CardIsCurrent
