\* One round at a time; statements, also of the clean-up, may fail.
SPECIFICATION FairSpec

CONSTANTS
  Rounds = {r1}
  Usages = {r1}
  CoreCounts = {1}
  Retention = 0
  MaxTime = 2
  Faults = {"busy"}

PROPERTIES ExpiredGoAway
