\* Two agents of one directory are launched four times in all; writes of .env,
\* migrations and agents fail anywhere.
SPECIFICATION MCSpec
CONSTANTS
  Agents = {a1, a2}
  Ports = {8080, 8081}
  MaxLaunches = 4
  Jobs = {"up"}
  Last = 2
  Creates <- Schema
  Drops <- Rollbacks
  References <- ForeignKeys
  QuietChecks = {}
  Faults = {"check", "statement", "mark", "crash"}
INVARIANTS ServesWholeSchema NoGap RaceIsHarmless CookiesOutliveRestarts
CHECK_DEADLOCK FALSE
