\* Two people sign up at the same time.
SPECIFICATION MCSpec
CONSTANTS
  Requests = {r1, r2}
  Emails = {alice, bob}
  Passwords = {p1, p2, p3}
  SessionIds = {s1, s2}
  Kinds = {"signUp"}
  Faults = {}
  None = None
SYMMETRY Symmetry
INVARIANTS OneSuperAdmin
