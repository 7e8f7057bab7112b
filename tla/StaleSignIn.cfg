\* A sign-in overlaps a change of the password.
SPECIFICATION MCSpec
CONSTANTS
  Requests = {r1, r2}
  Emails = {alice}
  Passwords = {p1, p2, p3}
  SessionIds = {s1, s2}
  Kinds = {"signUp", "signIn", "updatePassword"}
  Faults = {}
  None = None
SYMMETRY Symmetry
INVARIANTS OthersLoggedOut
