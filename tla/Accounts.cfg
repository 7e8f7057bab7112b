\* Every kind of request and fault; Small bounds accounts and passwords.
SPECIFICATION MCSpec
CONSTANTS
  Requests = {r1, r2}
  Emails = {alice, bob}
  Passwords = {p1, p2}
  SessionIds = {s1, s2}
  Kinds = {"signUp", "signIn", "signOut", "updatePassword", "setStatus", "setPassword"}
  Faults = {"fail", "crash", "expire"}
  None = None
SYMMETRY Symmetry
CONSTRAINT Small
INVARIANTS SomebodyCanApprove ManagersStayInCharge SettledSessionsEnd
PROPERTIES AccountsChangeByRight
