SPECIFICATION Spec
CONSTANTS
  Requests = {r1, r2, r3, r4}
  Passwords = {p1, p2}
  NoPassword = NoPassword
  MaxFailures = 3
  FreezeSpan = 3
  MaxTime = 7
  MaxFaults = 1
SYMMETRY Symmetry
INVARIANTS
  RollingLimit
  ReplayNotCounted
CHECK_DEADLOCK FALSE
