SPECIFICATION Spec
CONSTANTS
  Admins = {a1}
  Requested = {}
  ScopeMayAge = FALSE
  MaxFaults = 0
INVARIANT FailedIsRemovable
CHECK_DEADLOCK FALSE
