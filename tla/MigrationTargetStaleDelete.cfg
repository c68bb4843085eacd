SPECIFICATION Spec
CONSTANTS
  Admins = {a1}
  Requested <- AllOperations
  ScopeMayAge = TRUE
  MaxFaults = 0
PROPERTY LiveSiteKept
CHECK_DEADLOCK FALSE
