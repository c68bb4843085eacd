SPECIFICATION FairSpec
CONSTANTS
  Admins = {a1}
  Requested <- AllOperations
  ScopeMayAge = TRUE
  MaxFaults = 1
PROPERTY TaskIsSettled
CHECK_DEADLOCK FALSE
