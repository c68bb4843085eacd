SPECIFICATION Spec
CONSTANTS
  Admins = {a1,a2}
  Requested <- AllOperations
  ScopeMayAge = FALSE
  MaxFaults = 1
SYMMETRY Symmetry
INVARIANTS
  LedgerCovers
  AbandonedIsClean
  ActivationAtomic
PROPERTIES
  LiveSiteKept
  ImplementsTargetTask
CHECK_DEADLOCK FALSE
