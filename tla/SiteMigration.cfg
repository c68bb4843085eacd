SPECIFICATION Spec
CONSTANTS
  Handlers = {h1, h2}
  SiteActions = {"pause", "enable"}
  ScopeMayAge = FALSE
  MaxFaults = 1
SYMMETRY Symmetry
INVARIANTS  DecidedCopyIsCurrent MaintenanceIsOwned EnabledFileExists AbandonHidesTargetFirst
CHECK_DEADLOCK FALSE
