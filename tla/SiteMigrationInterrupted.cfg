SPECIFICATION Spec
CONSTANTS
  Handlers = {h1}
  SiteActions = {}
  ScopeMayAge = FALSE
  MaxFaults = 1
INVARIANT InterruptedCanBeAbandoned
CHECK_DEADLOCK FALSE
