SPECIFICATION Spec
CONSTANTS
  p1 = p1
  p2 = p2
  r1 = r1
  r2 = r2
  BatchKeys <- TwoPlugins
  Singles = {p1}
  MaxTasks = 3
  DispatchRetries = 1
  Rollbacks = {r1, r2}
  Overlap = TRUE
  MaxFaults = 2
  MaxCrashes = 1
SYMMETRY Symmetry
INVARIANTS
  TypeOK
  DamageIsInSight
  IgnoredIsLeftAlone
  BatchItemOnce
  CompletedIsDecided
  RollbackIsAlone
PROPERTIES
  OutcomeIsTrue
CHECK_DEADLOCK FALSE
