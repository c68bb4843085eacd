SPECIFICATION FairSpec
CONSTANTS
  p1 = p1
  p2 = p2
  r1 = r1
  r2 = r2
  BatchKeys <- TwoPlugins
  Singles = {"core"}
  MaxTasks = 3
  DispatchRetries = 1
  Rollbacks = {r1}
  Overlap = TRUE
  MaxFaults = 1
  MaxCrashes = 1
PROPERTIES
  BatchEnds
  EveryTaskEnds
CHECK_DEADLOCK FALSE
