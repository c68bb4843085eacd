SPECIFICATION FairSpec
CONSTANTS
  Calls = {c1, c2, c3}
  NoTask = NoTask
  Capacity = 1
  MaxWaiters = 1
  MaxCompleted = 1
INVARIANTS
  TypeOK
  TaskCountExact
  RefusedNeverRuns
  AcceptedIsPollable
  AdmissionBounded
PROPERTIES
  ImplementsSerialExecutor
  CallReturns
  AcceptedIsAnswered
CHECK_DEADLOCK FALSE
