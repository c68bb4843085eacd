SPECIFICATION FairSpec
CONSTANTS
  Requests = {r1, r2}
  NoRequest = NoRequest
  Roots = {rootA, rootB}
  Span = 1
  ExtendSpans = {1}
  VerifySpan = 2
  RetryDelay = 1
  MaxTime = 3
  MaxFaults = 2
  MaxMishaps = 1
INVARIANTS
  TypeOK
  StatusHonest
  ReadyMeansLocked
  WindowExcludesClaims
  WindowKeepsRoot
  VerifiedCoversWindow
  AbsorbOnlyClean
PROPERTIES
  RelockIsFinal
  WindowCloses
  LatchClears
CHECK_DEADLOCK FALSE
