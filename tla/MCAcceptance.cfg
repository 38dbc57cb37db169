SPECIFICATION AcceptanceSpec
CONSTANTS
  e1 = e1
  e2 = e2
  ep1 = ep1
  ep2 = ep2
  w1 = w1
  NoTask = NoTask
  Event = {e1, e2}
  Endpoint = {ep1, ep2}
  Worker = {w1}
  MaxRetries = 2
  RateLimit = 1
  MaxReplays = 1
  MaxCrashes = 1
  MaxAdmin = 4
  NumEvents = 2
  NumEndpoints = 1
  Parts <- MCParts
SYMMETRY Symmetry
\* The scripts end.
CHECK_DEADLOCK FALSE
INVARIANTS
  AcceptanceTypeOK
  RegisteredIsRead
PROPERTIES
  PassIsFinal
  FailIsExplained
  StaleNeverPasses
  BenchmarkCountsTargets
