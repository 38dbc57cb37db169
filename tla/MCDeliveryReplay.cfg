\* One event, one endpoint, two workers: replays racing replays, retries and
\* a crash.
SPECIFICATION Spec
CONSTANTS
  e1 = e1
  e2 = e2
  ep1 = ep1
  ep2 = ep2
  w1 = w1
  w2 = w2
  NoTask = NoTask
  Event = {e1}
  Endpoint = {ep1}
  Worker = {w1, w2}
  MaxRetries = 1
  RateLimit = 1
  MaxReplays = 2
  MaxCrashes = 1
  MaxAdmin = 0
SYMMETRY Symmetry
\* The bounds let the system stop.
CHECK_DEADLOCK FALSE
INVARIANTS
  DuplicatesAreCaused
PROPERTIES
  ImplementsLifecycle
