\* Liveness: an event whose endpoint is registered or deactivated, and that is
\* replayed, once more while a replay is under way.
SPECIFICATION FairSpec
CONSTANTS
  e1 = e1
  e2 = e2
  ep1 = ep1
  ep2 = ep2
  w1 = w1
  w2 = w2
  NoTask = NoTask
  Event = {e1}
  Endpoint = {ep1}
  Worker = {w1, w2}
  MaxRetries = 1
  RateLimit = 1
  MaxReplays = 2
  MaxCrashes = 0
  MaxAdmin = 1
\* The bounds let the system stop.
CHECK_DEADLOCK FALSE
INVARIANTS
  EveryTargetAnswered
PROPERTIES
  EventuallySettles
  TargetsEventuallyAnswered
