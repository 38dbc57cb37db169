\* Two events share an endpoint whose window takes one request: throttled tasks
\* of one event spend retries because of the other, each may be replayed, and
\* a client scans the dead-letter queue page by page meanwhile.
SPECIFICATION ListingSpec
CONSTANTS
  e1 = e1
  e2 = e2
  ep1 = ep1
  w1 = w1
  NoTask = NoTask
  Event = {e1, e2}
  Endpoint = {ep1}
  Worker = {w1}
  MaxRetries = 1
  RateLimit = 1
  MaxReplays = 1
  MaxCrashes = 0
  MaxAdmin = 0
  PageSize = 1
  MinBacklog = 2
SYMMETRY Symmetry
\* The bounds let the system stop.
CHECK_DEADLOCK FALSE
INVARIANTS
  NoSilentStranding
  NoGapInAttempts
  ListingTypeOK
  ListedHasFinalAttempt
  ScanMissesOnlyShifted
PROPERTIES
  SettledIsStable
  ItemTellsTheChain
