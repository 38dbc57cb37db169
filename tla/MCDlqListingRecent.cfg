\* One event, refused by its endpoint with the last retry, is replayed once, and
\* a client lists the queue.
SPECIFICATION ListingSpec
CONSTANTS
  e1 = e1
  e2 = e2
  ep1 = ep1
  w1 = w1
  NoTask = NoTask
  Event = {e1}
  Endpoint = {ep1}
  Worker = {w1}
  MaxRetries = 1
  RateLimit = 2
  MaxReplays = 1
  MaxCrashes = 0
  MaxAdmin = 0
  PageSize = 1
  MinBacklog = 1
CHECK_DEADLOCK FALSE
PROPERTY ItemShowsMostRecent
