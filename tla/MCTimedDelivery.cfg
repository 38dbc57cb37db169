\* One endpoint, two callers, one request per window of two ticks, and time for
\* three windows. The receiver accepts just what is as old as a POST may take,
\* with clocks that differ by a tick.
SPECIFICATION TimedSpec
CONSTANTS
  a = a
  c1 = c1
  c2 = c2
  NoEndpoint = NoEndpoint
  Endpoint = {a}
  Caller = {c1, c2}
  Target <- MCTarget
  Limit = 1
  Window = 2
  MaxTime = 5
  MaxFailures = 1
  MaxRetries = 2
  BaseDelay = 1
  MaxDelay = 3
  HttpTimeout = 1
  Tolerance = 2
  Skew <- MCSkew
  Calls = 3
SYMMETRY Symmetry
\* Time is bounded.
CHECK_DEADLOCK FALSE
INVARIANTS
  LimitPerWindow
  TwiceLimitAnywhere
  RetryAfterSuffices
  TimedTypeOK
  GenuineIsAccepted
  SuiteFindsExactLimit
