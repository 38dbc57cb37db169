\* Four requests for two keys, every assignment of keys to requests.
SPECIFICATION FairSpec
CONSTANTS
  k1 = k1
  k2 = k2
  r1 = r1
  r2 = r2
  r3 = r3
  r4 = r4
  NoRequest = NoRequest
  Key = {k1, k2}
  Request = {r1, r2, r3, r4}
\* Every request is answered once.
CHECK_DEADLOCK FALSE
INVARIANTS
  TypeOK
  AtMostOneTask
  AnswersAreDurable
  FallbackFindsWinner
PROPERTIES
  ImplementsIntake
  EveryRequestAnswered
