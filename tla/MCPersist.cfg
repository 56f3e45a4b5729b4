CONSTANTS
  MinWait = 2
  MaxWait = 9
  RespectRetryAfter = TRUE
  RetryAfters <- SomeRetryAfters
  NoValue = NoValue
  NaN = NaN
  BadDate = BadDate
  LongestWait = 50
  MaxAttempts = 4
SPECIFICATION Spec
INVARIANTS
  PersistTypeOK
  WaitFollowsOutcomes
  ExitStopsRetries
