\* One message whose publisher asks for a delay longer than the lease.
CONSTANTS
  Ids = {m1}
  NoKey = NoKey
  KeyOf <- MCNoKeys
  BatchSize = 1
  LeaseDuration = 1
  Ordered = FALSE
  ClearPayloadOnComplete = TRUE
  Retention = 0
  DeadRetention = 0
  DiscardRetention = 0
  MaxSkew = 0
  MaxClock = 4
  MaxSeq = 1
  MaxToken = 2
  Workers = {w1, w2}
  MaxAttempts = 2
  Unset = Unset
  MaxAttemptsOf <- MCNoLimits
  Backoff <- MCBackoff
  RetryDelays = {3}
SPECIFICATION AskSpec
INVARIANTS RetryAfterIsMinimum
CHECK_DEADLOCK FALSE
