\* One message with a limit of one attempt whose workers stop.
CONSTANTS
  Ids = {m1}
  NoKey = NoKey
  KeyOf <- MCNoKeys
  BatchSize = 2
  LeaseDuration = 1
  Ordered = FALSE
  ClearPayloadOnComplete = TRUE
  Retention = 0
  DeadRetention = 0
  DiscardRetention = 0
  MaxSkew = 0
  MaxClock = 3
  MaxSeq = 2
  MaxToken = 2
  Workers = {w1, w2}
  MaxAttempts = 1
  Unset = Unset
  MaxAttemptsOf <- MCNoLimits
  Backoff <- MCBackoff
  RetryDelays = {1}
SPECIFICATION Spec
INVARIANTS AttemptCeiling
CHECK_DEADLOCK FALSE
