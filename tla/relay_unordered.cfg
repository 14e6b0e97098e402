\* Two workers, two messages without a partition key, batches of two.
CONSTANTS
  Ids = {m1, m2}
  NoKey = NoKey
  KeyOf <- MCNoKeys
  BatchSize = 2
  LeaseDuration = 1
  Ordered = FALSE
  ClearPayloadOnComplete = TRUE
  Retention = 0
  DeadRetention = 0
  DiscardRetention = 0
  MaxSkew = 1
  MaxClock = 3
  MaxSeq = 2
  MaxToken = 2
  Workers = {w1, w2}
  MaxAttempts = 2
  Unset = Unset
  MaxAttemptsOf <- MCNoLimits
  Backoff <- MCBackoff
  RetryDelays = {2}
SPECIFICATION Spec
INVARIANTS TypeOK DataUntilSettled RetryBelowCeiling
PROPERTIES LiveAttemptIsFenced ExpiredIsFinal RetryNotEarly
SYMMETRY MCSymmetry
CHECK_DEADLOCK FALSE
