\* Two callers enqueue the same two ids in one transaction each.
CONSTANTS
  Ids = {m1, m2}
  NoKey = NoKey
  KeyOf <- MCOneKey
  BatchSize = 2
  LeaseDuration = 1
  Ordered = TRUE
  ClearPayloadOnComplete = FALSE
  Retention = 0
  DeadRetention = 1
  DiscardRetention = 0
  MaxSkew = 0
  MaxClock = 1
  MaxSeq = 4
  MaxToken = 0
  Workers = {w1}
  MaxAttempts = 1
  Unset = Unset
  MaxAttemptsOf <- MCNoLimits
  Backoff <- MCBackoff
  RetryDelays = {}
  Callers = {c1, c2}
  MaxTx = 2
SPECIFICATION TxSpec
INVARIANTS DuplicateNeverAborts
CHECK_DEADLOCK FALSE
