\* As tx_ordered: the strict order the README promises, over all transactions.
CONSTANTS
  Ids = {m1, m2}
  NoKey = NoKey
  KeyOf <- MCOneKey
  BatchSize = 2
  LeaseDuration = 1
  Ordered = TRUE
  ClearPayloadOnComplete = FALSE
  Retention = 0
  DeadRetention = 1
  DiscardRetention = 0
  MaxSkew = 0
  MaxClock = 4
  MaxSeq = 3
  MaxToken = 2
  Workers = {w1}
  MaxAttempts = 1
  Unset = Unset
  MaxAttemptsOf <- MCNoLimits
  Backoff <- MCBackoff
  RetryDelays = {}
  Callers = {c1, c2}
  MaxTx = 3
SPECIFICATION TxSpec
INVARIANTS OrderedDelivery
CHECK_DEADLOCK FALSE
