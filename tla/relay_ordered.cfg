\* Two workers on one partition key in ordered mode; ids are cleaned up and used
\* again.
CONSTANTS
  Ids = {m1, m2}
  NoKey = NoKey
  KeyOf <- MCOneKey
  BatchSize = 2
  LeaseDuration = 1
  Ordered = TRUE
  ClearPayloadOnComplete = TRUE
  Retention = 1
  DeadRetention = 1
  DiscardRetention = 0
  MaxSkew = 0
  MaxClock = 5
  MaxSeq = 3
  MaxToken = 3
  Workers = {w1, w2}
  MaxAttempts = 2
  Unset = Unset
  MaxAttemptsOf <- MCOneAttempt
  Backoff <- MCBackoff
  RetryDelays = {1}
SPECIFICATION Spec
INVARIANTS OrderedDelivery OneAttemptPerKey PublishedWasDelivered IInv
PROPERTIES ImplementsQueue NothingDropped
SYMMETRY MCSymmetry
CHECK_DEADLOCK FALSE
