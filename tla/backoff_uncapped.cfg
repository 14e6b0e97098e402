\* What the documentation of Exp says about a zero cap.
CONSTANTS
  Parts = {"backoff"}
  MaxOptions = 3
  Generated = {"g1", "g2"}
  MaxCalls = 2
  Ids = {m1, m2}
  Delays = {1, 2}
  MaxErrors = 3
  W = 5
  MaxAttempt = 8
  Callers = {1, 2}
  MaxDelays = 3
  N = 4
  HeaderNames = {"trace", "payload", "id", "content-type"}
  NatsFlush = TRUE
  Instances = {p1, p2}
  Rows = {r1, r2}
  Retention = 1
  MaxClock = 4
SPECIFICATION Spec
INVARIANTS UncappedAtLeastBase
CHECK_DEADLOCK FALSE
