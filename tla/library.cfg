\* Three options; two calls of one or two messages; three errors made of each other;
\* every base and cap of a 5-bit Duration; two workers on every source of three delays;
\* batches of four through every adapter, with every order of every set of headers; two
\* instances that upgrade a fresh or a v1.0 table while rows come and go.
CONSTANTS
  Parts = {"config", "facade", "outcomes", "backoff", "adapters", "publishers", "migrations"}
  MaxOptions = 3
  Generated = {"g1", "g2"}
  MaxCalls = 2
  Ids = {m1, m2}
  Delays = {1, 2}
  MaxErrors = 3
  W = 5
  MaxAttempt = 8
  Callers = {1, 2}
  MaxDelays = 3
  N = 4
  HeaderNames = {"trace", "payload", "id", "content-type"}
  NatsFlush = TRUE
  Instances = {p1, p2}
  Rows = {r1, r2}
  Retention = 1
  MaxClock = 4
SPECIFICATION Spec
INVARIANTS Runnable LastOptionDecides SafeByDefault ReadsBackFirst
INVARIANTS DocumentedPrecedence MapOrderDecidesNothing AbortSticks
INVARIANTS WithinCap ExactWhileItFits DelayOfAttempt NothingHidden RelayFindsSchema
PROPERTIES AllOrNothing ImplementsContract RetentionRespected TerminalTimeKept
CHECK_DEADLOCK FALSE
