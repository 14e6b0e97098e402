----------------------------- MODULE ExpBackoff -----------------------------
(***************************************************************************)
(* backoff.Exp over a row's successive attempts, in W-bit signed Durations *)
(* (W is 64 in the code).                                                  *)
(***************************************************************************)
EXTENDS Integers

CONSTANTS W, MaxAttempt   \* width of a Duration; bound of the attempt count

ASSUME BackoffAssumption == W \in Nat /\ W > 2 /\ MaxAttempt \in Nat

VARIABLES
  base, maxDelay, jitter,   \* the arguments of Exp
  attempts,                 \* the row's attempt count
  delay, panicked           \* the delay computed after that attempt, or a panic

expVars == <<base, maxDelay, jitter, attempts, delay, panicked>>

Longest == 2^(W - 1) - 1
Duration == -(2^(W - 1)) .. Longest

\* The two's complement value of the low W bits.
Wrapped(x) == ((x + 2^(W - 1)) % (2^W)) - 2^(W - 1)

\* The attempt count less one, held within 0 .. W - 2.
Shift(n) == IF n < 1 THEN 0 ELSE IF n - 1 > W - 2 THEN W - 2 ELSE n - 1

\* Defect: a wrapped product is not noticed.
Computed_NoOverflowCheck(b, m, n) ==
  LET d == Wrapped(b * 2^Shift(n))
  IN  IF m > 0 /\ d > m THEN m ELSE d

\* Defect: the first delay is already doubled.
Computed_DoublesFirst(b, m, n) ==
  LET d == Wrapped(b * 2^Shift(n + 1))
      e == IF d < b THEN m ELSE d
  IN  IF m > 0 /\ e > m THEN m ELSE e

\* The delay before jitter.
Computed(b, m, n) ==
  LET d == Wrapped(b * 2^Shift(n))
      e == IF d < b THEN m ELSE d
  IN  IF m > 0 /\ e > m THEN m ELSE e

\* rand.Int64N: the numbers below n, one of which it draws.  It panics when there
\* is none.
Int64N(n) == 0 .. n - 1

\* The delays Exp may return, none if it panics: the sum is a Duration too.
Exp(b, m, j, n) ==
  LET d == Computed(b, m, n)
  IN  IF j /\ d > 0 THEN Int64N(Wrapped(d + 1)) ELSE {d}

ExpInit ==
  /\ base \in Duration /\ maxDelay \in Duration /\ jitter \in BOOLEAN
  /\ attempts = 0
  /\ delay = 0 /\ panicked = FALSE

\* The row fails once more.  A panic stops the relay, and the row is attempted
\* again after its lease.
Fail ==
  /\ attempts < MaxAttempt
  /\ attempts' = attempts + 1
  /\ LET delays == Exp(base, maxDelay, jitter, attempts')
     IN  /\ panicked' = (delays = {})
         /\ delay' \in IF delays = {} THEN {0} ELSE delays
  /\ UNCHANGED <<base, maxDelay, jitter>>

ExpSpec == ExpInit /\ [][Fail]_expVars

-----------------------------------------------------------------------------
\* A cap is kept whatever the arguments and however far the product has
\* overflowed; a base that is not negative gives no negative delay, and without
\* jitter a delay never falls below its base, unless the cap does.  Under a cap
\* Exp panics only with jitter, and only if the cap is the longest Duration.
WithinCap ==
  attempts > 0 /\ maxDelay > 0
    => IF panicked THEN jitter /\ maxDelay = Longest
       ELSE /\ delay <= maxDelay
            /\ base >= 0 => delay >= 0
            /\ ~jitter => delay >= base \/ delay = maxDelay

\* As long as the doubled base fits a Duration the delay is exactly that, or
\* the cap.
ExactWhileItFits ==
  LET d == base * 2^(attempts - 1)
  IN  attempts > 0 /\ base > 0 /\ ~jitter /\ d < 2^(W - 1)
        => delay = IF maxDelay > 0 /\ d > maxDelay THEN maxDelay ELSE d

\* Exp documents base doubled each attempt and 0 as no cap: without a cap and
\* without jitter no attempt is delayed by less than the base.
UncappedAtLeastBase ==
  attempts > 0 /\ maxDelay = 0 /\ ~jitter => delay >= base

=============================================================================
