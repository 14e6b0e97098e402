--------------------------- MODULE LibraryProofs ---------------------------
(***************************************************************************)
(* Proofs about the sequential parts of the library, ExpBackoff,           *)
(* BackoffAdapters, Config, Facade and Outcomes, for every width of a      *)
(* Duration and any number of attempts, workers, options, calls and        *)
(* errors.                                                                 *)
(*                                                                         *)
(* Inductions over numbers are by the least counterexample (LeastNat), and *)
(* the laws of powers of two by counting subsets.                          *)
(***************************************************************************)
EXTENDS Config, Facade, Outcomes, ExpBackoff, BackoffAdapters, TLAPS,
        FunctionTheorems, FiniteSetTheorems, WellFoundedInduction

\* A set of natural numbers that is not empty has a least element.
LEMMA LeastNat ==
  ASSUME NEW T \in SUBSET Nat, T # {}
  PROVE  \E x \in T : \A y \in T : x <= y
<1> DEFINE R == OpToRel(<, Nat)
<1>1. IsWellFoundedOn(R, Nat)
  BY NatLessThanWellFounded
<1>2. \A x, y \in Nat : x < y => <<x, y>> \in R
  BY DEF OpToRel
<1> HIDE DEF R
<1>3. PICK x \in T : \A y \in T : ~(<<y, x>> \in R)
  BY <1>1, WFMin, Zenon
<1>4. \A y \in T : ~(y < x)
  BY <1>2, <1>3
<1>5. \A y \in T : x <= y
  BY <1>4
<1> QED BY <1>5

-----------------------------------------------------------------------------
(***************************************************************************)
(* Powers of two and two's complement                                      *)
(***************************************************************************)

\* 2^n is the number of subsets of 1 .. n.
LEMMA PowCard ==
  ASSUME NEW n \in Nat
  PROVE  IsFiniteSet(SUBSET (1 .. n)) /\ Cardinality(SUBSET (1 .. n)) = 2^n
<1>1. IsFiniteSet(1 .. n) /\ Cardinality(1 .. n) = n
  BY FS_Interval
<1> QED BY <1>1, FS_SUBSET

\* Powers of two are positive: they count subsets, and there is always one.
LEMMA PowPositive ==
  ASSUME NEW n \in Nat
  PROVE 2^n \in Nat /\ 2^n > 0
<1>1. {} \in SUBSET (1 .. n)
  OBVIOUS
<1> DEFINE S == SUBSET (1 .. n)
<1>2. IsFiniteSet(S) /\ Cardinality(S) = 2^n /\ S # {}
  BY <1>1, PowCard
<1>3. Cardinality(S) \in Nat
  BY <1>2, FS_CardinalityType, Zenon
<1>4. Cardinality(S) # 0
  BY <1>2, FS_EmptySet, Zenon
<1> HIDE DEF S
<1> QED BY <1>2, <1>3, <1>4

\* A set has no more subsets than one it is part of.
LEMMA PowMonotone ==
  ASSUME NEW n \in Nat, NEW m \in Nat, n <= m
  PROVE  2^n <= 2^m
<1>1. SUBSET (1 .. n) \in SUBSET (SUBSET (1 .. m))
  OBVIOUS
<1>. DEFINE S == SUBSET (1 .. m)  T == SUBSET (1 .. n)
<1>2. IsFiniteSet(S) /\ T \in SUBSET S
  BY <1>1, PowCard
<1>3. Cardinality(T) <= Cardinality(S)
  BY <1>2, FS_Subset, Zenon
<1> QED BY <1>3, PowCard

\* Adding n + 1 to a subset of 1 .. n, or not, gives every subset of 1 .. n + 1.
LEMMA PowDouble ==
  ASSUME NEW n \in Nat
  PROVE  2^(n + 1) = 2^n + 2^n
<1> DEFINE S == SUBSET (1 .. n)
           T == {A \in SUBSET (1 .. n + 1) : n + 1 \in A}
           f == [A \in S |-> A \cup {n + 1}]
<1>1. f \in Bijection(S, T)
  <2>1. f \in [S -> T]
    OBVIOUS
  <2>2. \A a, b \in S : f[a] = f[b] => a = b
    OBVIOUS
  <2>3. \A t \in T : \E a \in S : f[a] = t
    <3> SUFFICES ASSUME NEW t \in T PROVE \E a \in S : f[a] = t
      OBVIOUS
    <3>1. t \ {n + 1} \in S /\ f[t \ {n + 1}] = t
      OBVIOUS
    <3> QED BY <3>1
  <2> QED BY <2>1, <2>2, <2>3 DEF Bijection, Injection, Surjection, IsInjective
<1>2. IsFiniteSet(S) /\ Cardinality(S) = 2^n
  BY PowCard
<1>3. IsFiniteSet(T) /\ Cardinality(T) = 2^n
  BY <1>1, <1>2, FS_Bijection DEF ExistsBijection
<1>4. S \cup T = SUBSET (1 .. n + 1)
  OBVIOUS
<1>5. S \cap T = {}
  OBVIOUS
<1>6. Cardinality(S \cup T) = Cardinality(S) + Cardinality(T) - Cardinality(S \cap T)
  BY <1>2, <1>3, FS_Union, Zenon
<1>7. Cardinality(SUBSET (1 .. n + 1)) = 2^(n + 1)
  BY PowCard
<1>8. Cardinality(S \cap T) = 0
  BY <1>5, FS_EmptySet
<1>9. Cardinality(S \cup T) = 2^(n + 1)
  BY <1>4, <1>7
<1>10. 2^n \in Nat /\ 2^(n + 1) \in Nat
  BY PowPositive
<1> HIDE DEF S, T
<1> QED BY <1>2, <1>3, <1>6, <1>8, <1>9, <1>10

-----------------------------------------------------------------------------
(***************************************************************************)
(* ExpBackoff                                                              *)
(***************************************************************************)

\* The two's complement value of a number that fits is the number.
LEMMA WrappedFits ==
  ASSUME NEW x \in Nat, x < 2^(W - 1)
  PROVE  Wrapped(x) = x
<1>1. W - 1 \in Nat
  BY BackoffAssumption
<1>2. 2^W = 2^(W - 1) + 2^(W - 1)
  BY <1>1, PowDouble, BackoffAssumption
<1> DEFINE h == 2^(W - 1)
<1>3. h \in Nat
  BY <1>1, PowPositive
<1>4. Wrapped(x) = ((x + h) % (h + h)) - h
  BY <1>2 DEF Wrapped
<1> HIDE DEF h
<1>5. x + h \in Nat /\ x + h < h + h /\ h + h \in Nat
  BY <1>3 DEF h
<1>6. (x + h) % (h + h) = x + h
  BY <1>5
<1> QED BY <1>3, <1>4, <1>6

\* What a product wraps to is an integer.
LEMMA WrappedType ==
  ASSUME NEW x \in Int
  PROVE  Wrapped(x) \in Int
<1>1. W \in Nat /\ W - 1 \in Nat
  BY BackoffAssumption
<1> DEFINE h == 2^(W - 1)  q == 2^W
<1>2. h \in Nat /\ q \in Nat /\ q > 0
  BY <1>1, PowPositive
<1>3. Wrapped(x) = ((x + h) % q) - h
  BY DEF Wrapped
<1> HIDE DEF h, q
<1>4. (x + h) % q \in Int
  BY <1>2
<1> QED BY <1>2, <1>3, <1>4

\* The shift is not negative.
LEMMA ShiftType ==
  ASSUME NEW n \in Nat
  PROVE  Shift(n) \in Nat
  BY BackoffAssumption DEF Shift

\* A wrapped value is a Duration, the two's complement values of W bits.
LEMMA WrappedRange ==
  ASSUME NEW x \in Int
  PROVE  Wrapped(x) \in Duration
<1>1. W \in Nat /\ W - 1 \in Nat
  BY BackoffAssumption
<1> DEFINE h == 2^(W - 1)
<1>2. h \in Nat /\ h > 0
  BY <1>1, PowPositive
<1>3. 2^W = h + h
  BY <1>1, PowDouble, BackoffAssumption
<1>4. Wrapped(x) = ((x + h) % (h + h)) - h
  BY <1>3 DEF Wrapped
<1>5. Duration = -h .. h - 1
  BY DEF Duration, Longest
<1> HIDE DEF h
<1>6. (x + h) % (h + h) \in 0 .. h + h - 1
  BY <1>2
<1> QED BY <1>2, <1>4, <1>5, <1>6

\* What Exp computes, with the cap and without: whatever the shifted product
\* wrapped to, a value below the base is replaced.
LEMMA ComputedFacts ==
  ASSUME NEW b \in Int, NEW m \in Int, NEW n \in Nat
  PROVE  /\ Computed(b, m, n) \in Int
         /\ m > 0 => /\ Computed(b, m, n) <= m
                     /\ b >= 0 => Computed(b, m, n) >= 0
                     /\ Computed(b, m, n) >= b \/ Computed(b, m, n) = m
<1> DEFINE w == Wrapped(b * 2^Shift(n))
<1>1. 2^Shift(n) \in Nat
  BY ShiftType, PowPositive
<1>2. w \in Int
  BY <1>1, WrappedType
<1>3. Computed(b, m, n) = LET e == IF w < b THEN m ELSE w
                          IN  IF m > 0 /\ e > m THEN m ELSE e
  BY DEF Computed
<1> HIDE DEF w
<1> QED BY <1>2, <1>3

\* The row's delay is always one that Exp may return for its attempt count.
ExpInv ==
  /\ base \in Duration /\ maxDelay \in Duration /\ jitter \in BOOLEAN
  /\ attempts \in Nat
  /\ panicked \in BOOLEAN
  /\ attempts > 0 => IF panicked THEN Exp(base, maxDelay, jitter, attempts) = {}
                     ELSE delay \in Exp(base, maxDelay, jitter, attempts)

\* Every delay is one that Exp may return for its attempt.
LEMMA ExpInvariance == ExpSpec => []ExpInv
<1>1. ExpInit => ExpInv
  <2> SUFFICES ASSUME ExpInit PROVE ExpInv
    OBVIOUS
  <2>1. attempts = 0 /\ panicked = FALSE
    BY DEF ExpInit
  <2>2. panicked \in BOOLEAN
    BY <2>1, Zenon
  <2>3. attempts \in Nat /\ ~(attempts > 0)
    BY <2>1
  <2> QED BY <2>2, <2>3, Zenon DEF ExpInit, ExpInv
<1>2. ExpInv /\ [Fail]_expVars => ExpInv'
  <2> SUFFICES ASSUME ExpInv, [Fail]_expVars PROVE ExpInv'
    OBVIOUS
  <2>1. CASE Fail
    <3> DEFINE E == Exp(base, maxDelay, jitter, attempts')
    <3>1. Exp(base', maxDelay', jitter', attempts') = E
      BY <2>1 DEF Fail
    <3>2. panicked' = (E = {}) /\ delay' \in IF E = {} THEN {0} ELSE E
      BY <2>1 DEF Fail
    <3>3. attempts' \in Nat /\ UNCHANGED <<base, maxDelay, jitter>>
      BY <2>1 DEF Fail, ExpInv
    <3> HIDE DEF E
    <3>4. panicked' \in BOOLEAN /\ (IF panicked' THEN E = {} ELSE delay' \in E)
      BY <3>2
    <3> QED BY <3>1, <3>3, <3>4 DEF ExpInv
  <2>2. CASE UNCHANGED expVars
    BY <2>2 DEF ExpInv, expVars
  <2> QED BY <2>1, <2>2
<1> QED BY <1>1, <1>2, PTL DEF ExpSpec

\* A delay never exceeds its cap, is negative only for a negative base, and is
\* there unless jitter is drawn below a cap of the longest Duration: for any width
\* of the Duration, any arguments of Exp and however many attempts have overflowed.
THEOREM CapKept == ExpSpec => []WithinCap
<1>1. ExpInv => WithinCap
  <2> SUFFICES ASSUME ExpInv, attempts > 0, maxDelay > 0
               PROVE  IF panicked THEN jitter /\ maxDelay = Longest
                      ELSE /\ delay <= maxDelay
                           /\ base >= 0 => delay >= 0
                           /\ ~jitter => delay >= base \/ delay = maxDelay
    BY DEF WithinCap
  <2> DEFINE c == Computed(base, maxDelay, attempts)  s == Wrapped(c + 1)
  <2>0. W - 1 \in Nat
    BY BackoffAssumption
  <2>1. 2^(W - 1) \in Nat /\ Longest = 2^(W - 1) - 1
    BY <2>0, PowPositive DEF Longest
  <2>2. base \in Int /\ maxDelay \in Int /\ maxDelay <= Longest /\ Longest \in Int
    BY <2>1 DEF ExpInv, Duration
  <2>3. /\ c \in Int /\ c <= maxDelay
        /\ base >= 0 => c >= 0
        /\ c >= base \/ c = maxDelay
    BY <2>2, ComputedFacts DEF ExpInv
  <2>4. s \in Int /\ s <= Longest
    <3>1. s \in Duration
      BY <2>3, WrappedRange
    <3> QED BY <2>1, <3>1 DEF Duration
  <2>5. c > 0 /\ c < Longest => s = c + 1
    <3> SUFFICES ASSUME c > 0, c < Longest PROVE s = c + 1
      OBVIOUS
    <3>1. c + 1 \in Nat /\ c + 1 < 2^(W - 1)
      BY <2>1, <2>3
    <3> QED BY <3>1, WrappedFits
  <2>6. Exp(base, maxDelay, jitter, attempts)
          = IF jitter /\ c > 0 THEN 0 .. s - 1 ELSE {c}
    BY DEF Exp, Int64N
  <2>7. IF panicked THEN (IF jitter /\ c > 0 THEN 0 .. s - 1 ELSE {c}) = {}
        ELSE delay \in (IF jitter /\ c > 0 THEN 0 .. s - 1 ELSE {c})
    BY <2>6 DEF ExpInv
  <2>8. jitter \in BOOLEAN /\ panicked \in BOOLEAN
    BY DEF ExpInv
  <2> HIDE DEF c, s
  <2>9. CASE panicked
    <3>1. jitter /\ c > 0 /\ 0 .. s - 1 = {}
      BY <2>7, <2>9
    <3>2. ~(c < Longest)
      <4> SUFFICES ASSUME c < Longest PROVE FALSE
        OBVIOUS
      <4>1. 0 \in 0 .. s - 1
        BY <2>3, <2>5, <3>1
      <4> QED BY <3>1, <4>1
    <3> QED BY <2>2, <2>3, <2>9, <3>1, <3>2
  <2>10. CASE ~panicked /\ jitter /\ c > 0
    <3>1. delay \in 0 .. s - 1
      BY <2>7, <2>10
    <3>2. c < Longest \/ maxDelay = Longest
      BY <2>2, <2>3
    <3> QED BY <2>2, <2>3, <2>4, <2>5, <2>10, <3>1, <3>2
  <2>11. CASE ~panicked /\ ~(jitter /\ c > 0)
    <3>1. delay = c
      BY <2>7, <2>11
    <3> QED BY <2>3, <2>11, <3>1
  <2> QED BY <2>8, <2>9, <2>10, <2>11
<1> QED BY <1>1, ExpInvariance, PTL

\* Until the doubled base no longer fits, the delay is the doubled base, or the
\* cap: the shift count is clamped only where the product would not fit anyway.
THEOREM ExactUntilOverflow == ExpSpec => []ExactWhileItFits
<1>1. ExpInv => ExactWhileItFits
  <2> DEFINE x == base * 2^(attempts - 1)
  <2> SUFFICES ASSUME ExpInv, attempts > 0, base > 0, ~jitter, x < 2^(W - 1)
               PROVE  delay = IF maxDelay > 0 /\ x > maxDelay THEN maxDelay ELSE x
    BY DEF ExactWhileItFits
  <2>0. attempts - 1 \in Nat /\ W - 1 \in Nat
    BY BackoffAssumption DEF ExpInv
  <2>1. base \in Nat \ {0} /\ maxDelay \in Int /\ attempts - 1 \in Nat /\ W - 1 \in Nat
    BY <2>0, PowPositive DEF ExpInv, Duration, Longest
  <2> DEFINE p == 2^(attempts - 1)  h == 2^(W - 1)
  <2>2. p \in Nat \ {0} /\ h \in Nat
    BY <2>1, PowPositive
  <2>3. x = base * p
    OBVIOUS
  <2>4. p <= x /\ base <= x /\ x \in Nat
    <3> HIDE DEF p
    <3> QED BY <2>1, <2>2, <2>3
  <2>5. ~(attempts - 1 > W - 2)
    <3> SUFFICES ASSUME attempts - 1 > W - 2 PROVE FALSE
      OBVIOUS
    <3>1. W - 1 <= attempts - 1
      BY <2>1, BackoffAssumption DEF ExpInv
    <3>2. h <= p
      BY <2>1, <3>1, PowMonotone
    <3> HIDE DEF p, h
    <3> QED BY <2>2, <2>4, <3>2 DEF h
  <2>6. Shift(attempts) = attempts - 1
    BY <2>5 DEF Shift, ExpInv
  <2>7. Wrapped(x) = x
    BY <2>4, WrappedFits
  <2> DEFINE v == Wrapped(base * 2^Shift(attempts))
  <2>8. v = x
    BY <2>6, <2>7
  <2>9. delay = LET e == IF v < base THEN maxDelay ELSE v
                IN  IF maxDelay > 0 /\ e > maxDelay THEN maxDelay ELSE e
    <3>1. Exp(base, maxDelay, jitter, attempts) = {Computed(base, maxDelay, attempts)}
      BY DEF Exp
    <3>2. delay = Computed(base, maxDelay, attempts)
      BY <3>1 DEF ExpInv
    <3> QED BY <3>2 DEF Computed
  <2> HIDE DEF x, v
  <2> QED BY <2>1, <2>4, <2>8, <2>9
<1> QED BY <1>1, ExpInvariance, PTL

-----------------------------------------------------------------------------
(***************************************************************************)
(* BackoffAdapters                                                         *)
(***************************************************************************)

\* Every call walks a source of its own: it has asked it as often as its loop
\* turned, and holds what that source said last.
AdapterInv ==
  /\ source \in [1 .. MaxDelays -> SourceDelays]
  /\ pos \in [Callers \cup {0} -> 0 .. MaxDelays]
  /\ inst = [c \in Callers |-> c]
  /\ at \in [Callers -> {"idle", "loop", "done"}]
  /\ attempt \in [Callers -> 1 .. MaxDelays]
  /\ i \in [Callers -> 0 .. MaxDelays]
  /\ d \in [Callers -> SourceDelays]
  /\ \A c \in Callers : at[c] = "loop" =>
       /\ i[c] <= attempt[c] /\ pos[c] = i[c]
       /\ \A k \in 1 .. i[c] : source[k] # Stop
       /\ i[c] > 0 => d[c] = source[i[c]]
  /\ DelayOfAttempt

\* Every call of an adapter, and every step within one, keeps its invariant.
LEMMA AdapterStep == AdapterInv /\ [AdaptersNext]_adapterVars => AdapterInv'
<1> SUFFICES ASSUME AdapterInv, [AdaptersNext]_adapterVars PROVE AdapterInv'
  OBVIOUS
<1> USE AdaptersAssumption DEF AdapterInv
<1>1. ASSUME NEW c \in Callers, Ask(c) PROVE AdapterInv'
  <2>1. PICK a \in 0 .. MaxDelays : attempt' = [attempt EXCEPT ![c] = AtLeastOne(a)]
    BY <1>1 DEF Ask
  <2>2. AtLeastOne(a) \in 1 .. MaxDelays
    BY DEF AtLeastOne
  <2>3. inst' = inst
    BY <1>1 DEF Ask, NewB
  <2>4. 0 \in SourceDelays
    BY DEF SourceDelays
  <2> QED BY <1>1, <2>1, <2>2, <2>3, <2>4 DEF Ask, NewB, DelayOfAttempt
<1>2. ASSUME NEW c \in Callers, Advance(c) PROVE AdapterInv'
  <2> DEFINE n == i[c] + 1
  <2>1. at[c] = "loop" /\ i[c] < attempt[c] /\ inst[c] = c /\ pos[c] = i[c]
    BY <1>2 DEF Advance
  <2>2. n \in 1 .. attempt[c] /\ n \in 1 .. MaxDelays /\ source[n] \in SourceDelays
    BY <2>1
  <2>3. /\ pos' = [pos EXCEPT ![c] = n]
        /\ i' = [i EXCEPT ![c] = n]
        /\ d' = [d EXCEPT ![c] = IF source[n] = Stop THEN 0 ELSE source[n]]
        /\ at' = [at EXCEPT ![c] = IF source[n] = Stop THEN "done" ELSE "loop"]
        /\ UNCHANGED <<source, inst, attempt>>
    <3>1. (IF pos[inst[c]] < MaxDelays THEN pos[inst[c]] + 1 ELSE MaxDelays) = n
      BY <2>1, <2>2
    <3>2. [i EXCEPT ![c] = @ + 1] = [i EXCEPT ![c] = n]
      OBVIOUS
    <3> HIDE DEF n
    <3> QED BY <1>2, <2>1, <3>1, <3>2 DEF Advance
  <2> HIDE DEF n
  <2>4. 0 \in SourceDelays
    BY DEF SourceDelays
  <2>5. \A k \in 1 .. n : k = n \/ k \in 1 .. i[c]
    BY <2>2 DEF n
  <2>6. ASSUME NEW e \in Callers, at'[e] = "loop"
        PROVE  /\ i'[e] <= attempt'[e] /\ pos'[e] = i'[e]
               /\ \A k \in 1 .. i'[e] : source'[k] # Stop
               /\ i'[e] > 0 => d'[e] = source'[i'[e]]
    <3>1. CASE e = c
      BY <2>1, <2>2, <2>3, <2>5, <2>6, <3>1
    <3>2. CASE e # c
      BY <2>3, <2>6, <3>2
    <3> QED BY <3>1, <3>2
  <2>7. DelayOfAttempt'
    BY <2>1, <2>2, <2>3 DEF DelayOfAttempt
  <2> QED BY <2>2, <2>3, <2>4, <2>6, <2>7
<1>3. ASSUME NEW c \in Callers, Answer(c) PROVE AdapterInv'
  <2>1. i[c] = attempt[c] /\ attempt[c] > 0 /\ attempt[c] \in 1 .. attempt[c]
    BY <1>3 DEF Answer
  <2>2. d[c] = IF \E k \in 1 .. attempt[c] : source[k] = Stop
               THEN 0 ELSE source[attempt[c]]
    BY <1>3, <2>1 DEF Answer
  <2> QED BY <1>3, <2>2 DEF Answer, DelayOfAttempt
<1>4. CASE UNCHANGED adapterVars
  BY <1>4 DEF adapterVars, DelayOfAttempt
<1> QED BY <1>1, <1>2, <1>3, <1>4 DEF AdaptersNext

\* A Backoff made from a stateful source answers for the attempt it was asked
\* about, for any number of workers that call it at once in any order.
THEOREM DelayOfAttemptAlone == AdaptersSpec => []DelayOfAttempt
<1>1. AdaptersInit => AdapterInv
  <2> SUFFICES ASSUME AdaptersInit PROVE AdapterInv
    OBVIOUS
  <2>1. 0 \in SourceDelays /\ 0 \in 0 .. MaxDelays /\ 1 \in 1 .. MaxDelays
    BY AdaptersAssumption DEF SourceDelays
  <2> QED BY <2>1 DEF AdaptersInit, AdapterInv, DelayOfAttempt
<1>2. AdapterInv => DelayOfAttempt
  BY DEF AdapterInv
<1> QED BY <1>1, <1>2, AdapterStep, PTL DEF AdaptersSpec

-----------------------------------------------------------------------------
(***************************************************************************)
(* Config                                                                  *)
(***************************************************************************)

\* The settings after n options exist: for any bound m there is a function that
\* satisfies the recursion up to m, the one up to m - 1 extended.
LEMMA AppliedExists ==
  ASSUME NEW m \in Nat
  PROVE  \E g : g = [n \in 0 .. m |-> IF n = 0 THEN Default ELSE Apply(g[n - 1], opts[n])]
<1> DEFINE Good(k, g) ==
             g = [n \in 0 .. k |-> IF n = 0 THEN Default ELSE Apply(g[n - 1], opts[n])]
           Bad == {k \in Nat : ~ \E g : Good(k, g)}
<1> SUFFICES ASSUME Bad # {} PROVE FALSE
  OBVIOUS
<1>1. PICK k \in Bad : \A l \in Bad : k <= l
  BY LeastNat
<1>2. CASE k = 0
  <2> DEFINE g == [n \in 0 .. 0 |-> Default]
  <2>1. Good(0, g)
    OBVIOUS
  <2> QED BY <1>2, <2>1
<1>3. CASE k > 0
  <2>1. k - 1 \in Nat \ Bad
    BY <1>1, <1>3
  <2>2. PICK g : Good(k - 1, g)
    BY <2>1
  <2> DEFINE h == [n \in 0 .. k |-> IF n = k THEN Apply(g[k - 1], opts[k]) ELSE g[n]]
  <2>3. \A n \in 0 .. k - 1 : h[n] = g[n]
    BY <1>3
  <2>4. \A n \in 0 .. k - 1 :
          g[n] = IF n = 0 THEN Default ELSE Apply(g[n - 1], opts[n])
    BY <2>2
  <2>5. ASSUME NEW n \in 0 .. k
        PROVE  h[n] = IF n = 0 THEN Default ELSE Apply(h[n - 1], opts[n])
    <3>1. CASE n = k
      <4>1. h[n - 1] = g[k - 1]
        BY <1>3, <2>3, <3>1
      <4> HIDE DEF Good
      <4> QED BY <1>3, <3>1, <4>1
    <3>2. CASE n # k
      <4>1. n \in 0 .. k - 1 /\ (n # 0 => n - 1 \in 0 .. k - 1)
        BY <3>2
      <4> HIDE DEF h
      <4> QED BY <2>3, <2>4, <4>1
    <3> QED BY <3>1, <3>2
  <2>6. Good(k, h)
    BY <2>5
  <2> QED BY <2>6
<1> QED BY <1>2, <1>3

\* The recursive definition of Applied is the function it describes.
LEMMA AppliedDef ==
  ASSUME NEW n \in 0 .. MaxOptions
  PROVE  Applied[n] = IF n = 0 THEN Default ELSE Apply(Applied[n - 1], opts[n])
<1>1. Applied = [k \in 0 .. MaxOptions |->
                   IF k = 0 THEN Default ELSE Apply(Applied[k - 1], opts[k])]
  BY AppliedExists, ConfigAssumption DEF Applied
<1> QED BY <1>1, Zenon

\* Option k is the last of the first n to give f a value.
Decides(k, n, f) ==
  /\ k \in 1 .. n /\ Given(opts[k], f)
  /\ \A j \in k + 1 .. n : ~Given(opts[j], f)

\* Whatever options come between, a setting has the value of the last option
\* that gave it one, or its default.
Decided(n, f) ==
  \/ /\ \A j \in 1 .. n : ~Given(opts[j], f)
     /\ Applied[n][f] = Default[f]
  \/ \E k \in 1 .. n : Decides(k, n, f) /\ Applied[n][f] = opts[k][f]

\* By induction over the options: there is no least counterexample.
LEMMA AppliedDecided ==
  ASSUME NEW f \in Fields, NEW m \in 0 .. MaxOptions
  PROVE  Decided(m, f)
<1> DEFINE Bad == {n \in 0 .. MaxOptions : ~Decided(n, f)}
<1> SUFFICES ASSUME Bad # {} PROVE FALSE
  OBVIOUS
<1>0. Bad \in SUBSET Nat
  BY ConfigAssumption
<1>1. PICK n \in Bad : \A l \in Bad : n <= l
  BY <1>0, LeastNat, Zenon
<1>2. n \in 0 .. MaxOptions /\ n \in Nat
  OBVIOUS
<1>3. CASE n = 0
  <2>1. Applied[n] = Default
    BY <1>2, <1>3, AppliedDef
  <2> QED BY <1>3, <2>1 DEF Decided
<1>4. CASE n > 0
  <2>1. n - 1 \in 0 .. MaxOptions /\ Decided(n - 1, f)
    BY <1>1, <1>4, ConfigAssumption
  <2>2. Applied[n] = Apply(Applied[n - 1], opts[n])
    BY <1>2, <1>4, AppliedDef
  <2>3. Applied[n][f] = IF Given(opts[n], f) THEN opts[n][f] ELSE Applied[n - 1][f]
    BY <2>2 DEF Apply
  <2>4. \A j \in 1 .. n : j = n \/ j \in 1 .. n - 1
    BY <1>2
  <2>5. CASE Given(opts[n], f)
    <3>1. Decides(n, n, f)
      BY <1>2, <1>4, <2>5 DEF Decides
    <3> QED BY <1>2, <1>4, <2>3, <2>5, <3>1 DEF Decided
  <2>6. CASE ~Given(opts[n], f)
    <3>1. CASE \A j \in 1 .. n - 1 : ~Given(opts[j], f)
      BY <2>1, <2>3, <2>4, <2>6, <3>1 DEF Decided, Decides
    <3>2. ASSUME NEW k \in 1 .. n - 1, Decides(k, n - 1, f), Applied[n - 1][f] = opts[k][f]
          PROVE  Decided(n, f)
      <4>1. Decides(k, n, f) /\ k \in 1 .. n
        BY <1>2, <2>6, <3>2 DEF Decides
      <4> QED BY <2>3, <2>6, <3>2, <4>1 DEF Decided
    <3> QED BY <2>1, <3>1, <3>2 DEF Decided
  <2> QED BY <2>5, <2>6
<1> QED BY <1>2, <1>3, <1>4

\* What the options are: each gives fields the code has one of few values.
LEMMA OptionFacts ==
  ASSUME NEW o \in Option, NEW f \in DOMAIN o
  PROVE  /\ f \in Fields
         /\ o[f] \in {-1, 0, 1}
         /\ f \in Required \cup Plugged \cup Flags \cup {"InstanceID"} => o[f] \in {0, 1}
         /\ f = "Notify" /\ o[f] = 0 => o \in {Only("Notify", 0), ConfigOf(1, 1, 1)}
<1>1. CASE o \in Configs
  <2>1. o \in {ConfigOf(0, 0, 0), ConfigOf(1, 1, 1), ConfigOf(-1, 0, -1)}
    BY <1>1 DEF Configs
  <2>2. f \in Declared
    BY <2>1 DEF ConfigOf
  <2>3. f \in Fields /\ f \notin Required \cup Plugged \cup {"InstanceID"}
    BY <2>2 DEF Declared, Fields, Bounded, Optional, Flags, Required, Plugged
  <2>4. o[f] \in {-1, 0, 1}
    BY <2>1, <2>2 DEF ConfigOf
  <2>5. f \in Flags => o[f] \in {0, 1}
    BY <2>1, <2>2 DEF ConfigOf, Flags
  <2>6. f = "Notify" /\ o[f] = 0 => o = ConfigOf(1, 1, 1)
    <3>1. "Notify" \in Declared
      BY DEF Declared, Flags
    <3>2. ConfigOf(0, 0, 0)["Notify"] = 1 - 0
      BY <3>1 DEF ConfigOf
    <3>3. ConfigOf(-1, 0, -1)["Notify"] = 1 - 0
      BY <3>1 DEF ConfigOf
    <3> QED BY <2>1, <3>2, <3>3
  <2> QED BY <2>3, <2>4, <2>5, <2>6
<1>2. CASE o \notin Configs
  <2>1. PICK x, v : /\ o = Only(x, v)
                    /\ \/ x \in Bounded \cup Optional \cup {"Schema"} /\ v \in {-1, 0, 1}
                       \/ x \in {"ClearPayloadOnComplete", "Ordered"} /\ v \in {0, 1}
                       \/ x = "Notify" /\ v = 0
                       \/ x \in Required \cup Plugged \cup {"InstanceID"} /\ v \in {0, 1}
    <3>1. CASE \E x \in Bounded \cup Optional, v \in {-1, 0, 1} : o = Only(x, v)
      BY <3>1
    <3>2. CASE \E x \in {"ClearPayloadOnComplete", "Ordered"}, v \in {0, 1} : o = Only(x, v)
      BY <3>2
    <3>3. CASE o = Only("Notify", 0)
      BY <3>3
    <3>4. CASE \E x \in Required \cup Plugged \cup {"InstanceID"}, v \in {0, 1} :
                 o = Only(x, v)
      BY <3>4
    <3>5. CASE \E v \in {-1, 0, 1} : o = Only("Schema", v)
      BY <3>5
    <3> QED BY <1>2, <3>1, <3>2, <3>3, <3>4, <3>5 DEF Option
  <2>2. f = x /\ o[f] = v
    BY <2>1 DEF Only
  <2>3. f \in Fields /\ o[f] \in {-1, 0, 1}
    BY <2>1, <2>2 DEF Fields, Flags
  <2>4. f \in Required \cup Plugged \cup Flags \cup {"InstanceID"} => o[f] \in {0, 1}
    BY <2>1, <2>2 DEF Bounded, Optional, Flags, Required, Plugged
  <2>5. f = "Notify" /\ o[f] = 0 => o = Only("Notify", 0)
    BY <2>1, <2>2
  <2> QED BY <2>3, <2>4, <2>5
<1> QED BY <1>1, <1>2

ConfigInv == opts \in Seq(Option) /\ Len(opts) <= MaxOptions

\* Options only get appended, up to MaxOptions of them.
LEMMA ConfigInvariance == ConfigSpec => []ConfigInv
<1>1. ConfigInit => ConfigInv
  BY ConfigAssumption DEF ConfigInit, ConfigInv
<1>2. ConfigInv /\ [AddOption]_opts => ConfigInv'
  BY ConfigAssumption DEF ConfigInv, AddOption
<1> QED BY <1>1, <1>2, PTL DEF ConfigSpec

\* The value a setting has before it is normalised.
LEMMA SettingFacts ==
  ASSUME ConfigInv, NEW f \in Fields
  PROVE  LET s == Applied[Len(opts)] IN
         /\ settings[f] = Normalised(s, f)
         /\ \/ /\ \A k \in DOMAIN opts : ~Given(opts[k], f)
               /\ s[f] = Default[f]
            \/ \E k \in DOMAIN opts :
                 /\ Given(opts[k], f) /\ s[f] = opts[k][f]
                 /\ \A j \in DOMAIN opts : j > k => ~Given(opts[j], f)
<1> DEFINE s == Applied[Len(opts)]
<1>1. settings[f] = Normalised(s, f)
  BY DEF settings, Resolve
<1>2. Len(opts) \in Nat /\ DOMAIN opts = 1 .. Len(opts) /\ Len(opts) \in 0 .. MaxOptions
  BY ConfigAssumption DEF ConfigInv
<1>3. Decided(Len(opts), f)
  BY <1>2, AppliedDecided
<1>4. ASSUME NEW k \in 1 .. Len(opts), Decides(k, Len(opts), f)
      PROVE  Given(opts[k], f) /\ \A j \in DOMAIN opts : j > k => ~Given(opts[j], f)
  BY <1>2, <1>4 DEF Decides
<1> QED BY <1>1, <1>2, <1>3, <1>4 DEF Decided

\* Whatever the options and their order, New accepts only what the engine can
\* run with.
THEOREM AcceptedIsRunnable == ConfigSpec => []Runnable
<1>1. ConfigInv => Runnable
  <2> SUFFICES ASSUME ConfigInv, NEW exec \in {"pool", "other"},
                      New(settings, exec).err = "none",
                      NEW f \in Bounded \cup Required \cup {"InstanceID", "Schema"}
               PROVE  settings[f] > 0
    BY DEF Runnable
  <2> DEFINE s == Applied[Len(opts)]
  <2>1. f \in Fields
    BY DEF Fields
  <2>2. s[f] \in {-1, 0, 1, 2} /\ (s[f] = -1 => f \in Bounded \cup {"Schema"})
    <3>1. CASE s[f] = Default[f]
      <4>1. Default[f] \in {0, 1, 2}
        BY <2>1 DEF Default
      <4> QED BY <3>1, <4>1
    <3>2. ASSUME NEW k \in DOMAIN opts, Given(opts[k], f), s[f] = opts[k][f]
          PROVE  s[f] \in {-1, 0, 1} /\ (s[f] = -1 => f \in Bounded \cup {"Schema"})
      <4>1. opts[k] \in Option /\ f \in DOMAIN opts[k]
        BY <3>2 DEF ConfigInv, Given
      <4> QED BY <3>2, <4>1, OptionFacts
    <3> QED BY <2>1, <3>1, <3>2, SettingFacts
  <2>3. settings[f] = Normalised(s, f)
    BY <2>1, SettingFacts
  <2>4. settings["Schema"] # -1
    BY DEF New
  <2> HIDE DEF s
  <2> QED BY <2>2, <2>3, <2>4 DEF Normalised
<1> QED BY <1>1, ConfigInvariance, PTL

\* A setting is what the last option that gives it a usable value says, for any
\* number of options in any order: none undoes another unseen.
THEOREM LastOptionWins == ConfigSpec => []LastOptionDecides
<1>1. ConfigInv => LastOptionDecides
  <2> SUFFICES ASSUME ConfigInv, NEW f \in Fields
               PROVE  LET giving == {k \in DOMAIN opts : /\ f \in DOMAIN opts[k]
                                                         /\ f \in Required => opts[k][f] # 0}
                          last   == opts[CHOOSE k \in giving : \A j \in giving : j <= k][f]
                          usable == f \in Flags \cup Plugged \/ last > 0
                                      \/ (f = "Schema" /\ last < 0)
                      IN  effect(f) = IF giving # {} /\ usable THEN last
                                      ELSE IF f = "InstanceID" THEN 2 ELSE Default[f]
    BY DEF LastOptionDecides
  <2> DEFINE s == Applied[Len(opts)]
             giving == {k \in DOMAIN opts : /\ f \in DOMAIN opts[k]
                                            /\ f \in Required => opts[k][f] # 0}
             top == CHOOSE k \in giving : \A j \in giving : j <= k
             last == opts[top][f]
             usable == f \in Flags \cup Plugged \/ last > 0 \/ (f = "Schema" /\ last < 0)
  <2>1. \A k \in DOMAIN opts : k \in giving <=> Given(opts[k], f)
    BY DEF Given
  <2>2. settings[f] = IF \/ f \in Bounded /\ s[f] <= 0
                         \/ f \in Required \cup {"Schema", "InstanceID"} /\ s[f] = 0
                      THEN 2 ELSE s[f]
    BY SettingFacts DEF Normalised
  <2>3. Default[f] = CASE f \in Bounded \cup Required \cup {"Schema"} -> 2
                       [] f = "Notify" -> 1
                       [] OTHER        -> 0
    BY DEF Default
  <2>4. CASE giving = {}
    <3>1. s[f] = Default[f]
      BY <2>1, <2>4, SettingFacts
    <3>2. effect(f) = IF f = "InstanceID" THEN 2 ELSE Default[f]
      <4> HIDE DEF s
      <4> QED BY <2>2, <2>3, <3>1
            DEF effect, Fields, Bounded, Optional, Flags, Required, Plugged
    <3> QED BY <2>4, <3>2
  <2>5. CASE giving # {}
    <3>1. PICK k \in DOMAIN opts : /\ Given(opts[k], f) /\ s[f] = opts[k][f]
                                   /\ \A j \in DOMAIN opts : j > k => ~Given(opts[j], f)
      BY <2>1, <2>5, SettingFacts
    <3>2. DOMAIN opts \subseteq Nat
      BY DEF ConfigInv
    <3>3. k \in giving /\ \A j \in giving : j <= k
      BY <2>1, <3>1, <3>2
    <3>4. top \in giving /\ \A j \in giving : j <= top
      BY <3>3
    <3>5. top = k
      BY <3>2, <3>3, <3>4
    <3>6. s[f] = last
      BY <3>1, <3>5
    <3>7. opts[k] \in Option /\ f \in DOMAIN opts[k] /\ (f \in Required => last # 0)
      BY <3>1, <3>5 DEF ConfigInv, Given
    <3>8. last \in {-1, 0, 1} /\ (f \in Required \cup {"InstanceID"} => last \in {0, 1})
      BY <3>5, <3>7, OptionFacts
    <3>9. effect(f) = IF usable THEN last
                      ELSE IF f = "InstanceID" THEN 2 ELSE Default[f]
      <4> HIDE DEF s, last
      <4> QED BY <2>2, <2>3, <3>6, <3>7, <3>8
              DEF effect, Fields, Bounded, Optional, Flags, Required, Plugged
    <3> QED BY <2>5, <3>9
  <2> QED BY <2>4, <2>5
<1> QED BY <1>1, ConfigInvariance, PTL

\* Rows are deleted, payloads cleared, keys ordered and notifications given up
\* only where an option says so.
THEOREM OptInOnly == ConfigSpec => []SafeByDefault
<1>1. ConfigInv => SafeByDefault
  <2> SUFFICES ASSUME ConfigInv PROVE SafeByDefault
    OBVIOUS
  <2>1. ASSUME NEW f \in Optional \cup {"ClearPayloadOnComplete", "Ordered"},
               settings[f] > 0
        PROVE  \E k \in DOMAIN opts : f \in DOMAIN opts[k] /\ opts[k][f] = 1
    <3> DEFINE s == Applied[Len(opts)]
    <3>1. f \in Fields /\ f \notin Bounded \cup Required \cup {"Schema", "InstanceID", "Notify"}
      BY DEF Fields, Bounded, Optional, Flags, Required
    <3>2. settings[f] = s[f]
      BY <3>1, SettingFacts DEF Normalised
    <3>3. Default[f] = 0
      BY <3>1 DEF Default
    <3>4. PICK k \in DOMAIN opts : Given(opts[k], f) /\ s[f] = opts[k][f]
      BY <2>1, <3>1, <3>2, <3>3, SettingFacts
    <3>5. opts[k] \in Option /\ f \in DOMAIN opts[k]
      BY <3>4 DEF ConfigInv, Given
    <3>6. opts[k][f] \in {-1, 0, 1}
      BY <3>5, OptionFacts
    <3> QED BY <2>1, <3>2, <3>4, <3>5, <3>6
  <2>2. ASSUME Cleans(settings)
        PROVE  \E k, j \in DOMAIN opts :
                 /\ "CleanupInterval" \in DOMAIN opts[k] /\ opts[k]["CleanupInterval"] = 1
                 /\ \E f \in {"Retention", "DeadRetention", "DiscardRetention"} :
                      f \in DOMAIN opts[j] /\ opts[j][f] = 1
    <3>1. PICK f \in {"Retention", "DeadRetention", "DiscardRetention"} : settings[f] > 0
      BY <2>2 DEF Cleans
    <3>2. settings["CleanupInterval"] > 0
      BY <2>2 DEF Cleans
    <3>3. f \in Optional /\ "CleanupInterval" \in Optional
      BY DEF Optional
    <3>4. PICK j \in DOMAIN opts : f \in DOMAIN opts[j] /\ opts[j][f] = 1
      BY <2>1, <3>1, <3>3
    <3>5. PICK k \in DOMAIN opts :
            "CleanupInterval" \in DOMAIN opts[k] /\ opts[k]["CleanupInterval"] = 1
      BY <2>1, <3>2, <3>3
    <3> QED BY <3>4, <3>5
  <2>3. ASSUME \A k \in DOMAIN opts : opts[k] \notin {Only("Notify", 0), ConfigOf(1, 1, 1)}
        PROVE  Listens(settings, "pool")
    <3> DEFINE s == Applied[Len(opts)]
    <3>1. "Notify" \in Fields /\ "Notify" \in Flags
          /\ "Notify" \notin Bounded \cup Required \cup {"Schema", "InstanceID"}
      BY DEF Fields, Bounded, Flags, Required
    <3>2. settings["Notify"] = s["Notify"]
      BY <3>1, SettingFacts DEF Normalised
    <3>3. Default["Notify"] = 1
      BY <3>1 DEF Default
    <3>4. ASSUME NEW k \in DOMAIN opts, Given(opts[k], "Notify") PROVE opts[k]["Notify"] = 1
      <4>1. opts[k] \in Option /\ "Notify" \in DOMAIN opts[k]
        BY <3>4 DEF ConfigInv, Given
      <4>2. opts[k]["Notify"] \in {0, 1} /\ opts[k]["Notify"] # 0
        BY <2>3, <3>1, <4>1, OptionFacts
      <4> QED BY <4>2
    <3>5. settings["Notify"] = 1
      BY <3>1, <3>2, <3>3, <3>4, SettingFacts
    <3> QED BY <3>5 DEF Listens, New
  <2> QED BY <2>1, <2>2, <2>3 DEF SafeByDefault
<1> QED BY <1>1, ConfigInvariance, PTL

-----------------------------------------------------------------------------
(***************************************************************************)
(* Facade                                                                  *)
(***************************************************************************)

\* What the enqueue calls are given, valid or not.
Sent == [ID : {"", "a", "A", "bad"}, Topic : {"", "t"}, PartitionKey : {"", "k", "bad"},
         Payload : {"nil", "empty", "data"}, Headers : {"nil", "h", "invalid", "nul"},
         MaxAttempts : {"nil", "0", "big"}]

\* Each row was written for the message that `first` keeps.
FacadeInv ==
  /\ DOMAIN table = RowIds /\ DOMAIN first = RowIds
  /\ \A id \in RowIds : table[id] # NoRow =>
       \E m \in Sent : /\ table[id] = RowOf(m) /\ first[id] = [m EXCEPT !.ID = id]
                       /\ Acceptable(m)

\* The messages callers give, and those EnqueueValue makes.
LEMMA MessagesSent ==
  /\ Messages \subseteq Sent
  /\ \A key \in {"", "k"}, payload \in {"nil", "data"} :
       Message("", "t", key, payload, "nil", "nil") \in Sent
<1>1. ASSUME NEW id \in {"", "a", "A", "bad"}, NEW topic \in {"", "t"},
             NEW key \in {"", "k", "bad"}, NEW payload \in {"nil", "empty", "data"},
             NEW headers \in {"nil", "h", "invalid", "nul"}, NEW max \in {"nil", "0", "big"}
      PROVE  Message(id, topic, key, payload, headers, max) \in Sent
  BY DEF Message, Sent
<1> DEFINE I == {"", "a"}
           K == {"", "k"}
           Bare == {Message(id, "t", key, "data", "nil", "nil") : id \in I, key \in K}
           Full == {Message(id, "t", key, "data", "h", "0") : id \in I, key \in K}
<1>2. \A id \in I, key \in K : /\ Message(id, "t", key, "data", "nil", "nil") \in Sent
                               /\ Message(id, "t", key, "data", "h", "0") \in Sent
  BY DEF Message, Sent
<1>3. Bare \subseteq Sent /\ Full \subseteq Sent
  <2> HIDE DEF I, K
  <2> QED BY <1>2
<1> DEFINE Odd == {Message("A", "t", "k", "data", "invalid", "nil"),
                   Message("", "t", "", "data", "nul", "nil"),
                   Message("bad", "t", "", "data", "nil", "nil"),
                   Message("", "t", "bad", "data", "nil", "nil"),
                   Message("", "t", "", "data", "nil", "big"),
                   Message("a", "t", "", "empty", "nil", "nil"),
                   Message("", "", "", "data", "nil", "nil"),
                   Message("", "t", "", "nil", "nil", "nil")}
<1>4. Odd \subseteq Sent
  BY <1>1
<1>5. Messages = Bare \cup Full \cup Odd
  BY DEF Messages
<1>6. Messages \subseteq Sent
  <2> HIDE DEF Bare, Full, Odd
  <2> QED BY <1>3, <1>4, <1>5
<1> QED BY <1>1, <1>6

\* A row is told from an absent one by its columns.
LEMMA RowIsThere == \A m : RowOf(m) # NoRow
<1> SUFFICES ASSUME NEW m PROVE RowOf(m) # NoRow
  OBVIOUS
<1>1. "payload" \in DOMAIN RowOf(m)
  BY DEF RowOf
<1>2. "payload" \notin DOMAIN NoRow
  BY DEF NoRow
<1> QED BY <1>1, <1>2

\* ON CONFLICT keeps the message that comes first in the statement.
LEMMA KeptIsFirst ==
  ASSUME NEW n \in Nat, NEW ms, DOMAIN ms = 1 .. n, NEW ids, NEW id,
         \E k \in 1 .. n : ids[k] = id
  PROVE  /\ Kept(ms, ids, id) \in 1 .. n
         /\ Kept(ms, ids, id) = CHOOSE k \in DOMAIN ms :
              ids[k] = id /\ \A j \in 1 .. k - 1 : ids[j] # id
<1> DEFINE S == {k \in 1 .. n : ids[k] = id}
<1>1. S \in SUBSET Nat /\ S # {}
  OBVIOUS
<1>2. PICK k \in S : \A j \in S : k <= j
  BY <1>1, LeastNat, Zenon
<1>3. Kept(ms, ids, id) = k
  <2>1. \A l \in 1 .. n : (ids[l] = id /\ \A j \in 1 .. n : ids[j] = id => l <= j) <=> l = k
    BY <1>2
  <2> QED BY <1>2, <2>1 DEF Kept
<1>4. (CHOOSE l \in DOMAIN ms : ids[l] = id /\ \A j \in 1 .. l - 1 : ids[j] # id) = k
  <2>1. \A l \in 1 .. n : (ids[l] = id /\ \A j \in 1 .. l - 1 : ids[j] # id) <=> l = k
    BY <1>2
  <2> QED BY <1>2, <2>1
<1> QED BY <1>2, <1>3, <1>4

\* A batch that is written: new rows are those of their messages, others stay.
LEMMA WrittenStep ==
  ASSUME FacadeInv, NEW n \in Nat, NEW ms \in [1 .. n -> Sent], Written(ms),
         \A k \in DOMAIN ms : Acceptable(ms[k])
  PROVE  FacadeInv'
<1>1. DOMAIN ms = 1 .. n
  OBVIOUS
<1>2. PICK ids \in Assigned(ms) :
        /\ table' = Inserted(ms, ids)
        /\ first' = [id \in RowIds |->
             IF table[id] = NoRow /\ \E k \in DOMAIN ms : ids[k] = id
             THEN [ms[CHOOSE k \in DOMAIN ms :
                        ids[k] = id /\ \A j \in 1 .. k - 1 : ids[j] # id]
                     EXCEPT !.ID = id]
             ELSE first[id]]
  BY DEF Written
<1>3. DOMAIN table' = RowIds /\ DOMAIN first' = RowIds
  BY <1>2 DEF Inserted
<1>4. ASSUME NEW id \in RowIds, table'[id] # NoRow
      PROVE  \E m \in Sent : /\ table'[id] = RowOf(m) /\ first'[id] = [m EXCEPT !.ID = id]
                             /\ Acceptable(m)
  <2>1. CASE table[id] = NoRow /\ \E k \in DOMAIN ms : ids[k] = id
    <3> DEFINE k == Kept(ms, ids, id)
    <3>1. k \in 1 .. n /\ k = CHOOSE l \in DOMAIN ms :
                                ids[l] = id /\ \A j \in 1 .. l - 1 : ids[j] # id
      BY <1>1, <2>1, KeptIsFirst
    <3>2. table'[id] = RowOf(ms[k])
      BY <1>2, <2>1 DEF Inserted
    <3>3. first'[id] = [ms[k] EXCEPT !.ID = id]
      BY <1>2, <2>1, <3>1
    <3>4. Acceptable(ms[k])
      BY <1>1, <3>1
    <3> HIDE DEF k
    <3> QED BY <3>1, <3>2, <3>3, <3>4
  <2>2. CASE ~(table[id] = NoRow /\ \E k \in DOMAIN ms : ids[k] = id)
    <3>1. table'[id] = table[id] /\ first'[id] = first[id]
      BY <1>2, <2>2 DEF Inserted
    <3> QED BY <1>4, <3>1 DEF FacadeInv
  <2> QED BY <2>1, <2>2
<1> QED BY <1>3, <1>4 DEF FacadeInv

\* A batch is written or changes nothing.
LEMMA BatchStep ==
  ASSUME FacadeInv, NEW n \in Nat, NEW ms \in [1 .. n -> Sent], EnqueueBatch(ms)
  PROVE  FacadeInv'
<1>1. CASE Written(ms) /\ \A k \in DOMAIN ms : Acceptable(ms[k])
  BY <1>1, WrittenStep
<1>2. CASE UNCHANGED <<table, first>>
  BY <1>2 DEF FacadeInv
<1> QED BY <1>1, <1>2 DEF EnqueueBatch, Refused

\* Every call is a batch of messages, or refused before there is one.
LEMMA CallCases ==
  ASSUME FacadeNext
  PROVE  \/ \E n \in Nat : \E ms \in [1 .. n -> Sent] : EnqueueBatch(ms)
         \/ \E err \in {"ErrNoCodec", "marshal"} : Refused(<<>>, err)
         \/ Delete
<1>1. ASSUME NEW m \in Sent, Enqueue(m)
      PROVE  \E n \in Nat : \E ms \in [1 .. n -> Sent] : EnqueueBatch(ms)
  <2>1. <<m>> \in [1 .. 1 -> Sent]
    OBVIOUS
  <2> QED BY <1>1, <2>1 DEF Enqueue
<1>2. ASSUME EnqueueBatch(<<>>)
      PROVE  \E n \in Nat : \E ms \in [1 .. n -> Sent] : EnqueueBatch(ms)
  <2>1. <<>> \in [1 .. 0 -> Sent]
    OBVIOUS
  <2> QED BY <1>2, <2>1
<1>3. ASSUME NEW m \in Sent, NEW l \in Sent, EnqueueBatch(<<m, l>>)
      PROVE  \E n \in Nat : \E ms \in [1 .. n -> Sent] : EnqueueBatch(ms)
  <2>1. <<m, l>> \in [1 .. 2 -> Sent]
    OBVIOUS
  <2> QED BY <1>3, <2>1
<1>4. ASSUME NEW key \in {"", "k"}, NEW payload \in {"error", "nil", "data"},
             EnqueueValue(key, payload)
      PROVE  \/ \E n \in Nat : \E ms \in [1 .. n -> Sent] : EnqueueBatch(ms)
             \/ \E err \in {"ErrNoCodec", "marshal"} : Refused(<<>>, err)
  <2>1. CASE ~codec \/ payload = "error"
    BY <1>4, <2>1 DEF EnqueueValue
  <2>2. CASE codec /\ payload # "error"
    <3>1. Enqueue(Message("", "t", key, payload, "nil", "nil"))
      BY <1>4, <2>2 DEF EnqueueValue
    <3> QED BY <1>1, <2>2, <3>1, MessagesSent
  <2> QED BY <2>1, <2>2
<1> QED BY <1>1, <1>2, <1>3, <1>4, MessagesSent DEF FacadeNext

\* Every call and every deletion keeps each row with its message.
LEMMA FacadeInvariance == FacadeSpec => []FacadeInv
<1>1. FacadeInit => FacadeInv
  BY DEF FacadeInit, FacadeInv
<1>2. FacadeInv /\ [FacadeNext]_facadeVars => FacadeInv'
  <2> SUFFICES ASSUME FacadeInv, [FacadeNext]_facadeVars PROVE FacadeInv'
    OBVIOUS
  <2>1. ASSUME NEW n \in Nat, NEW ms \in [1 .. n -> Sent], EnqueueBatch(ms) PROVE FacadeInv'
    BY <2>1, BatchStep
  <2>2. CASE UNCHANGED <<table, first>>
    BY <2>2 DEF FacadeInv
  <2>3. CASE Delete
    <3>1. PICK id \in RowIds : table' = [table EXCEPT ![id] = NoRow]
                            /\ first' = [first EXCEPT ![id] = NoRow]
      BY <2>3 DEF Delete
    <3>2. DOMAIN table' = RowIds /\ DOMAIN first' = RowIds
      BY <3>1 DEF FacadeInv
    <3>3. ASSUME NEW x \in RowIds, table'[x] # NoRow
          PROVE  table'[x] = table[x] /\ first'[x] = first[x]
      BY <3>1, <3>3 DEF FacadeInv
    <3> QED BY <3>2, <3>3 DEF FacadeInv
  <2> QED BY <2>1, <2>2, <2>3, CallCases DEF Refused, facadeVars
<1> QED BY <1>1, <1>2, PTL DEF FacadeSpec

\* Whatever is enqueued, in whatever batches, with whatever duplicates, a row is
\* read back without an error and as the first message of its id, the headers as
\* json.Marshal left them.
THEOREM RowReadsBack == FacadeSpec => []ReadsBackFirst
<1>1. FacadeInv => ReadsBackFirst
  <2> SUFFICES ASSUME FacadeInv, NEW id \in RowIds, table[id] # NoRow
               PROVE  /\ scanMessages(id, table[id]).err = "none"
                      /\ \A f \in {"ID", "Topic", "PartitionKey", "Payload", "MaxAttempts"} :
                           scanMessages(id, table[id]).msg[f] = first[id][f]
                      /\ \/ /\ first[id].Headers = "h"
                            /\ scanMessages(id, table[id]).msg.Headers = "h"
                         \/ /\ first[id].Headers = "nil"
                            /\ scanMessages(id, table[id]).msg.Headers = "empty"
                         \/ /\ first[id].Headers = "invalid"
                            /\ scanMessages(id, table[id]).msg.Headers = "replaced"
                      /\ first[id].PartitionKey = "" <=> table[id].partition_key = "NULL"
    BY DEF ReadsBackFirst
  <2>1. PICK m \in Sent : /\ table[id] = RowOf(m) /\ first[id] = [m EXCEPT !.ID = id]
                         /\ Acceptable(m)
    BY DEF FacadeInv
  <2>2. derefStr(nullStr(m.PartitionKey)) = m.PartitionKey
    BY DEF derefStr, nullStr, Sent
  <2>3. (IF nullInt(m.MaxAttempts) = "NULL" THEN "nil" ELSE nullInt(m.MaxAttempts))
          = m.MaxAttempts
    BY DEF nullInt, Sent
  <2> DEFINE read == Unmarshal(Marshal(m.Headers))
  <2>4. \/ m.Headers = "h" /\ read = "h"
        \/ m.Headers = "nil" /\ read = "empty"
        \/ m.Headers = "invalid" /\ read = "replaced"
    <3>1. m.Headers \in {"nil", "h", "invalid", "nul"}
      BY DEF Sent
    <3>2. Marshal(m.Headers) # "escaped"
      BY <2>1 DEF Acceptable
    <3> QED BY <3>1, <3>2 DEF Marshal, Unmarshal
  <2> HIDE DEF read
  <2>5. /\ scanMessages(id, table[id]).msg
             = [ID |-> id, Topic |-> m.Topic, PartitionKey |-> m.PartitionKey,
                Payload |-> m.Payload, Headers |-> read, MaxAttempts |-> m.MaxAttempts]
        /\ scanMessages(id, table[id]).err = IF read = "error" THEN "unmarshal" ELSE "none"
    BY <2>1, <2>2, <2>3 DEF scanMessages, RowOf, Message, read
  <2>6. first[id] = [ID |-> id, Topic |-> m.Topic, PartitionKey |-> m.PartitionKey,
                     Payload |-> m.Payload, Headers |-> m.Headers,
                     MaxAttempts |-> m.MaxAttempts]
    BY <2>1 DEF Sent
  <2>7. first[id].PartitionKey = "" <=> table[id].partition_key = "NULL"
    <3>1. table[id].partition_key = nullStr(m.PartitionKey)
      BY <2>1 DEF RowOf
    <3>2. first[id].PartitionKey = m.PartitionKey
      BY <2>6
    <3>3. m.PartitionKey \in {"", "k", "bad"}
      BY DEF Sent
    <3> QED BY <3>1, <3>2, <3>3 DEF nullStr
  <2>8. \A f \in {"ID", "Topic", "PartitionKey", "Payload", "MaxAttempts"} :
          scanMessages(id, table[id]).msg[f] = first[id][f]
    BY <2>5, <2>6
  <2>9. /\ first[id].Headers = m.Headers /\ scanMessages(id, table[id]).msg.Headers = read
        /\ scanMessages(id, table[id]).err = "none"
    BY <2>4, <2>5, <2>6
  <2> QED BY <2>4, <2>7, <2>8, <2>9
<1> QED BY <1>1, FacadeInvariance, PTL

\* An enqueue call that returns an error has written nothing; one that succeeds
\* has a row for every message, of its own where the message had no id.
THEOREM WholeOrNothing == FacadeSpec => AllOrNothing
<1> DEFINE Whole ==
      calls' # calls =>
        IF call'.err # "none" THEN table' = table
        ELSE /\ \A k \in DOMAIN call'.msgs : table'[call'.ids[k]] # NoRow
             /\ \A k \in DOMAIN call'.msgs :
                  call'.msgs[k].ID = "" => /\ table[call'.ids[k]] = NoRow
                                           /\ \A j \in DOMAIN call'.msgs \ {k} :
                                                call'.ids[k] # call'.ids[j]
<1>1. FacadeInv /\ [FacadeNext]_facadeVars => [Whole]_facadeVars
  <2> SUFFICES ASSUME FacadeInv, FacadeNext, calls' # calls PROVE Whole
    OBVIOUS
  <2>1. ASSUME NEW ms, NEW err, Refused(ms, err), err # "none" PROVE Whole
    BY <2>1 DEF Refused
  <2>2. ASSUME NEW n \in Nat, NEW ms \in [1 .. n -> Sent], Written(ms) PROVE Whole
    <3>1. PICK ids \in Assigned(ms) :
            /\ table' = Inserted(ms, ids)
            /\ call' = [msgs |-> ms, ids |-> ids, err |-> "none"]
      BY <2>2 DEF Written
    <3>2. call'.err = "none" /\ call'.msgs = ms /\ call'.ids = ids
      BY <3>1
    <3>3. ASSUME NEW k \in DOMAIN ms PROVE table'[ids[k]] # NoRow
      <4>1. ids[k] \in RowIds
        BY DEF Assigned
      <4>2. table'[ids[k]] = IF table[ids[k]] = NoRow
                             THEN RowOf(ms[Kept(ms, ids, ids[k])]) ELSE table[ids[k]]
        BY <3>1, <4>1 DEF Inserted
      <4> QED BY <4>2, RowIsThere
    <3>4. ASSUME NEW k \in DOMAIN ms, ms[k].ID = ""
          PROVE  table[ids[k]] = NoRow /\ \A j \in DOMAIN ms \ {k} : ids[k] # ids[j]
      BY <3>4 DEF Assigned
    <3> QED BY <3>2, <3>3, <3>4
  <2>3. ASSUME NEW n \in Nat, NEW ms \in [1 .. n -> Sent], EnqueueBatch(ms) PROVE Whole
    BY <2>1, <2>2, <2>3 DEF EnqueueBatch
  <2>4. ~Delete
    BY DEF Delete
  <2> QED BY <2>1, <2>3, <2>4, CallCases
<1>2. FacadeSpec => [][Whole]_facadeVars
  <2> HIDE DEF Whole
  <2> QED BY <1>1, FacadeInvariance, PTL DEF FacadeSpec
<1> QED BY <1>2 DEF AllOrNothing

-----------------------------------------------------------------------------
(***************************************************************************)
(* Outcomes                                                                *)
(***************************************************************************)

\* An error made of errors before the n-th; only a BatchError has outcomes.
WellMade(x, n) ==
  /\ Len(x.wraps) \in Nat \ {0}
  /\ \A p \in 1 .. Len(x.wraps) : x.wraps[p] \in 0 .. n - 1
  /\ \A id \in DOMAIN x.outcomes : x.outcomes[id] \in 0 .. n - 1
  /\ x.kind # "batch" => DOMAIN x.outcomes = {}

\* An error holds only errors made before it: a search ends.
OutcomesInv ==
  /\ \E S : errors \in Seq(S)
  /\ \A n \in Made : WellMade(errors[n], n)

\* What is appended is well made.
LEMMA MakeStep ==
  ASSUME OutcomesInv, NEW x, Make(x), WellMade(x, Len(errors) + 1)
  PROVE  OutcomesInv'
<1>1. PICK S : errors \in Seq(S)
  BY DEF OutcomesInv
<1>2. errors' = Append(errors, x)
  BY DEF Make
<1>3. /\ errors' \in Seq(S \cup {x}) /\ Len(errors') = Len(errors) + 1
      /\ \A n \in 1 .. Len(errors) : errors'[n] = errors[n]
      /\ errors'[Len(errors) + 1] = x /\ Len(errors) \in Nat
  BY <1>1, <1>2
<1>4. ASSUME NEW n \in 1 .. Len(errors') PROVE WellMade(errors'[n], n)
  <2>1. CASE n = Len(errors) + 1
    BY <1>3, <2>1
  <2>2. CASE n # Len(errors) + 1
    <3>1. n \in Made /\ errors'[n] = errors[n]
      BY <1>3, <2>2 DEF Made
    <3> QED BY <3>1 DEF OutcomesInv
  <2> QED BY <2>1, <2>2
<1>5. (\E T : errors' \in Seq(T)) /\ \A n \in 1 .. Len(errors') : WellMade(errors'[n], n)
  BY <1>3, <1>4
<1> QED BY <1>5 DEF OutcomesInv, Made, WellMade

\* Every error made is well made.
LEMMA OutcomesInvariance == OutcomesSpec => []OutcomesInv
<1>1. OutcomesInit => OutcomesInv
  <2> SUFFICES ASSUME OutcomesInit PROVE OutcomesInv
    OBVIOUS
  <2>1. errors \in Seq({}) /\ Made = {}
    BY DEF OutcomesInit, Made
  <2> QED BY <2>1 DEF OutcomesInv
<1>2. OutcomesInv /\ [OutcomesNext]_errors => OutcomesInv'
  <2> SUFFICES ASSUME OutcomesInv, [OutcomesNext]_errors PROVE OutcomesInv'
    OBVIOUS
  <2>1. Len(errors) \in Nat
    BY DEF OutcomesInv
  <2>2. Values = 0 .. (Len(errors) + 1) - 1
    BY <2>1 DEF Values, Made, Nil
  <2>3. ASSUME NEW e \in Values, NEW w \in Wrappers(e), Make(w) PROVE OutcomesInv'
    <3>1. w.wraps = <<e>> /\ w.outcomes = << >>
      BY DEF Wrappers, Marked, Fatal, Error
    <3>2. WellMade(w, Len(errors) + 1)
      BY <2>2, <3>1 DEF WellMade
    <3> QED BY <2>3, <3>2, MakeStep
  <2>4. ASSUME NEW e \in Made, NEW f \in Made, Make(Error("join", 0, <<e, f>>, << >>))
        PROVE  OutcomesInv'
    <3>1. WellMade(Error("join", 0, <<e, f>>, << >>), Len(errors) + 1)
      BY <2>2 DEF WellMade, Error, Values
    <3> QED BY <2>4, <3>1, MakeStep
  <2>5. ASSUME NEW D \in SUBSET Ids, NEW outcomes \in [D -> Values], NEW others \in Values,
               Make(PerMessage(outcomes, others))
        PROVE  OutcomesInv'
    <3>1. WellMade(PerMessage(outcomes, others), Len(errors) + 1)
      BY <2>2 DEF WellMade, PerMessage, Error
    <3> QED BY <2>5, <3>1, MakeStep
  <2>6. CASE UNCHANGED errors
    BY <2>6 DEF OutcomesInv, Made, WellMade
  <2> QED BY <2>3, <2>4, <2>5, <2>6 DEF OutcomesNext, Wrap, Join, Collect
<1> QED BY <1>1, <1>2, PTL DEF OutcomesSpec

\* The positions are numbers, and an error holds smaller ones.
LEMMA ValuesFacts ==
  ASSUME OutcomesInv
  PROVE  /\ Len(errors) \in Nat /\ Values = 0 .. Len(errors) /\ Values \subseteq Nat
         /\ \A n \in Values : n # Nil <=> n \in Made
BY DEF OutcomesInv, Values, Made, Nil

\* What a search from n finds, given what searches from the errors it holds find.
Search(found, n, kind) ==
  IF n = Nil THEN {}
  ELSE IF errors[n].kind = kind THEN {n}
  ELSE IF FirstFound(found, errors[n].wraps) # {} THEN FirstFound(found, errors[n].wraps)
  ELSE UNION {found[errors[n].outcomes[id]] : id \in DOMAIN errors[n].outcomes}

\* The first hit of a list depends on the searches from its members only.
LEMMA FirstFoundDepends ==
  ASSUME NEW w, Len(w) \in Nat, NEW f, NEW g,
         \A p \in 1 .. Len(w) : f[w[p]] = g[w[p]]
  PROVE  FirstFound(f, w) = FirstFound(g, w)
<1> DEFINE Open(h) == {p \in 1 .. Len(w) : \A j \in 1 .. p - 1 : h[w[j]] = {}}
<1>1. \A p \in 1 .. Len(w) : \A j \in 1 .. p - 1 : j \in 1 .. Len(w)
  OBVIOUS
<1>2. Open(f) = Open(g)
  BY <1>1, Zenon
<1>3. \A p \in Open(g) : f[w[p]] = g[w[p]]
  OBVIOUS
<1>4. FirstFound(f, w) = UNION {f[w[p]] : p \in Open(f)}
      /\ FirstFound(g, w) = UNION {g[w[p]] : p \in Open(g)}
  BY Zenon DEF FirstFound
<1> HIDE DEF Open
<1>5. {f[w[p]] : p \in Open(g)} = {g[w[p]] : p \in Open(g)}
  BY <1>3
<1> QED BY <1>2, <1>4, <1>5, Zenon

\* It depends on searches from smaller positions only.
LEMMA SearchDepends ==
  ASSUME OutcomesInv, NEW n \in Values, NEW kind, NEW f, NEW g,
         \A m \in 0 .. n - 1 : f[m] = g[m]
  PROVE  Search(f, n, kind) = Search(g, n, kind)
<1>1. CASE n = Nil
  BY <1>1 DEF Search
<1>2. CASE n # Nil
  <2>1. WellMade(errors[n], n)
    BY <1>2, ValuesFacts DEF OutcomesInv
  <2>2. \A p \in 1 .. Len(errors[n].wraps) : f[errors[n].wraps[p]] = g[errors[n].wraps[p]]
    BY <2>1 DEF WellMade
  <2>3. \A id \in DOMAIN errors[n].outcomes :
          f[errors[n].outcomes[id]] = g[errors[n].outcomes[id]]
    BY <2>1 DEF WellMade
  <2>4. FirstFound(f, errors[n].wraps) = FirstFound(g, errors[n].wraps)
    <3>1. Len(errors[n].wraps) \in Nat
      BY <2>1 DEF WellMade
    <3> QED BY <2>2, <3>1, FirstFoundDepends, Zenon
  <2>5. UNION {f[errors[n].outcomes[id]] : id \in DOMAIN errors[n].outcomes}
          = UNION {g[errors[n].outcomes[id]] : id \in DOMAIN errors[n].outcomes}
    BY <2>3
  <2> QED BY <2>4, <2>5, Zenon DEF Search
<1> QED BY <1>1, <1>2

\* f[n] is what a search from n finds, for the first positions.
Searches(f, k, kind) == f = [n \in 0 .. k |-> Search(f, n, kind)]

\* For any position there is a function that has the results so far, the one for
\* the position before it extended.
LEMMA SearchesExist ==
  ASSUME OutcomesInv, NEW kind, NEW n \in Values
  PROVE  \E f : Searches(f, n, kind)
<1> DEFINE Bad == {k \in Values : ~ \E f : Searches(f, k, kind)}
<1> SUFFICES ASSUME Bad # {} PROVE FALSE
  OBVIOUS
<1>1. Bad \in SUBSET Nat
  BY ValuesFacts
<1>2. PICK k \in Bad : \A l \in Bad : k <= l
  BY <1>1, LeastNat, Zenon
<1>3. k \in Nat /\ k \in Values /\ ~ \E f : Searches(f, k, kind)
  BY <1>1
<1>4. PICK g : k = 0 \/ Searches(g, k - 1, kind)
  <2>1. CASE k > 0
    <3>1. k - 1 \in Values
      BY <1>3, <2>1, ValuesFacts
    <3>2. k - 1 \notin Bad
      <4> HIDE DEF Bad
      <4> QED BY <1>2, <1>3, <2>1
    <3> QED BY <3>1, <3>2
  <2> QED BY <1>3, <2>1
<1> DEFINE h == [m \in 0 .. k |-> IF m = k THEN Search(g, k, kind) ELSE g[m]]
<1>5. \A m \in 0 .. k - 1 : h[m] = g[m]
  BY <1>3
<1>6. ASSUME NEW m \in 0 .. k PROVE h[m] = Search(h, m, kind)
  <2>1. m \in Values /\ m \in Nat /\ m <= k
    BY <1>3, ValuesFacts
  <2>2. \A l \in 0 .. m - 1 : g[l] = h[l]
    BY <1>3, <1>5, <2>1
  <2>3. Search(g, m, kind) = Search(h, m, kind)
    <3> HIDE DEF h
    <3> QED BY <2>1, <2>2, SearchDepends
  <2>4. CASE m = k
    BY <2>3, <2>4
  <2>5. CASE m # k
    <3>1. m \in 0 .. k - 1 /\ k # 0
      BY <1>3, <2>1, <2>5
    <3>2. g[m] = Search(g, m, kind)
      BY <1>4, <3>1 DEF Searches
    <3> QED BY <1>5, <2>3, <3>1, <3>2
  <2> QED BY <2>4, <2>5
<1>7. Searches(h, k, kind)
  BY <1>6 DEF Searches
<1> QED BY <1>3, <1>7

\* Found is the function its recursion describes.
LEMMA FoundDef ==
  ASSUME OutcomesInv, NEW kind, NEW n \in Values
  PROVE  Found(kind)[n] = Search(Found(kind), n, kind)
<1> DEFINE Good(f) ==
             f = [e \in Values |->
                   IF e = Nil THEN {}
                   ELSE IF errors[e].kind = kind THEN {e}
                   ELSE IF FirstFound(f, errors[e].wraps) # {}
                        THEN FirstFound(f, errors[e].wraps)
                   ELSE UNION {f[errors[e].outcomes[id]] : id \in DOMAIN errors[e].outcomes}]
           g == CHOOSE f : Good(f)
<1>1. \E f : Good(f)
  <2>1. Len(errors) \in Values /\ Values = 0 .. Len(errors)
    BY ValuesFacts
  <2>2. PICK f : Searches(f, Len(errors), kind)
    BY <2>1, SearchesExist
  <2>3. Good(f)
    BY <2>1, <2>2 DEF Searches, Search
  <2> QED BY <2>3
<1>2. Good(g)
  BY <1>1
<1>3. Found(kind) = g
  BY DEF Found
<1> HIDE DEF g
<1>4. g[n] = Search(g, n, kind)
  BY <1>2 DEF Search
<1> QED BY <1>3, <1>4

\* Within is the least closed set around an error: it has the error, is closed, and
\* is part of every other.
LEMMA WithinLeast ==
  ASSUME OutcomesInv, NEW e \in Values, NEW opaque
  PROVE  /\ e \in Within(e, opaque) /\ Within(e, opaque) \subseteq Values
         /\ Closed(Within(e, opaque), opaque)
         /\ \A S \in SUBSET Values : e \in S /\ Closed(S, opaque) => Within(e, opaque) \subseteq S
<1>1. e \in Within(e, opaque) /\ Within(e, opaque) \subseteq Values
  BY DEF Within
<1>2. ASSUME NEW y \in Within(e, opaque) \ {Nil}, errors[y].kind \notin opaque, NEW x \in Held(y)
      PROVE  x \in Within(e, opaque)
  <2>1. x \in Values
    <3>1. y \in Made /\ WellMade(errors[y], y)
      BY <1>1, ValuesFacts DEF OutcomesInv
    <3>2. x \in 0 .. y - 1 /\ y \in Nat /\ y <= Len(errors)
      BY <3>1, ValuesFacts DEF WellMade, Held, Made
    <3> QED BY <3>2, ValuesFacts
  <2>2. ASSUME NEW S \in SUBSET Values, e \in S, Closed(S, opaque) PROVE x \in S
    <3>1. y \in S
      BY <2>2 DEF Within
    <3> QED BY <1>2, <2>2, <3>1 DEF Closed
  <2> QED BY <2>1, <2>2 DEF Within
<1>3. Closed(Within(e, opaque), opaque)
  BY <1>2 DEF Closed
<1>4. \A S \in SUBSET Values : e \in S /\ Closed(S, opaque) => Within(e, opaque) \subseteq S
  BY DEF Within
<1> QED BY <1>1, <1>3, <1>4

\* What is inside something inside is inside.
LEMMA WithinTrans ==
  ASSUME OutcomesInv, NEW e \in Values, NEW opaque, NEW x \in Within(e, opaque)
  PROVE  Within(x, opaque) \subseteq Within(e, opaque)
<1>1. /\ Within(e, opaque) \in SUBSET Values /\ Closed(Within(e, opaque), opaque)
  BY WithinLeast, Zenon
<1> QED BY <1>1, WithinLeast, Zenon

\* An error holds errors of its own past.
LEMMA HeldFacts ==
  ASSUME OutcomesInv, NEW n \in Values, n # Nil
  PROVE  /\ WellMade(errors[n], n)
         /\ \A x \in Held(n) : x \in Values /\ x < n
         /\ \A p \in 1 .. Len(errors[n].wraps) : errors[n].wraps[p] \in Held(n)
         /\ \A id \in DOMAIN errors[n].outcomes : errors[n].outcomes[id] \in Held(n)
<1>1. n \in Made /\ WellMade(errors[n], n)
  BY ValuesFacts DEF OutcomesInv
<1>2. \A x \in Held(n) : x \in 0 .. n - 1
  BY <1>1 DEF WellMade, Held
<1>3. n \in Nat /\ n <= Len(errors)
  BY <1>1, ValuesFacts
<1>4. \A x \in Held(n) : x \in Values /\ x < n
  BY <1>2, <1>3, ValuesFacts
<1>5. /\ \A p \in 1 .. Len(errors[n].wraps) : errors[n].wraps[p] \in Held(n)
      /\ \A id \in DOMAIN errors[n].outcomes : errors[n].outcomes[id] \in Held(n)
  BY Zenon DEF Held
<1> QED BY <1>1, <1>4, <1>5, Zenon

\* What is found in a list is what is found in one of its members.
FoundInOne(f, w) == \E p \in 1 .. Len(w) : f[w[p]] # {} /\ FirstFound(f, w) = f[w[p]]

\* A hit of a list is a hit of one of its members, and of no other if that one
\* is the first; and a list with a hit in a member has one.
LEMMA FirstFoundFacts ==
  ASSUME NEW w, Len(w) \in Nat, NEW f
  PROVE  /\ \A x \in FirstFound(f, w) : \E p \in 1 .. Len(w) : x \in f[w[p]]
         /\ FirstFound(f, w) = {} => \A p \in 1 .. Len(w) : f[w[p]] = {}
         /\ FirstFound(f, w) # {} => FoundInOne(f, w)
<1> DEFINE Open == {p \in 1 .. Len(w) : \A j \in 1 .. p - 1 : f[w[j]] = {}}
           Hit == {p \in 1 .. Len(w) : f[w[p]] # {}}
<1>1. \A x : x \in FirstFound(f, w) <=> \E p \in Open : x \in f[w[p]]
  BY Zenon DEF FirstFound
<1>2. \A x \in FirstFound(f, w) : \E p \in 1 .. Len(w) : x \in f[w[p]]
  BY <1>1
<1>3. CASE Hit = {}
  BY <1>2, <1>3
<1>4. CASE Hit # {}
  <2>1. Hit \in SUBSET Nat
    OBVIOUS
  <2>2. PICK k \in Hit : \A l \in Hit : k <= l
    BY <1>4, <2>1, LeastNat, Zenon
  <2>3. k \in 1 .. Len(w) /\ f[w[k]] # {}
    OBVIOUS
  <2>4. ASSUME NEW p \in 1 .. Len(w), p < k PROVE f[w[p]] = {}
    <3>1. p \notin Hit
      <4> HIDE DEF Hit
      <4> QED BY <2>2, <2>3, <2>4
    <3> QED BY <3>1
  <2>5. k \in Open
    <3>1. \A j \in 1 .. k - 1 : j \in 1 .. Len(w) /\ j < k
      BY <2>3
    <3> QED BY <2>3, <2>4, <3>1
  <2>6. ASSUME NEW p \in Open, p # k PROVE f[w[p]] = {}
    <3>1. CASE p < k
      BY <2>4, <3>1
    <3>2. CASE p > k
      <4>1. k \in 1 .. p - 1
        BY <2>3, <3>2
      <4> QED BY <2>3, <4>1
    <3> QED BY <2>3, <2>6, <3>1, <3>2
  <2> HIDE DEF Open
  <2>7. FirstFound(f, w) = f[w[k]]
    BY <1>1, <2>5, <2>6
  <2> QED BY <1>2, <2>3, <2>7 DEF FoundInOne
<1> QED BY <1>3, <1>4

\* A search finds errors of the type it looks for, inside the one it starts at.
LEMMA FoundInside ==
  ASSUME OutcomesInv, NEW kind, NEW n \in Values, NEW x \in Found(kind)[n]
  PROVE  x \in Inside(n) /\ x # Nil /\ errors[x].kind = kind
<1> DEFINE Sound(k) == \A y \in Found(kind)[k] : y \in Inside(k) /\ y # Nil /\ errors[y].kind = kind
           Bad == {k \in Values : ~Sound(k)}
<1> SUFFICES ASSUME Bad # {} PROVE FALSE
  OBVIOUS
<1>1. Bad \in SUBSET Nat
  BY ValuesFacts
<1>2. PICK k \in Bad : \A l \in Bad : k <= l
  BY <1>1, LeastNat, Zenon
<1>3. k \in Values /\ ~Sound(k) /\ k \in Nat
  BY <1>1
<1>4. \A l \in Values : l < k => Sound(l)
  <2>1. \A l \in Values : l < k => l \notin Bad
    <3> HIDE DEF Bad
    <3> QED BY <1>2, <1>3, ValuesFacts
  <2> QED BY <2>1
<1>5. PICK y \in Found(kind)[k] : ~(y \in Inside(k) /\ y # Nil /\ errors[y].kind = kind)
  BY <1>3
<1> HIDE DEF Bad
<1>6. y \in Search(Found(kind), k, kind)
  BY <1>3, <1>5, FoundDef
<1>7. k # Nil
  BY <1>6 DEF Search
<1>8. k \in Inside(k)
  BY <1>3, WithinLeast DEF Inside
<1>9. ASSUME NEW c \in Held(k), y \in Found(kind)[c] PROVE FALSE
  <2>1. c \in Values /\ c < k
    BY <1>3, <1>7, <1>9, HeldFacts
  <2>2. y \in Inside(c) /\ y # Nil /\ errors[y].kind = kind
    BY <1>4, <1>9, <2>1
  <2>3. c \in Inside(k)
    BY <1>3, <1>7, <1>8, <1>9, WithinLeast DEF Inside, Closed
  <2>4. Inside(c) \subseteq Inside(k)
    BY <1>3, <2>3, WithinTrans DEF Inside
  <2> QED BY <1>5, <2>2, <2>4
<1>10. errors[k].kind # kind
  BY <1>5, <1>6, <1>7, <1>8 DEF Search
<1>11. Len(errors[k].wraps) \in Nat
  BY <1>3, <1>7, HeldFacts DEF WellMade
<1>12. CASE y \in FirstFound(Found(kind), errors[k].wraps)
  <2>1. PICK p \in 1 .. Len(errors[k].wraps) : y \in Found(kind)[errors[k].wraps[p]]
    BY <1>11, <1>12, FirstFoundFacts, Zenon
  <2> QED BY <1>3, <1>7, <1>9, <2>1, HeldFacts
<1>13. CASE \E id \in DOMAIN errors[k].outcomes : y \in Found(kind)[errors[k].outcomes[id]]
  BY <1>3, <1>7, <1>9, <1>13, HeldFacts
<1> QED BY <1>6, <1>7, <1>10, <1>12, <1>13 DEF Search

\* A search finds something exactly when there is something to find.
LEMMA HasIff ==
  ASSUME OutcomesInv, NEW kind, NEW n \in Values
  PROVE  Has(n, kind) <=> kind \in Kinds(n)
<1> DEFINE Empty == {m \in Values : Found(kind)[m] = {}}
<1>1. ASSUME NEW y \in Empty \ {Nil}, NEW x \in Held(y) PROVE x \in Empty
  <2>1. y \in Values /\ y # Nil /\ Found(kind)[y] = {}
    OBVIOUS
  <2>2. Search(Found(kind), y, kind) = {}
    BY <2>1, FoundDef
  <2>3. Len(errors[y].wraps) \in Nat /\ x \in Values
    BY <2>1, HeldFacts DEF WellMade
  <2>4. /\ FirstFound(Found(kind), errors[y].wraps) = {}
        /\ UNION {Found(kind)[errors[y].outcomes[id]] : id \in DOMAIN errors[y].outcomes} = {}
    BY <2>1, <2>2 DEF Search
  <2>5. \A p \in 1 .. Len(errors[y].wraps) : Found(kind)[errors[y].wraps[p]] = {}
    BY <2>3, <2>4, FirstFoundFacts, Zenon
  <2>6. \A id \in DOMAIN errors[y].outcomes : Found(kind)[errors[y].outcomes[id]] = {}
    BY <2>4
  <2>7. Found(kind)[x] = {}
    BY <2>5, <2>6 DEF Held
  <2> QED BY <2>3, <2>7
<1>2. Closed(Empty, {})
  BY <1>1 DEF Closed
<1>3. ASSUME Found(kind)[n] = {}, NEW m \in Inside(n), m # Nil, errors[m].kind = kind PROVE FALSE
  <2>1. m \in Empty
    BY <1>2, <1>3, WithinLeast DEF Inside
  <2>2. m \in Values /\ Found(kind)[m] = {}
    BY <2>1
  <2>3. Found(kind)[m] = {m}
    BY <1>3, <2>2, FoundDef DEF Search
  <2> QED BY <2>2, <2>3
<1>4. ASSUME Found(kind)[n] # {} PROVE kind \in Kinds(n)
  <2>1. PICK x : x \in Found(kind)[n]
    BY <1>4
  <2>2. x \in Inside(n) /\ x # Nil /\ errors[x].kind = kind
    BY <2>1, FoundInside
  <2> QED BY <2>2 DEF Kinds
<1> QED BY <1>3, <1>4 DEF Has, Kinds

\* The search for a BatchError has one result, and that is an outermost one: only
\* the outcomes of a BatchError come in any order.
LEMMA OneBatch ==
  ASSUME OutcomesInv, NEW n \in Values, Has(n, "batch")
  PROVE  \E b \in Outermost(n) : Found("batch")[n] = {b}
<1> DEFINE Single(k) == Found("batch")[k] = {} \/ \E b \in Outermost(k) : Found("batch")[k] = {b}
           Bad == {k \in Values : ~Single(k)}
<1> SUFFICES ASSUME Bad # {} PROVE FALSE
  BY DEF Has
<1>1. Bad \in SUBSET Nat
  BY ValuesFacts
<1>2. PICK k \in Bad : \A l \in Bad : k <= l
  BY <1>1, LeastNat, Zenon
<1>3. k \in Values /\ ~Single(k) /\ k \in Nat
  BY <1>1
<1>4. \A l \in Values : l < k => Single(l)
  <2>1. \A l \in Values : l < k => l \notin Bad
    <3> HIDE DEF Bad
    <3> QED BY <1>2, <1>3, ValuesFacts
  <2> QED BY <2>1
<1> HIDE DEF Bad
<1>5. Found("batch")[k] = Search(Found("batch"), k, "batch") /\ Found("batch")[k] # {}
  BY <1>3, FoundDef
<1>6. k # Nil /\ k \in Within(k, {"batch"})
  BY <1>3, <1>5, WithinLeast DEF Search
<1>7. CASE errors[k].kind = "batch"
  <2>1. Found("batch")[k] = {k} /\ k \in Outermost(k)
    BY <1>5, <1>6, <1>7 DEF Search, Outermost
  <2> QED BY <1>3, <2>1
<1>8. CASE errors[k].kind # "batch"
  <2>1. DOMAIN errors[k].outcomes = {} /\ Len(errors[k].wraps) \in Nat
    BY <1>3, <1>6, <1>8, HeldFacts DEF WellMade
  <2>2. Found("batch")[k] = FirstFound(Found("batch"), errors[k].wraps)
    BY <1>5, <1>6, <1>8, <2>1 DEF Search
  <2>3. PICK p \in 1 .. Len(errors[k].wraps) :
          /\ Found("batch")[errors[k].wraps[p]] # {}
          /\ Found("batch")[k] = Found("batch")[errors[k].wraps[p]]
    <3>1. FoundInOne(Found("batch"), errors[k].wraps)
      BY <1>5, <2>1, <2>2, FirstFoundFacts, Zenon
    <3> QED BY <2>2, <3>1 DEF FoundInOne
  <2>4. PICK c : c = errors[k].wraps[p]
    OBVIOUS
  <2>5. c \in Held(k) /\ c \in Values /\ c < k
    BY <1>3, <1>6, <2>4, HeldFacts
  <2>6. PICK b \in Outermost(c) : Found("batch")[c] = {b}
    BY <1>4, <2>3, <2>4, <2>5
  <2>7. c \in Within(k, {"batch"})
    BY <1>3, <1>6, <1>8, <2>5, WithinLeast DEF Closed
  <2>8. b \in Outermost(k)
    BY <1>3, <2>6, <2>7, WithinTrans DEF Outermost
  <2> QED BY <1>3, <2>3, <2>4, <2>6, <2>8
<1> QED BY <1>7, <1>8

\* settle follows the documented order of markers, and a delay is one asked for
\* inside the outcome.
LEMMA SettleDocumented ==
  ASSUME OutcomesInv, NEW e \in Values
  PROVE  /\ {v.status : v \in settle(e)} = {Documented(e)}
         /\ \A v \in settle(e) : v.after > 0 =>
              \E x \in Inside(e) \ {Nil} : errors[x].kind = "retry" /\ errors[x].after = v.after
<1>1. /\ Has(e, "permanent") <=> "permanent" \in Kinds(e)
      /\ Has(e, "discard") <=> "discard" \in Kinds(e)
  BY HasIff
<1>2. CASE ~(e # Nil /\ ~Has(e, "permanent") /\ ~Has(e, "discard") /\ Has(e, "retry"))
  <2>1. settle(e) = {Verdict(Documented(e), 0)}
    BY <1>1, <1>2 DEF settle, Documented
  <2> QED BY <2>1 DEF Verdict
<1>3. CASE e # Nil /\ ~Has(e, "permanent") /\ ~Has(e, "discard") /\ Has(e, "retry")
  <2>1. settle(e) = {Verdict("retry", errors[r].after) : r \in Found("retry")[e]}
    BY <1>3 DEF settle
  <2>2. Documented(e) = "retry" /\ Found("retry")[e] # {}
    BY <1>1, <1>3 DEF Documented, Has
  <2>3. \A r \in Found("retry")[e] : r \in Inside(e) \ {Nil} /\ errors[r].kind = "retry"
    BY FoundInside
  <2>4. \A v \in settle(e) : \E r \in Found("retry")[e] : v.status = "retry" /\ v.after = errors[r].after
    BY <2>1 DEF Verdict
  <2>5. settle(e) # {}
    BY <2>1, <2>2
  <2>6. {v.status : v \in settle(e)} = {Documented(e)}
    BY <2>2, <2>4, <2>5
  <2> QED BY <2>3, <2>4, <2>6
<1> QED BY <1>2, <1>3

\* The verdict on a message is that of something inside the error, if that is not
\* fatal: of the whole, or of the outcome an outermost BatchError gives the message.
SettledAs(e, id, o) ==
  /\ o \in Inside(e) /\ Verdicts(e, id) = settle(o)
  /\ \/ "batch" \notin Kinds(e) /\ o = e
     \/ "batch" \in Kinds(e) /\ \E b \in Outermost(e) : o = OutcomeOf(b, id)

IsSettled(e, id) == \E o \in Values : SettledAs(e, id, o)

\* What processBatch does with an error.
LEMMA Processed ==
  ASSUME OutcomesInv, NEW e \in Values, NEW id
  PROVE  /\ Kinds(e) \cap {"abort", "panic"} # {} =>
              /\ processBatch(e, id, FALSE, TRUE) = {Verdict("stop", 0)}
              /\ Verdicts(e, id) = {Verdict("stop", 0)}
         /\ Kinds(e) \cap {"abort", "panic"} = {} =>
              processBatch(e, id, FALSE, TRUE) = {Verdict("claimed", 0)} /\ IsSettled(e, id)
<1>1. /\ Has(e, "abort") <=> "abort" \in Kinds(e)
      /\ Has(e, "panic") <=> "panic" \in Kinds(e)
      /\ Has(e, "batch") <=> "batch" \in Kinds(e)
  BY HasIff
<1>2. isFatal(e, FALSE) <=> Kinds(e) \cap {"abort", "panic"} # {}
  BY <1>1 DEF isFatal
<1>3. Kinds(Nil) = {}
  <2>1. Closed({Nil}, {}) /\ {Nil} \in SUBSET Values /\ Nil \in Values
    BY DEF Closed, Values
  <2>2. Inside(Nil) \subseteq {Nil}
    BY <2>1, WithinLeast DEF Inside
  <2> QED BY <2>2 DEF Kinds
<1>4. CASE Kinds(e) \cap {"abort", "panic"} # {}
  BY <1>2, <1>3, <1>4 DEF processBatch, Verdicts
<1>5. CASE Kinds(e) \cap {"abort", "panic"} = {}
  <2>1. processBatch(e, id, FALSE, TRUE) = {Verdict("claimed", 0)}
    BY <1>2, <1>5 DEF processBatch, Verdicts
  <2>2. CASE "batch" \notin Kinds(e)
    <3>1. Verdicts(e, id) = settle(e)
      BY <1>1, <1>2, <1>5, <2>2 DEF processBatch, Verdicts
    <3>2. e \in Inside(e)
      BY WithinLeast DEF Inside
    <3>3. SettledAs(e, id, e)
      BY <2>2, <3>1, <3>2 DEF SettledAs
    <3> QED BY <1>5, <2>1, <3>3 DEF IsSettled
  <2>3. CASE "batch" \in Kinds(e)
    <3>1. PICK b \in Outermost(e) : Found("batch")[e] = {b}
      BY <1>1, <2>3, OneBatch
    <3>2. Verdicts(e, id) = UNION {settle(OutcomeOf(c, id)) : c \in {b}}
      BY <1>1, <1>2, <1>5, <2>3, <3>1 DEF processBatch, Verdicts
    <3>3. b \in Inside(e) /\ b # Nil
      BY <3>1, FoundInside
    <3>4. b \in Values
      BY <3>3, WithinLeast DEF Inside
    <3>5. OutcomeOf(b, id) \in Held(b)
      <4>1. 1 \in 1 .. Len(errors[b].wraps)
        BY <3>3, <3>4, HeldFacts DEF WellMade
      <4> QED BY <3>3, <3>4, <4>1, HeldFacts DEF OutcomeOf
    <3>6. OutcomeOf(b, id) \in Inside(e)
      BY <3>3, <3>5, WithinLeast DEF Inside, Closed
    <3>7. UNION {settle(OutcomeOf(c, id)) : c \in {b}} = settle(OutcomeOf(b, id))
      OBVIOUS
    <3>8. SettledAs(e, id, OutcomeOf(b, id))
      BY <2>3, <3>2, <3>6, <3>7 DEF SettledAs
    <3>9. OutcomeOf(b, id) \in Values
      BY <3>6, WithinLeast DEF Inside
    <3> QED BY <1>5, <2>1, <3>8, <3>9 DEF IsSettled
  <2> QED BY <2>2, <2>3
<1> QED BY <1>4, <1>5

\* A message is settled by the documented order, one way only, and with a delay
\* only if one was asked for.
LEMMA SettledDocumented ==
  ASSUME OutcomesInv, NEW e \in Values, NEW id, NEW o \in Values, SettledAs(e, id, o)
  PROVE  /\ Statuses(e, id) = {Documented(o)}
         /\ \A v \in Verdicts(e, id) : v.status = Documented(o)
         /\ \A v \in Verdicts(e, id) : v.after > 0 =>
              \E x \in Inside(e) \ {Nil} : errors[x].kind = "retry" /\ errors[x].after = v.after
<1>1. Verdicts(e, id) = settle(o) /\ o \in Inside(e)
  BY DEF SettledAs
<1>2. Inside(o) \subseteq Inside(e)
  BY <1>1, WithinTrans DEF Inside
<1>3. Statuses(e, id) = {Documented(o)}
  BY <1>1, SettleDocumented DEF Statuses
<1>4. \A v \in settle(o) : v.status = Documented(o)
  BY SettleDocumented
<1> QED BY <1>1, <1>2, <1>3, <1>4, SettleDocumented

\* Markers count in the documented order, however deep they are wrapped, joined
\* and collected and whichever errors share others.
THEOREM PrecedenceAsDocumented == OutcomesSpec => []DocumentedPrecedence
<1>1. OutcomesInv => DocumentedPrecedence
  <2> SUFFICES ASSUME OutcomesInv, NEW e \in Values, NEW id \in Ids
      PROVE  CASE Kinds(e) \cap {"abort", "panic"} # {} -> Statuses(e, id) = {"stop"}
      [] Kinds(e) \cap {"abort", "panic", "batch"} = {} -> Statuses(e, id) = {Documented(e)}
      [] OTHER -> \E b \in Outermost(e) :
           LET own == id \in DOMAIN errors[b].outcomes
           IN  Statuses(e, id)
                 = {Documented(IF own THEN errors[b].outcomes[id] ELSE errors[b].wraps[1])}
    BY DEF DocumentedPrecedence
  <2>1. CASE Kinds(e) \cap {"abort", "panic"} # {}
    <3>1. Verdicts(e, id) = {Verdict("stop", 0)}
      BY <2>1, Processed, Zenon
    <3>2. Statuses(e, id) = {"stop"}
      BY <3>1 DEF Statuses, Verdict
    <3> QED BY <2>1, <3>2
  <2>2. CASE Kinds(e) \cap {"abort", "panic"} = {}
    <3>1. PICK o \in Values : SettledAs(e, id, o)
      BY <2>2, Processed, Zenon DEF IsSettled
    <3>2. Statuses(e, id) = {Documented(o)}
      BY <3>1, SettledDocumented, Zenon
    <3>3. CASE "batch" \notin Kinds(e)
      BY <2>2, <3>1, <3>2, <3>3 DEF SettledAs
    <3>4. CASE "batch" \in Kinds(e)
      <4>1. PICK b \in Outermost(e) : o = OutcomeOf(b, id)
        BY <3>1, <3>4 DEF SettledAs
      <4>2. Statuses(e, id)
              = {Documented(IF id \in DOMAIN errors[b].outcomes
                            THEN errors[b].outcomes[id] ELSE errors[b].wraps[1])}
        BY <3>2, <4>1 DEF OutcomeOf
      <4> QED BY <2>2, <3>4, <4>2
    <3> QED BY <3>3, <3>4
  <2> QED BY <2>1, <2>2
<1> QED BY <1>1, OutcomesInvariance, PTL

\* No order of the outcomes map decides how a message is settled.
THEOREM OrderDecidesNothing == OutcomesSpec => []MapOrderDecidesNothing
<1>1. OutcomesInv => MapOrderDecidesNothing
  <2> SUFFICES ASSUME OutcomesInv, NEW e \in Values, NEW id \in Ids
      PROVE  /\ \A v, w \in Verdicts(e, id) : v.status = w.status
             /\ \A v \in Verdicts(e, id) : v.after > 0 =>
                  \E x \in Inside(e) \ {Nil} : errors[x].kind = "retry" /\ errors[x].after = v.after
    BY DEF MapOrderDecidesNothing
  <2>1. CASE Kinds(e) \cap {"abort", "panic"} # {}
    <3>1. Verdicts(e, id) = {Verdict("stop", 0)}
      BY <2>1, Processed, Zenon
    <3>2. \A v \in Verdicts(e, id) : v.status = "stop" /\ v.after = 0
      BY <3>1 DEF Verdict
    <3> QED BY <3>2
  <2>2. CASE Kinds(e) \cap {"abort", "panic"} = {}
    <3>1. PICK o \in Values : SettledAs(e, id, o)
      BY <2>2, Processed, Zenon DEF IsSettled
    <3> QED BY <3>1, SettledDocumented
  <2> QED BY <2>1, <2>2
<1> QED BY <1>1, OutcomesInvariance, PTL

\* No wrapping, joining or collecting hides an error that stops the relay.
THEOREM AbortIsNeverHidden == OutcomesSpec => []AbortSticks
<1>1. OutcomesInv => AbortSticks
  <2> SUFFICES ASSUME OutcomesInv, NEW e \in Values, NEW id \in Ids, NEW lost \in BOOLEAN,
                      NEW x \in Inside(e), processBatch(x, id, FALSE, lost) = {Verdict("stop", 0)}
               PROVE  processBatch(e, id, FALSE, lost) = {Verdict("stop", 0)}
    BY DEF AbortSticks
  <2>1. x \in Values /\ Inside(x) \subseteq Inside(e)
    BY WithinLeast, WithinTrans DEF Inside
  <2>2. Kinds(x) \cap {"abort", "panic"} # {}
    <3> SUFFICES ASSUME Kinds(x) \cap {"abort", "panic"} = {} PROVE FALSE
      OBVIOUS
    <3>1. processBatch(x, id, FALSE, TRUE) = {Verdict("claimed", 0)} /\ IsSettled(x, id)
      BY <2>1, Processed, Zenon
    <3>2. Verdict("claimed", 0) # Verdict("stop", 0)
      BY DEF Verdict
    <3>3. lost = FALSE
      <4>1. CASE lost = TRUE
        BY <3>1, <3>2, <4>1, Zenon
      <4> QED BY <4>1
    <3>4. PICK o \in Values : SettledAs(x, id, o)
      BY <3>1 DEF IsSettled
    <3>5. Verdict("stop", 0) \in Verdicts(x, id)
      BY <3>3, Zenon DEF Verdicts
    <3>6. Documented(o) = "stop"
      BY <2>1, <3>4, <3>5, SettledDocumented DEF Verdict
    <3> QED BY <3>6 DEF Documented
  <2>3. Kinds(e) \cap {"abort", "panic"} # {}
    BY <2>1, <2>2 DEF Kinds
  <2>4. processBatch(e, id, FALSE, TRUE) = {Verdict("stop", 0)}
        /\ Verdicts(e, id) = {Verdict("stop", 0)}
    BY <2>3, Processed, Zenon
  <2>5. lost = TRUE \/ lost = FALSE
    OBVIOUS
  <2> QED BY <2>4, <2>5, Zenon DEF Verdicts
<1> QED BY <1>1, OutcomesInvariance, PTL

=============================================================================
