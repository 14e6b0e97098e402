-------------------------- MODULE LifecycleProofs --------------------------
(***************************************************************************)
(* Proofs about Lifecycle, for any number of workers, rows and faults.     *)
(***************************************************************************)
EXTENDS Lifecycle, FiniteSetTheorems, TLAPS

RelayParts == Workers \cup {"listener"}

\* The control state of the goroutines.
ControlOK ==
  /\ worker \in [Workers -> {"select", "drain", "publish", "returned"}]
  /\ listener \in {"acquire", "listen", "backoff", "returned"}
  /\ notes \in BOOLEAN /\ wake \in BOOLEAN
  /\ cleaner \in {"select", "clean", "returned"}
  /\ cancelled \subseteq Contexts
  /\ failure \in Goroutines \cup {"none"} /\ outFailure \in Goroutines \cup {"none"}
  /\ collected \subseteq {"relay", "cleaner"}
  /\ result \in Goroutines \cup {"none", "ctx"}
  /\ failed \subseteq Goroutines

\* Every failure that is kept is one that happened, and none is dropped: not by
\* the relay, which keeps the first of its goroutines, nor by Run, which has the
\* relay's and the cleaner's once it has their answers.
FailuresKept ==
  /\ failure # "none" => failure \in failed
  /\ outFailure # "none" => outFailure \in failed
  /\ failed \cap RelayParts # {} => failure # "none"
  /\ "relay" \in collected => RelayReturned /\ (failure # "none" => outFailure # "none")
  /\ "cleaner" \in collected =>
       cleaner = "returned" /\ ("cleaner" \in failed => outFailure # "none")

\* The library cancels a context of its own only after a failure, and a worker
\* returns only after a failure or when the caller cancelled.
ReturnsForCause ==
  /\ cancelled \cap {"run", "relay"} # {} => failed # {}
  /\ \A w \in Workers : worker[w] = "returned" => failed # {} \/ "caller" \in cancelled

\* What Run has returned.
ResultOK ==
  result # "none" =>
    /\ collected = {"relay", "cleaner"}
    /\ result = IF outFailure # "none" THEN outFailure ELSE "ctx"

RunInv == ControlOK /\ FailuresKept /\ ReturnsForCause /\ ResultOK

\* Nothing has failed or been cancelled at the start, and no worker has returned.
LEMMA RunInit == Init => RunInv
<1> SUFFICES ASSUME Init PROVE RunInv
  OBVIOUS
<1>1. ControlOK
  BY DEF Init, ControlOK
<1>2. FailuresKept /\ ReturnsForCause /\ ResultOK
  BY DEF Init, FailuresKept, ReturnsForCause, ResultOK
<1> QED BY <1>1, <1>2 DEF RunInv

\* "none" is no goroutine.
LEMMA NoneIsNobody == "none" \notin Goroutines /\ "cleaner" \notin RelayParts
  BY LifecycleAssumption DEF Goroutines, RelayParts

\* Steps that end no goroutine, cancel nothing of the library's and answer
\* nothing leave all of it as it is.
LEMMA QuietStep ==
  ASSUME RunInv, ControlOK',
         \A w \in Workers : worker'[w] = "returned" <=> worker[w] = "returned",
         listener' = "returned" <=> listener = "returned",
         cleaner' = "returned" <=> cleaner = "returned",
         cancelled' \in {cancelled, cancelled \cup {"caller"}},
         UNCHANGED <<failure, mainVars, failed>>
  PROVE  RunInv'
<1>1. FailuresKept'
  BY DEF RunInv, FailuresKept, RelayReturned, mainVars, RelayParts
<1>2. ReturnsForCause'
  BY DEF RunInv, ReturnsForCause
<1>3. ResultOK'
  BY DEF RunInv, ResultOK, mainVars
<1> QED BY <1>1, <1>2, <1>3 DEF RunInv

\* A goroutine of the relay fails and returns.
LEMMA RelayFails ==
  ASSUME RunInv, ControlOK', NEW g \in RelayParts, Fail(g),
         ~RelayReturned,
         UNCHANGED <<cleaner, mainVars>>
  PROVE  RunInv'
<1>1. /\ failed' = failed \cup {g}
      /\ failure' = IF failure = "none" THEN g ELSE failure
      /\ cancelled' = cancelled \cup {"relay"}
  BY DEF Fail
<1>2. g # "none" /\ g # "cleaner" /\ g \in failed'
  BY <1>1, NoneIsNobody DEF RelayParts, Goroutines
<1>3. "relay" \notin collected
  BY DEF RunInv, FailuresKept
<1>4. FailuresKept'
  BY <1>1, <1>2, <1>3 DEF RunInv, FailuresKept, mainVars
<1>5. ReturnsForCause'
  BY <1>2 DEF ReturnsForCause
<1>6. ResultOK'
  BY DEF RunInv, ResultOK, mainVars
<1> QED BY <1>4, <1>5, <1>6 DEF RunInv

\* The steps of a worker: only returning and failing matter.
LEMMA WorkerSteps ==
  ASSUME RunInv, NEW w \in Workers, Tick(w) \/ WorkerReturns(w) \/ WorkerStep(w)
  PROVE  RunInv'
<1>1. CASE Tick(w) \/ Woken(w) \/ DrainEnds(w) \/ Claim(w) \/ Settle(w) \/ BatchError(w)
  <2>1. \E s \in {"select", "drain", "publish"} :
          worker' = [worker EXCEPT ![w] = s] /\ worker[w] # "returned"
    BY <1>1 DEF Tick, Woken, DrainEnds, Claim, Settle, BatchError
  <2>2. /\ UNCHANGED <<listener, notes, cleaner, cancelled, failure, mainVars, failed>>
        /\ wake' \in {wake, FALSE}
    BY <1>1 DEF Tick, Woken, DrainEnds, Claim, Settle, BatchError
  <2>3. ControlOK'
    BY <2>1, <2>2 DEF RunInv, ControlOK, mainVars
  <2>4. \A v \in Workers : worker'[v] = "returned" <=> worker[v] = "returned"
    BY <2>1 DEF RunInv, ControlOK
  <2> QED BY <2>2, <2>3, <2>4, QuietStep
<1>2. CASE WorkerReturns(w)
  <2>1. worker' = [worker EXCEPT ![w] = "returned"] /\ worker[w] = "select" /\ RelayDone
    BY <1>2 DEF WorkerReturns
  <2>2. UNCHANGED <<listener, notes, wake, cleaner, cancelled, failure, mainVars, failed>>
    BY <1>2 DEF WorkerReturns
  <2>3. ControlOK'
    BY <2>1, <2>2 DEF RunInv, ControlOK, mainVars
  <2>4. failed # {} \/ "caller" \in cancelled
    BY <2>1 DEF RelayDone, RunDone, RunInv, ReturnsForCause
  <2>5. ReturnsForCause'
    BY <2>1, <2>2, <2>4 DEF RunInv, ControlOK, ReturnsForCause
  <2>6. ~RelayReturned
    BY <2>1 DEF RelayReturned
  <2>7. FailuresKept' /\ ResultOK'
    BY <2>2, <2>6 DEF RunInv, FailuresKept, ResultOK, mainVars
  <2> QED BY <2>3, <2>5, <2>7 DEF RunInv
<1>3. CASE WorkerFails(w) \/ WorkerPanics(w)
  <2>1. worker' = [worker EXCEPT ![w] = "returned"] /\ worker[w] # "returned" /\ Fail(w)
    BY <1>3 DEF WorkerFails, WorkerPanics, LeavesBatch
  <2>2. UNCHANGED <<listener, notes, wake, cleaner, mainVars>>
    BY <1>3 DEF WorkerFails, WorkerPanics, LeavesBatch
  <2>3. w \in RelayParts /\ w \in Goroutines
    BY DEF RelayParts, Goroutines
  <2>4. ControlOK'
    BY <2>1, <2>2, <2>3 DEF Fail, RunInv, ControlOK, mainVars, Contexts
  <2>5. ~RelayReturned
    BY <2>1 DEF RelayReturned
  <2> QED BY <2>1, <2>2, <2>3, <2>4, <2>5, RelayFails
<1> QED BY <1>1, <1>2, <1>3 DEF WorkerStep

\* The steps of the listener: only returning and a panic matter.
LEMMA ListenerSteps ==
  ASSUME RunInv, ListenerStep
  PROVE  RunInv'
<1>1. CASE Listen \/ Notified \/ ListenError \/ Reconnect
  <2>1. /\ listener # "returned" /\ listener' \in {"listen", "backoff", "acquire"}
        /\ notes' \in {notes, FALSE} /\ wake' \in {wake, TRUE}
        /\ UNCHANGED <<worker, cleaner, cancelled, failure, mainVars, failed>>
    BY <1>1 DEF Listen, Notified, ListenError, Reconnect
  <2>2. ControlOK'
    BY <2>1 DEF RunInv, ControlOK, mainVars
  <2> QED BY <2>1, <2>2, QuietStep
<1>2. CASE ListenerReturns
  <2>1. /\ listener # "returned" /\ listener' = "returned" /\ notes' = FALSE
        /\ UNCHANGED <<worker, wake, cleaner, cancelled, failure, mainVars, failed>>
    BY <1>2 DEF ListenerReturns
  <2>2. ControlOK'
    BY <2>1 DEF RunInv, ControlOK, mainVars
  <2>3. "relay" \notin collected
    BY <2>1 DEF RunInv, FailuresKept, RelayReturned
  <2>4. FailuresKept' /\ ReturnsForCause' /\ ResultOK'
    BY <2>1, <2>3 DEF RunInv, FailuresKept, ReturnsForCause, ResultOK, mainVars
  <2> QED BY <2>2, <2>4 DEF RunInv
<1>3. CASE ListenerPanics
  <2>1. /\ listener # "returned" /\ listener' = "returned" /\ notes' = FALSE
        /\ Fail("listener") /\ UNCHANGED <<worker, wake, cleaner, mainVars>>
    BY <1>3 DEF ListenerPanics
  <2>2. "listener" \in RelayParts /\ "listener" \in Goroutines
    BY DEF RelayParts, Goroutines
  <2>3. ControlOK'
    BY <2>1, <2>2 DEF Fail, RunInv, ControlOK, mainVars, Contexts
  <2>4. ~RelayReturned
    BY <2>1 DEF RelayReturned
  <2> QED BY <2>1, <2>2, <2>3, <2>4, RelayFails
<1> QED BY <1>1, <1>2, <1>3 DEF ListenerStep

\* The cleaner may fail; its answer is not in yet.
LEMMA CleanerSteps ==
  ASSUME RunInv, CleanTick \/ CleanerReturns \/ CleanerStep
  PROVE  RunInv'
<1>1. /\ cleaner # "returned" /\ cleaner' \in {"select", "clean", "returned"}
      /\ failed' \in {failed, failed \cup {"cleaner"}}
      /\ UNCHANGED <<relayVars, cancelled, mainVars>>
  BY DEF CleanTick, CleanerReturns, CleanerStep, Clean, CleanEnds, CleanError, CleanerFails
<1>2. ControlOK'
  BY <1>1 DEF RunInv, ControlOK, relayVars, mainVars, Goroutines
<1>3. "cleaner" \notin collected
  BY <1>1 DEF RunInv, FailuresKept
<1>4. FailuresKept'
  BY <1>1, <1>3, NoneIsNobody DEF RunInv, FailuresKept, RelayReturned, relayVars, mainVars
<1>5. ReturnsForCause' /\ ResultOK'
  BY <1>1 DEF RunInv, ReturnsForCause, ResultOK, relayVars, mainVars
<1> QED BY <1>2, <1>4, <1>5 DEF RunInv

\* Run receives an answer, keeps its error if it is the first, and returns.
LEMMA MainSteps ==
  ASSUME RunInv, MainStep
  PROVE  RunInv'
<1>1. ASSUME NEW part \in {"relay", "cleaner"}, NEW err \in Goroutines \cup {"none"},
             part \notin collected, Receive(part, err),
             err # "none" => err \in failed,
             part = "relay" => RelayReturned /\ err = failure,
             part = "cleaner" =>
               cleaner = "returned" /\ ("cleaner" \in failed => err # "none")
      PROVE  RunInv'
  <2>1. /\ collected' = collected \cup {part}
        /\ outFailure' = IF err # "none" /\ outFailure = "none" THEN err ELSE outFailure
        /\ cancelled' = IF err # "none" /\ outFailure = "none"
                        THEN cancelled \cup {"run"} ELSE cancelled
        /\ UNCHANGED <<relayVars, cleaner, result, failed>>
    BY <1>1 DEF Receive
  <2>2. ControlOK'
    BY <1>1, <2>1 DEF RunInv, ControlOK, relayVars, Contexts
  <2>3. FailuresKept'
    BY <1>1, <2>1 DEF RunInv, FailuresKept, RelayReturned, relayVars
  <2>4. ReturnsForCause'
    BY <1>1, <2>1 DEF RunInv, ReturnsForCause, relayVars
  <2>5. ResultOK'
    BY <1>1, <2>1 DEF RunInv, ResultOK
  <2> QED BY <2>2, <2>3, <2>4, <2>5 DEF RunInv
<1>2. CASE CollectRelay
  <2>1. /\ "relay" \notin collected /\ RelayReturned /\ Receive("relay", failure)
        /\ failure \in Goroutines \cup {"none"} /\ (failure # "none" => failure \in failed)
    BY <1>2 DEF CollectRelay, RunInv, ControlOK, FailuresKept
  <2> QED BY <1>1, <2>1
<1>3. CASE CollectCleaner
  <2> DEFINE err == IF "cleaner" \in failed THEN "cleaner" ELSE "none"
  <2>1. /\ "cleaner" \notin collected /\ cleaner = "returned" /\ Receive("cleaner", err)
        /\ err \in Goroutines \cup {"none"} /\ (err # "none" => err \in failed)
        /\ ("cleaner" \in failed => err # "none")
    BY <1>3 DEF CollectCleaner, Goroutines
  <2> HIDE DEF err
  <2> QED BY <1>1, <2>1
<1>4. CASE Return
  <2>1. /\ collected = {"relay", "cleaner"}
        /\ result' = IF outFailure # "none" THEN outFailure ELSE "ctx"
        /\ UNCHANGED <<relayVars, cleaner, cancelled, collected, outFailure, failed>>
    BY <1>4 DEF Return
  <2>2. ControlOK'
    BY <2>1 DEF RunInv, ControlOK, relayVars
  <2>3. FailuresKept' /\ ReturnsForCause' /\ ResultOK'
    BY <2>1 DEF RunInv, FailuresKept, ReturnsForCause, ResultOK, RelayReturned, relayVars
  <2> QED BY <2>2, <2>3 DEF RunInv
<1> QED BY <1>2, <1>3, <1>4 DEF MainStep

\* Every step of the goroutines, of callers and of time.
LEMMA RunStep == RunInv /\ [Next]_vars => RunInv'
<1> SUFFICES ASSUME RunInv, [Next]_vars PROVE RunInv'
  OBVIOUS
<1>1. CASE Enqueue \/ Requeue \/ ComeDue \/ Age \/ UNCHANGED vars
  <2>1. /\ notes' \in {notes, notes \/ listener = "listen"}
        /\ UNCHANGED <<worker, listener, wake, failure, cleaner, cancelled, mainVars, failed>>
    BY <1>1 DEF Enqueue, Requeue, ComeDue, Age, vars, relayVars
  <2>2. ControlOK'
    BY <2>1 DEF RunInv, ControlOK, mainVars
  <2> QED BY <2>1, <2>2, QuietStep
<1>2. CASE CancelCaller
  <2>1. /\ cancelled' = cancelled \cup {"caller"}
        /\ UNCHANGED <<relayVars, cleaner, mainVars, failed>>
    BY <1>2 DEF CancelCaller
  <2>2. ControlOK'
    BY <2>1 DEF RunInv, ControlOK, relayVars, mainVars, Contexts
  <2> QED BY <2>1, <2>2, QuietStep DEF relayVars
<1>3. ASSUME NEW w \in Workers, HeartbeatEnds(w) PROVE RunInv'
  <2>1. UNCHANGED <<worker, listener, notes, wake, failure, cleaner, cancelled, mainVars, failed>>
    BY <1>3 DEF HeartbeatEnds
  <2>2. ControlOK'
    BY <2>1 DEF RunInv, ControlOK, mainVars
  <2> QED BY <2>1, <2>2, QuietStep
<1> QED BY <1>1, <1>2, <1>3, WorkerSteps, ListenerSteps, CleanerSteps, MainSteps DEF Next

\* A heartbeat runs while its worker publishes, or nobody waits for it any more.
BeatInv ==
  /\ beating \subseteq Workers /\ orphaned \subseteq Workers
  /\ \A w \in beating : worker[w] = "publish" \/ w \in orphaned

\* A worker goes on only when publish has joined the heartbeat, or was left.
LEMMA BeatStep ==
  ASSUME RunInv, BeatInv, [Next]_vars
  PROVE  BeatInv'
<1>1. worker \in [Workers -> {"select", "drain", "publish", "returned"}]
  BY DEF RunInv, ControlOK
<1>2. ASSUME UNCHANGED beatVars,
             worker' = worker \/ \E w \in Workers, s \in {"select", "drain", "returned"} :
               worker[w] # "publish" /\ worker' = [worker EXCEPT ![w] = s]
      PROVE  BeatInv'
  BY <1>1, <1>2 DEF BeatInv, beatVars
<1>3. ASSUME NEW w \in Workers, Tick(w) \/ Woken(w) \/ WorkerReturns(w) \/ DrainEnds(w)
      PROVE  BeatInv'
  <2>1. UNCHANGED beatVars /\ worker[w] # "publish"
        /\ \E s \in {"select", "drain", "returned"} : worker' = [worker EXCEPT ![w] = s]
    BY <1>3 DEF Tick, Woken, WorkerReturns, DrainEnds
  <2> QED BY <1>2, <2>1
<1>4. ASSUME NEW w \in Workers, Claim(w) PROVE BeatInv'
  <2>1. /\ worker' = [worker EXCEPT ![w] = "publish"]
        /\ beating' = beating \cup {w} /\ orphaned' = orphaned
    BY <1>4 DEF Claim
  <2> QED BY <1>1, <2>1 DEF BeatInv
<1>5. ASSUME NEW w \in Workers, Settle(w) \/ BatchError(w) \/ WorkerFails(w)
      PROVE  BeatInv'
  <2>1. /\ \E s \in {"select", "drain", "returned"} : worker' = [worker EXCEPT ![w] = s]
        /\ beating' = beating \ {w} /\ orphaned' = orphaned
    BY <1>5 DEF Settle, BatchError, WorkerFails, LeavesBatch, Joined
  <2> QED BY <1>1, <2>1 DEF BeatInv
<1>6. ASSUME NEW w \in Workers, WorkerPanics(w) PROVE BeatInv'
  <2>1. /\ worker' = [worker EXCEPT ![w] = "returned"]
        /\ beating' = beating /\ orphaned' = orphaned \cup {w}
    BY <1>6 DEF WorkerPanics, LeavesBatch
  <2> QED BY <1>1, <2>1 DEF BeatInv
<1>7. ASSUME NEW w \in Workers, HeartbeatEnds(w) PROVE BeatInv'
  <2>1. /\ worker' = worker
        /\ beating' = beating \ {w} /\ orphaned' = orphaned \ {w}
    BY <1>7 DEF HeartbeatEnds
  <2> QED BY <2>1 DEF BeatInv
<1>8. CASE \/ Enqueue \/ Requeue \/ ComeDue \/ Age \/ CancelCaller
           \/ ListenerStep \/ CleanTick \/ CleanerReturns \/ CleanerStep \/ MainStep
           \/ UNCHANGED vars
  <2>1. UNCHANGED beatVars /\ worker' = worker
    BY <1>8 DEF Enqueue, Requeue, ComeDue, Age, CancelCaller, ListenerStep, Listen,
                Notified, ListenError, Reconnect, ListenerReturns, ListenerPanics,
                CleanTick, CleanerReturns, CleanerStep, Clean, CleanEnds, CleanError,
                CleanerFails, MainStep, CollectRelay, CollectCleaner, Return, Receive,
                vars, relayVars
  <2> QED BY <1>2, <2>1
<1> QED BY <1>3, <1>4, <1>5, <1>6, <1>7, <1>8 DEF Next, WorkerStep

\* Run returns when all its goroutines have, save a heartbeat that a panic of
\* Publish left on its own, with an error one of them failed with if any did,
\* whichever failed first, whether they failed before or after the caller
\* cancelled, and with ctx.Err() only when the caller did cancel.
THEOREM RunTruthful == Spec => []ReturnsTruthfully
<1>1. RunInv /\ BeatInv => ReturnsTruthfully
  <2> SUFFICES ASSUME RunInv, BeatInv, result # "none"
               PROVE  /\ RelayReturned /\ cleaner = "returned" /\ beating \subseteq orphaned
                      /\ IF failed = {} THEN result = "ctx" /\ "caller" \in cancelled
                                        ELSE result \in failed
    BY DEF ReturnsTruthfully
  <2>1. /\ RelayReturned /\ cleaner = "returned"
        /\ (failure # "none" => outFailure # "none")
        /\ ("cleaner" \in failed => outFailure # "none")
    BY DEF RunInv, ResultOK, FailuresKept
  <2>2. beating \subseteq orphaned
    BY <2>1 DEF BeatInv, RelayReturned
  <2>3. CASE failed = {}
    <3>1. outFailure = "none"
      BY <2>3 DEF RunInv, FailuresKept
    <3>2. PICK w \in Workers : worker[w] = "returned"
      BY <2>1, LifecycleAssumption DEF RelayReturned
    <3> QED BY <2>1, <2>3, <2>2, <3>1, <3>2 DEF RunInv, ResultOK, ReturnsForCause
  <2>4. CASE failed # {}
    <3>1. PICK g \in failed : g \in Goroutines
      BY <2>4 DEF RunInv, ControlOK
    <3>2. outFailure # "none"
      BY <2>1, <3>1 DEF RunInv, FailuresKept, Goroutines, RelayParts
    <3> QED BY <2>1, <2>4, <2>2, <3>2 DEF RunInv, ResultOK, FailuresKept
  <2> QED BY <2>3, <2>4
<1>2. Init => BeatInv
  BY DEF Init, BeatInv
<1> QED BY <1>1, <1>2, RunInit, RunStep, BeatStep, PTL DEF Spec

-----------------------------------------------------------------------------
(***************************************************************************)
(* Type correctness.  What bounds the row counts is that steps move rows   *)
(* and never make one: the counts are those of a placement of the rows     *)
(* enqueued so far.                                                        *)
(***************************************************************************)

\* Where a row can be: due, held, finished, old, kept, deleted (or requeued as
\* another one), or in the batch of a worker.
Spot(s) == <<s, "none">>
Claimed(w) == <<"batch", w>>
Places == {Spot(s) : s \in {"due", "held", "finished", "old", "kept", "gone"}}
            \cup {Claimed(w) : w \in Workers}

At(f, p) == {i \in DOMAIN f : f[i] = p}
Count(f, p) == Cardinality(At(f, p))

\* f places every row, and the row counts are right.
Placed(f) ==
  /\ f \in [1 .. enqueued -> Places]
  /\ Count(f, Spot("due")) = due /\ Count(f, Spot("held")) = held
  /\ Count(f, Spot("finished")) = finished /\ Count(f, Spot("old")) = old
  /\ Count(f, Spot("kept")) = kept
  /\ \A w \in Workers : Count(f, Claimed(w)) = batch[w]

RowsInv == enqueued \in 0 .. MaxRows /\ \E f \in [1 .. enqueued -> Places] : Placed(f)

\* Batches are no larger than BatchSize, faults within their bound.
BoundsOK == batch \in [Workers -> 0 .. BatchSize] /\ faults \in 0 .. MaxFaults

\* A worker's batch is empty unless it is publishing.
IdleIsEmpty == \A w \in Workers : worker[w] # "publish" => batch[w] = 0

CountInv == RowsInv /\ BoundsOK /\ IdleIsEmpty

\* g is f with k rows moved from p to q; g is f with one more row, at p.
Moved(f, g, p, q, k) ==
  /\ Count(g, p) = Count(f, p) - k
  /\ Count(g, q) = Count(f, q) + k
  /\ \A r \in Places \ {p, q} : Count(g, r) = Count(f, r)

Added(f, g, p) ==
  /\ Count(g, p) = Count(f, p) + 1
  /\ \A r \in Places \ {p} : Count(g, r) = Count(f, r)

\* A finite set has a subset of every smaller size.
LEMMA SubsetOfSize ==
  ASSUME NEW S, IsFiniteSet(S), NEW k \in 0 .. Cardinality(S)
  PROVE  \E T \in SUBSET S : IsFiniteSet(T) /\ Cardinality(T) = k
<1>1. Cardinality(S) \in Nat /\ ExistsBijection(1 .. Cardinality(S), S)
  BY FS_CardinalityType
<1>2. PICK b \in Bijection(1 .. Cardinality(S), S) : TRUE
  BY <1>1 DEF ExistsBijection
<1> DEFINE T == {b[i] : i \in 1 .. k}
           c == [i \in 1 .. k |-> b[i]]
<1>3. b \in [1 .. Cardinality(S) -> S] /\ k \in Nat /\ 1 .. k \subseteq 1 .. Cardinality(S)
  BY <1>1, <1>2 DEF Bijection, Injection
<1>4. \A i, j \in 1 .. Cardinality(S) : b[i] = b[j] => i = j
  BY <1>2 DEF Bijection, Injection, IsInjective
<1>5. T \in SUBSET S
  BY <1>3
<1>6. c \in Injection(1 .. k, T)
  BY <1>3, <1>4 DEF Injection, IsInjective
<1>7. c \in Surjection(1 .. k, T)
  BY DEF Surjection
<1>8. ExistsBijection(1 .. k, T)
  BY <1>6, <1>7 DEF ExistsBijection, Bijection
<1>9. IsFiniteSet(T) /\ Cardinality(T) = k
  BY <1>3, <1>5, <1>8, FS_CountingElements, FS_Subset
<1> QED BY <1>5, <1>9

\* The rows of one place are finitely many, and no more than all rows.
LEMMA CountType ==
  ASSUME NEW n \in Nat, NEW f \in [1 .. n -> Places], NEW p
  PROVE  IsFiniteSet(At(f, p)) /\ Count(f, p) \in 0 .. n
<1>1. IsFiniteSet(1 .. n) /\ Cardinality(1 .. n) = n
  BY FS_Interval
<1>2. At(f, p) \in SUBSET (1 .. n)
  BY DEF At
<1>3. IsFiniteSet(At(f, p)) /\ Cardinality(At(f, p)) <= n
  BY <1>1, <1>2, FS_Subset
<1>4. Cardinality(At(f, p)) \in Nat
  BY <1>3, FS_CardinalityType
<1> QED BY <1>3, <1>4 DEF Count

\* k rows can be moved from one place to another.
LEMMA Move ==
  ASSUME NEW n \in Nat, NEW f \in [1 .. n -> Places],
         NEW p \in Places, NEW q \in Places, p # q, NEW k \in 0 .. Count(f, p)
  PROVE  \E g \in [1 .. n -> Places] : Moved(f, g, p, q, k)
<1>1. IsFiniteSet(At(f, p)) /\ IsFiniteSet(At(f, q))
  BY CountType
<1>2. PICK T \in SUBSET At(f, p) : IsFiniteSet(T) /\ Cardinality(T) = k
  BY <1>1, SubsetOfSize DEF Count
<1> DEFINE g == [i \in 1 .. n |-> IF i \in T THEN q ELSE f[i]]
<1>3. g \in [1 .. n -> Places]
  OBVIOUS
<1>4. At(g, p) = At(f, p) \ T /\ At(g, q) = At(f, q) \cup T
  BY <1>2 DEF At
<1>5. \A r \in Places \ {p, q} : At(g, r) = At(f, r)
  BY <1>2 DEF At
<1>6. At(f, q) \cap T = {} /\ At(g, p) \cap T = {} /\ At(f, p) = At(g, p) \cup T
  BY <1>2, <1>4 DEF At
<1>7. IsFiniteSet(At(g, p))
  BY <1>3, CountType
<1> HIDE DEF g
<1>8. Cardinality(At(g, p) \cup T) = Cardinality(At(g, p)) + Cardinality(T) - Cardinality({})
  BY <1>2, <1>6, <1>7, FS_Union
<1>9. Cardinality(At(f, q) \cup T) = Cardinality(At(f, q)) + Cardinality(T) - Cardinality({})
  BY <1>1, <1>2, <1>6, FS_Union
<1>10. Cardinality({}) = 0 /\ Count(f, p) \in Nat /\ Count(f, q) \in Nat /\ Count(g, p) \in Nat
  BY <1>3, CountType, FS_EmptySet
<1>11. Count(g, p) = Count(f, p) - k
  BY <1>2, <1>6, <1>8, <1>10 DEF Count
<1>12. Count(g, q) = Count(f, q) + k
  BY <1>2, <1>4, <1>9, <1>10 DEF Count
<1>13. \A r \in Places \ {p, q} : Count(g, r) = Count(f, r)
  BY <1>5 DEF Count
<1> QED BY <1>3, <1>11, <1>12, <1>13 DEF Moved

\* One more row can be placed.
LEMMA Add ==
  ASSUME NEW n \in Nat, NEW f \in [1 .. n -> Places], NEW p \in Places
  PROVE  \E g \in [1 .. n + 1 -> Places] : Added(f, g, p)
<1> DEFINE g == [i \in 1 .. n + 1 |-> IF i = n + 1 THEN p ELSE f[i]]
<1>1. g \in [1 .. n + 1 -> Places]
  OBVIOUS
<1>2. At(g, p) = At(f, p) \cup {n + 1} /\ n + 1 \notin At(f, p)
  BY DEF At
<1>3. \A r \in Places \ {p} : At(g, r) = At(f, r)
  BY DEF At
<1>4. Cardinality(At(f, p) \cup {n + 1}) = Cardinality(At(f, p)) + 1
  BY <1>2, CountType, FS_AddElement
<1> HIDE DEF g
<1> QED BY <1>1, <1>2, <1>3, <1>4 DEF Count, Added

\* The places are different, and every one of them is a place.
LEMMA PlacesDiffer ==
  /\ \A s \in {"due", "held", "finished", "old", "kept", "gone"} : Spot(s) \in Places
  /\ \A s, t : s # t => Spot(s) # Spot(t)
  /\ \A w \in Workers : Claimed(w) \in Places
  /\ \A v, w : v # w => Claimed(v) # Claimed(w)
  /\ \A s \in {"due", "held", "finished", "old", "kept", "gone"} : \A w : Spot(s) # Claimed(w)
  BY DEF Places, Spot, Claimed

\* Callers and time: rows are added, come due and age.
LEMMA RowsOutside ==
  ASSUME RowsInv, Enqueue \/ Requeue \/ ComeDue \/ Age
  PROVE  RowsInv'
<1>0. PICK f \in [1 .. enqueued -> Places] : Placed(f)
  BY DEF RowsInv
<1>1. enqueued \in Nat /\ \A p : Count(f, p) \in 0 .. enqueued
  BY LifecycleAssumption, CountType DEF RowsInv
<1>2. /\ Spot("due") \in Places /\ Spot("held") \in Places /\ Spot("gone") \in Places
      /\ Spot("finished") \in Places /\ Spot("old") \in Places /\ Spot("kept") \in Places
  BY PlacesDiffer
<1>3. CASE Enqueue
  <2>1. PICK g \in [1 .. enqueued + 1 -> Places] : Added(f, g, Spot("due"))
    BY <1>1, <1>2, Add
  <2>2. /\ enqueued' = enqueued + 1 /\ enqueued' \in 0 .. MaxRows /\ due' = due + 1
        /\ UNCHANGED <<held, finished, old, kept, batch>>
    BY <1>1, <1>3, LifecycleAssumption DEF Enqueue, RowsInv
  <2>3. Placed(g)'
    BY <1>0, <2>1, <2>2, PlacesDiffer DEF Placed, Added
  <2> QED BY <2>1, <2>2, <2>3 DEF RowsInv
<1>4. CASE Requeue
  <2>1. PICK s \in {"finished", "old", "kept"} :
          /\ Count(f, Spot(s)) > 0
          /\ finished' = IF s = "finished" THEN finished - 1 ELSE finished
          /\ old' = IF s = "old" THEN old - 1 ELSE old
          /\ kept' = IF s = "kept" THEN kept - 1 ELSE kept
    BY <1>0, <1>4 DEF Requeue, Placed
  <2>2. /\ enqueued' = enqueued + 1 /\ enqueued' \in 0 .. MaxRows /\ due' = due + 1
        /\ UNCHANGED <<held, batch>>
    BY <1>1, <1>4, LifecycleAssumption DEF Requeue, RowsInv
  <2>3. 1 \in 0 .. Count(f, Spot(s)) /\ Spot(s) # Spot("gone") /\ Spot(s) \in Places
    BY <1>1, <2>1, PlacesDiffer
  <2>4. PICK h \in [1 .. enqueued -> Places] : Moved(f, h, Spot(s), Spot("gone"), 1)
    BY <1>1, <1>2, <2>3, Move
  <2>5. PICK g \in [1 .. enqueued + 1 -> Places] : Added(h, g, Spot("due"))
    BY <1>1, <1>2, Add
  <2>6. Placed(g)'
    BY <1>0, <2>1, <2>2, <2>4, <2>5, PlacesDiffer DEF Placed, Added, Moved
  <2> QED BY <2>2, <2>5, <2>6 DEF RowsInv
<1>5. CASE ComeDue
  <2>1. /\ due' = due + held /\ held' = held - held
        /\ UNCHANGED <<finished, old, kept, enqueued, batch>>
    BY <1>0, <1>1, <1>5 DEF ComeDue, relayVars, Placed
  <2>2. held \in 0 .. Count(f, Spot("held")) /\ Spot("held") # Spot("due")
    BY <1>0, <1>1, PlacesDiffer DEF Placed
  <2>3. PICK g \in [1 .. enqueued -> Places] : Moved(f, g, Spot("held"), Spot("due"), held)
    BY <1>1, <1>2, <2>2, Move
  <2>4. Placed(g)'
    BY <1>0, <2>1, <2>3, PlacesDiffer DEF Placed, Moved
  <2> QED BY <2>1, <2>3, <2>4 DEF RowsInv
<1>6. CASE Age
  <2>1. /\ old' = old + finished /\ finished' = finished - finished
        /\ UNCHANGED <<due, held, kept, enqueued, batch>>
    BY <1>0, <1>1, <1>6 DEF Age, relayVars, Placed
  <2>2. finished \in 0 .. Count(f, Spot("finished")) /\ Spot("finished") # Spot("old")
    BY <1>0, <1>1, PlacesDiffer DEF Placed
  <2>3. PICK g \in [1 .. enqueued -> Places] :
          Moved(f, g, Spot("finished"), Spot("old"), finished)
    BY <1>1, <1>2, <2>2, Move
  <2>4. Placed(g)'
    BY <1>0, <2>1, <2>3, PlacesDiffer DEF Placed, Moved
  <2> QED BY <2>1, <2>3, <2>4 DEF RowsInv
<1> QED BY <1>3, <1>4, <1>5, <1>6

\* A claim moves due rows into an empty batch.
LEMMA RowsClaimed ==
  ASSUME RowsInv, BoundsOK, IdleIsEmpty, NEW w \in Workers, Claim(w)
  PROVE  RowsInv' /\ BoundsOK'
<1>0. PICK f \in [1 .. enqueued -> Places] : Placed(f)
  BY DEF RowsInv
<1>1. PICK n \in 1 .. BatchSize :
        n <= due /\ due' = due - n /\ batch' = [batch EXCEPT ![w] = n]
  BY DEF Claim
<1>2. UNCHANGED <<held, finished, old, kept, enqueued, faults>> /\ batch[w] = 0
  BY DEF Claim, IdleIsEmpty
<1>3. enqueued \in Nat /\ BatchSize \in Nat
  BY LifecycleAssumption DEF RowsInv
<1>4. n \in 0 .. Count(f, Spot("due"))
  BY <1>0, <1>1, <1>3, CountType DEF Placed
<1>5. Spot("due") \in Places /\ Claimed(w) \in Places /\ Spot("due") # Claimed(w)
  BY PlacesDiffer
<1>6. PICK g \in [1 .. enqueued -> Places] : Moved(f, g, Spot("due"), Claimed(w), n)
  BY <1>3, <1>4, <1>5, Move
<1>7. \A v \in Workers : Count(g, Claimed(v)) = batch'[v]
  BY <1>0, <1>1, <1>2, <1>6, PlacesDiffer DEF Placed, BoundsOK, Moved
<1>8. Placed(g)'
  BY <1>0, <1>1, <1>2, <1>6, <1>7, PlacesDiffer DEF Placed, Moved
<1>9. BoundsOK'
  BY <1>1, <1>2, <1>3 DEF BoundsOK
<1> QED BY <1>2, <1>6, <1>8, <1>9 DEF RowsInv

\* A batch ends: k of its rows are finished, j of them to get old, the others held
\* back.
LEMMA RowsReleased ==
  ASSUME RowsInv, BoundsOK, NEW w \in Workers, NEW k \in 0 .. batch[w], NEW j \in 0 .. k,
         finished' = finished + j, kept' = kept + k - j, held' = held + batch[w] - k,
         batch' = [batch EXCEPT ![w] = 0], UNCHANGED <<due, old, enqueued>>
  PROVE  RowsInv'
<1>0. PICK f \in [1 .. enqueued -> Places] : Placed(f)
  BY DEF RowsInv
<1>1. /\ enqueued \in Nat /\ batch[w] = Count(f, Claimed(w))
      /\ batch[w] \in Nat /\ k \in Nat /\ j \in Nat
  BY <1>0, LifecycleAssumption DEF RowsInv, Placed, BoundsOK
<1>2. /\ Claimed(w) \in Places /\ Claimed(w) # Spot("finished")
      /\ Claimed(w) # Spot("held") /\ Claimed(w) # Spot("kept")
      /\ Spot("finished") \in Places /\ Spot("held") \in Places /\ Spot("kept") \in Places
  BY PlacesDiffer
<1> DEFINE l == k - j
           m == batch[w] - k
<1>3. l \in Nat /\ m \in Nat /\ batch[w] = j + l + m
  BY <1>1
<1>4. held' = held + m /\ kept' = kept + l
  <2>1. held \in Nat /\ kept \in Nat
    BY <1>0, <1>1, CountType DEF Placed
  <2> QED BY <1>1, <2>1
<1> HIDE DEF l, m
<1>5. PICK h \in [1 .. enqueued -> Places] : Moved(f, h, Claimed(w), Spot("finished"), j)
  <2>1. j \in 0 .. Count(f, Claimed(w))
    BY <1>1
  <2> QED BY <1>1, <1>2, <2>1, Move
<1>6. Count(h, Claimed(w)) = l + m
  <2>1. Count(h, Claimed(w)) = batch[w] - j
    BY <1>1, <1>5 DEF Moved
  <2> QED BY <1>1, <1>3, <2>1
<1>7. PICK e \in [1 .. enqueued -> Places] : Moved(h, e, Claimed(w), Spot("kept"), l)
  <2>1. l \in 0 .. Count(h, Claimed(w))
    BY <1>3, <1>6
  <2> QED BY <1>1, <1>2, <2>1, Move
<1>8. Count(e, Claimed(w)) = m
  BY <1>3, <1>6, <1>7 DEF Moved
<1>9. PICK g \in [1 .. enqueued -> Places] : Moved(e, g, Claimed(w), Spot("held"), m)
  <2>1. m \in 0 .. Count(e, Claimed(w))
    BY <1>3, <1>8
  <2> QED BY <1>1, <1>2, <2>1, Move
<1>10. Count(g, Claimed(w)) = 0
  BY <1>3, <1>8, <1>9 DEF Moved
<1>11. \A v \in Workers : Count(g, Claimed(v)) = batch'[v]
  BY <1>0, <1>5, <1>7, <1>9, <1>10, PlacesDiffer DEF Placed, BoundsOK, Moved
<1>12. /\ Count(g, Spot("due")) = Count(f, Spot("due"))
       /\ Count(g, Spot("old")) = Count(f, Spot("old"))
  BY <1>5, <1>7, <1>9, PlacesDiffer DEF Moved
<1>13. /\ Count(g, Spot("finished")) = Count(f, Spot("finished")) + j
       /\ Count(g, Spot("kept")) = Count(f, Spot("kept")) + l
       /\ Count(g, Spot("held")) = Count(f, Spot("held")) + m
  <2>1. /\ Count(h, Spot("finished")) = Count(f, Spot("finished")) + j
        /\ Count(h, Spot("kept")) = Count(f, Spot("kept"))
        /\ Count(h, Spot("held")) = Count(f, Spot("held"))
    BY <1>5, PlacesDiffer DEF Moved
  <2>2. /\ Count(e, Spot("finished")) = Count(h, Spot("finished"))
        /\ Count(e, Spot("kept")) = Count(h, Spot("kept")) + l
        /\ Count(e, Spot("held")) = Count(h, Spot("held"))
    BY <1>7, PlacesDiffer DEF Moved
  <2>3. /\ Count(g, Spot("finished")) = Count(e, Spot("finished"))
        /\ Count(g, Spot("kept")) = Count(e, Spot("kept"))
        /\ Count(g, Spot("held")) = Count(e, Spot("held")) + m
    BY <1>9, PlacesDiffer DEF Moved
  <2> QED BY <2>1, <2>2, <2>3
<1>14. Placed(g)'
  BY <1>0, <1>4, <1>9, <1>11, <1>12, <1>13 DEF Placed
<1> QED BY <1>9, <1>14 DEF RowsInv

\* The cleaner deletes old rows.
LEMMA RowsCleaned ==
  ASSUME RowsInv, Clean
  PROVE  RowsInv'
<1>0. PICK f \in [1 .. enqueued -> Places] : Placed(f)
  BY DEF RowsInv
<1>1. enqueued \in Nat /\ old \in Nat /\ old = Count(f, Spot("old"))
  BY <1>0, CountType, LifecycleAssumption DEF Placed, RowsInv
<1> DEFINE n == IF old < BatchSize THEN old ELSE BatchSize
<1>2. old' = old - n /\ UNCHANGED <<due, held, finished, kept, enqueued, batch>>
  BY DEF Clean, relayVars
<1>3. n \in 0 .. Count(f, Spot("old"))
  BY <1>1, LifecycleAssumption
<1> HIDE DEF n
<1>4. Spot("old") \in Places /\ Spot("gone") \in Places /\ Spot("old") # Spot("gone")
  BY PlacesDiffer
<1>5. PICK g \in [1 .. enqueued -> Places] : Moved(f, g, Spot("old"), Spot("gone"), n)
  BY <1>1, <1>3, <1>4, Move
<1>6. Placed(g)'
  BY <1>0, <1>2, <1>5, PlacesDiffer DEF Placed, Moved
<1> QED BY <1>2, <1>5, <1>6 DEF RowsInv

\* Every step keeps the counts right.
LEMMA CountStep ==
  ASSUME RunInv, CountInv, [Next]_vars
  PROVE  CountInv'
<1>1. CASE Enqueue \/ Requeue \/ ComeDue \/ Age
  <2>1. UNCHANGED <<worker, batch, faults>>
    BY <1>1 DEF Enqueue, Requeue, ComeDue, Age, relayVars
  <2> QED BY <1>1, <2>1, RowsOutside DEF CountInv, BoundsOK, IdleIsEmpty
<1>2. ASSUME NEW w \in Workers, Claim(w)
      PROVE  CountInv'
  <2>1. worker' = [worker EXCEPT ![w] = "publish"]
        /\ \A v \in Workers : v # w => batch'[v] = batch[v]
    BY <1>2 DEF Claim, CountInv, BoundsOK
  <2>2. IdleIsEmpty'
    BY <2>1 DEF CountInv, IdleIsEmpty, RunInv, ControlOK
  <2> QED BY <1>2, <2>2, RowsClaimed DEF CountInv
<1>3. ASSUME NEW w \in Workers,
             Settle(w) \/ BatchError(w) \/ WorkerFails(w) \/ WorkerPanics(w)
      PROVE  CountInv'
  <2>1. PICK k \in 0 .. batch[w] : \E j \in 0 .. k :
          /\ finished' = finished + j /\ kept' = kept + k - j /\ held' = held + batch[w] - k
          /\ batch' = [batch EXCEPT ![w] = 0] /\ UNCHANGED <<due, old, enqueued>>
    <3>1. CASE Settle(w)
      BY <3>1 DEF Settle
    <3>2. CASE BatchError(w) \/ WorkerFails(w) \/ WorkerPanics(w)
      <4>1. PICK f \in [1 .. enqueued -> Places] : Placed(f)
        BY DEF CountInv, RowsInv
      <4>2. finished \in Nat /\ kept \in Nat /\ held \in Nat /\ batch[w] \in Nat
        BY <4>1, CountType, LifecycleAssumption DEF CountInv, RowsInv, Placed, BoundsOK
      <4>3. /\ held' = held + batch[w] - 0 /\ finished' = finished + 0
            /\ kept' = kept + 0 - 0 /\ 0 \in 0 .. batch[w] /\ 0 \in 0 .. 0
            /\ batch' = [batch EXCEPT ![w] = 0] /\ UNCHANGED <<due, old, enqueued>>
        BY <3>2, <4>2 DEF BatchError, WorkerFails, WorkerPanics, LeavesBatch
      <4> QED BY <4>3
    <3> QED BY <1>3, <3>1, <3>2
  <2>2. RowsInv' /\ batch' = [batch EXCEPT ![w] = 0]
    BY <2>1, RowsReleased DEF CountInv
  <2>3. \E s \in {"select", "drain", "returned"} : worker' = [worker EXCEPT ![w] = s]
    BY <1>3 DEF Settle, BatchError, WorkerFails, WorkerPanics, LeavesBatch
  <2>4. faults' = faults \/ Fault
    BY <1>3 DEF Settle, BatchError, WorkerFails, WorkerPanics, LeavesBatch
  <2>5. BoundsOK'
    BY <2>2, <2>4, LifecycleAssumption DEF CountInv, BoundsOK, Fault
  <2>6. \A v \in Workers : batch'[v] = IF v = w THEN 0 ELSE batch[v]
    BY <2>2 DEF CountInv, BoundsOK
  <2>7. \A v \in Workers : v # w => worker'[v] = worker[v]
    BY <2>3 DEF RunInv, ControlOK
  <2>8. IdleIsEmpty'
    BY <2>6, <2>7 DEF CountInv, IdleIsEmpty
  <2> QED BY <2>2, <2>5, <2>8 DEF CountInv
<1>4. CASE Clean
  <2>1. UNCHANGED <<worker, batch, faults>>
    BY <1>4 DEF Clean, relayVars
  <2> QED BY <1>4, <2>1, RowsCleaned DEF CountInv, BoundsOK, IdleIsEmpty
<1>5. ASSUME UNCHANGED <<rowVars, batch>>,
             faults' = faults \/ Fault,
             worker' = worker \/ \E w \in Workers, s \in {"select", "drain", "returned"} :
               worker[w] # "publish" /\ worker' = [worker EXCEPT ![w] = s]
      PROVE  CountInv'
  <2>1. RowsInv'
    BY <1>5 DEF CountInv, RowsInv, Placed, rowVars
  <2>2. BoundsOK'
    BY <1>5, LifecycleAssumption DEF CountInv, BoundsOK, Fault
  <2>3. IdleIsEmpty'
    BY <1>5 DEF CountInv, IdleIsEmpty, RunInv, ControlOK
  <2> QED BY <2>1, <2>2, <2>3 DEF CountInv
<1>6. ASSUME NEW w \in Workers, Tick(w) \/ Woken(w) \/ WorkerReturns(w) \/ DrainEnds(w)
      PROVE  CountInv'
  <2>1. UNCHANGED <<rowVars, batch, faults>> /\ worker[w] # "publish"
        /\ \E s \in {"select", "drain", "returned"} : worker' = [worker EXCEPT ![w] = s]
    BY <1>6 DEF Tick, Woken, WorkerReturns, DrainEnds
  <2> QED BY <1>5, <2>1
<1>7. CASE CancelCaller \/ ListenerStep \/ CleanTick \/ CleanerReturns \/ CleanEnds
             \/ CleanError \/ CleanerFails \/ MainStep \/ UNCHANGED vars
  <2>1. UNCHANGED <<rowVars, batch, worker>> /\ (faults' = faults \/ Fault)
    BY <1>7 DEF CancelCaller, ListenerStep, Listen, Notified, ListenError, Reconnect,
                ListenerReturns, ListenerPanics, CleanTick, CleanerReturns, CleanEnds,
                CleanError, CleanerFails, MainStep, CollectRelay, CollectCleaner, Return,
                Receive, vars, relayVars
  <2> QED BY <1>5, <2>1
<1>8. ASSUME NEW w \in Workers, HeartbeatEnds(w) PROVE CountInv'
  <2>1. UNCHANGED <<rowVars, batch, worker, faults>>
    BY <1>8 DEF HeartbeatEnds
  <2> QED BY <1>5, <2>1
<1> QED BY <1>1, <1>2, <1>3, <1>4, <1>6, <1>7, <1>8 DEF Next, WorkerStep, CleanerStep

\* No row starts counted.
LEMMA CountInit == Init => CountInv
<1> SUFFICES ASSUME Init PROVE CountInv
  OBVIOUS
<1> DEFINE f == [i \in 1 .. enqueued |-> Spot("gone")]
<1>1. f \in [1 .. enqueued -> Places] /\ \A p : At(f, p) = {}
  BY PlacesDiffer DEF Init, At
<1>2. \A p : Count(f, p) = 0
  BY <1>1, FS_EmptySet DEF Count
<1> HIDE DEF f
<1>3. Placed(f)
  BY <1>1, <1>2 DEF Placed, Init
<1>4. enqueued \in 0 .. MaxRows
  BY LifecycleAssumption DEF Init
<1>5. RowsInv
  BY <1>1, <1>3, <1>4 DEF RowsInv
<1>6. BoundsOK /\ IdleIsEmpty
  BY LifecycleAssumption DEF BoundsOK, IdleIsEmpty, Init
<1> QED BY <1>5, <1>6 DEF CountInv

\* Counts and control state stay within their types: no claim, settlement, failed
\* batch, requeue or cleanup makes a row out of nothing or counts one twice, so
\* that there are never more than were enqueued, and no batch exceeds BatchSize.
THEOREM TypeCorrect == Spec => []TypeOK
<1>1. RunInv /\ BeatInv /\ CountInv => TypeOK
  <2> SUFFICES ASSUME RunInv, BeatInv, CountInv PROVE TypeOK
    OBVIOUS
  <2>1. PICK f \in [1 .. enqueued -> Places] : Placed(f)
    BY DEF CountInv, RowsInv
  <2>2. enqueued \in 0 .. MaxRows /\ enqueued \in Nat
    BY LifecycleAssumption DEF CountInv, RowsInv
  <2>3. \A p : Count(f, p) \in 0 .. enqueued
    BY <2>2, CountType
  <2>4. {due, held, finished, old, kept, enqueued} \subseteq 0 .. enqueued
    BY <2>1, <2>2, <2>3 DEF Placed
  <2>5. {due, held, finished, old, kept, enqueued} \subseteq 0 .. MaxRows
    BY <2>2, <2>4, LifecycleAssumption
  <2> QED BY <2>5 DEF RunInv, ControlOK, BeatInv, CountInv, BoundsOK, TypeOK
<1>2. Init => BeatInv
  BY DEF Init, BeatInv
<1> QED BY <1>1, <1>2, RunInit, RunStep, BeatStep, CountInit, CountStep, PTL DEF Spec

=============================================================================
