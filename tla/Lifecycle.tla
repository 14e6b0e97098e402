----------------------------- MODULE Lifecycle -----------------------------
(***************************************************************************)
(* The goroutines of Outbox.Run: the relay's workers, the heartbeat each   *)
(* has while it publishes, and the listener (engine/relay.go), the cleaner *)
(* (engine/cleaner.go), and how they wake, fail and stop (outbox.go).      *)
(*                                                                         *)
(* The table, in unordered mode, is abstracted to counts of rows: due,     *)
(* held back (by a lease that must expire or a retry not due yet),         *)
(* finished, old (finished and past the retention of their status), and    *)
(* kept (finished, without a retention for their status).  Publishing and  *)
(* settling one batch is one step with an outcome.                         *)
(***************************************************************************)
EXTENDS Integers, FiniteSets

CONSTANTS
  Workers,              \* set.Concurrency worker goroutines
  BatchSize,
  PoolSize,             \* connections of the pool the relay and its listener share
  MaxRows, MaxFaults    \* bounds: enqueues and requeues; errors and panics

ASSUME LifecycleAssumption ==
  /\ IsFiniteSet(Workers) /\ Workers # {}
  /\ {"listener", "cleaner", "ctx", "none"} \cap Workers = {}
  /\ BatchSize \in Nat \ {0} /\ PoolSize \in Nat \ {0}
  /\ MaxRows \in Nat /\ MaxFaults \in Nat

VARIABLES
  due, held, finished, old, kept,   \* row counts
  enqueued,           \* enqueues and requeues so far
  worker, batch,      \* of each worker: where it is, and the rows it has claimed
  beating,            \* workers whose heartbeat goroutine runs
  orphaned,           \* those of them whose Publish panicked: nobody waits for it
  listener, notes,    \* where it is, and whether its connection has notifications
  cleaner,            \* where it is
  wake,               \* the channel of capacity one
  cancelled,          \* contexts cancelled: "caller", "run", "relay"
  failure,            \* relay.Run's failure
  collected, result,  \* Outbox.Run: answers received; "none" until it returns
  outFailure,         \* Outbox.Run's failure
  faults, failed      \* errors so far; history: goroutines that returned one

rowVars == <<due, held, finished, old, kept, enqueued>>
beatVars == <<beating, orphaned>>
relayVars == <<worker, batch, beatVars, listener, notes, wake, failure>>
mainVars == <<collected, result, outFailure>>
vars == <<rowVars, relayVars, cleaner, cancelled, mainVars, faults, failed>>

Contexts == {"caller", "run", "relay"}
Goroutines == Workers \cup {"listener", "cleaner"}

TypeOK ==
  /\ {due, held, finished, old, kept, enqueued} \subseteq 0 .. MaxRows
  /\ worker \in [Workers -> {"select", "drain", "publish", "returned"}]
  /\ batch \in [Workers -> 0 .. BatchSize]
  /\ beating \subseteq Workers /\ orphaned \subseteq Workers
  /\ listener \in {"acquire", "listen", "backoff", "returned"}
  /\ notes \in BOOLEAN /\ wake \in BOOLEAN
  /\ cleaner \in {"select", "clean", "returned"}
  /\ cancelled \subseteq Contexts
  /\ failure \in Goroutines \cup {"none"} /\ outFailure \in Goroutines \cup {"none"}
  /\ collected \subseteq {"relay", "cleaner"}
  /\ result \in Goroutines \cup {"none", "ctx"}
  /\ faults \in 0 .. MaxFaults /\ failed \subseteq Goroutines

\* runCtx derives from the caller's context, the relay's ctx from runCtx.
RunDone   == cancelled \cap {"caller", "run"} # {}
RelayDone == RunDone \/ "relay" \in cancelled

\* There is a listener if notifications are on and there is a pool to listen
\* with, a cleaner if a retention and the cleanup interval are set.
Init ==
  /\ due = 0 /\ held = 0 /\ finished = 0 /\ old = 0 /\ kept = 0
  /\ enqueued = 0
  /\ worker = [w \in Workers |-> "select"]
  /\ batch = [w \in Workers |-> 0]
  /\ beating = {} /\ orphaned = {}
  /\ listener \in {"acquire", "returned"}
  /\ notes = FALSE /\ wake = FALSE
  /\ cleaner \in {"select", "returned"}
  /\ cancelled = {}
  /\ failure = "none" /\ outFailure = "none"
  /\ collected = {} /\ result = "none"
  /\ faults = 0 /\ failed = {}

-----------------------------------------------------------------------------
(***************************************************************************)
(* Callers and time                                                        *)
(***************************************************************************)

\* A transaction with an enqueue commits: NOTIFY reaches a listening
\* connection and is lost otherwise.
Enqueue ==
  /\ enqueued < MaxRows
  /\ enqueued' = enqueued + 1
  /\ due' = due + 1
  /\ notes' = (notes \/ listener = "listen")
  /\ UNCHANGED <<held, finished, old, kept, worker, batch, beatVars, listener, wake,
                 failure, cleaner, cancelled, mainVars, faults, failed>>

\* A transaction with the requeue of a dead row commits.
Requeue ==
  /\ enqueued < MaxRows
  /\ \/ finished > 0 /\ finished' = finished - 1 /\ UNCHANGED <<old, kept>>
     \/ old > 0 /\ old' = old - 1 /\ UNCHANGED <<finished, kept>>
     \/ kept > 0 /\ kept' = kept - 1 /\ UNCHANGED <<finished, old>>
  /\ enqueued' = enqueued + 1
  /\ due' = due + 1
  /\ notes' = (notes \/ listener = "listen")
  /\ UNCHANGED <<held, worker, batch, beatVars, listener, wake, failure, cleaner,
                 cancelled, mainVars, faults, failed>>

\* Leases expire and retries come due.  Nothing signals it.
ComeDue ==
  /\ held > 0
  /\ due' = due + held
  /\ held' = 0
  /\ UNCHANGED <<finished, old, kept, enqueued, relayVars, cleaner, cancelled,
                 mainVars, faults, failed>>

\* Finished rows outlive the retention of their status.  Where there is none they
\* are kept, and never get old.
Age ==
  /\ finished > 0
  /\ old' = old + finished
  /\ finished' = 0
  /\ UNCHANGED <<due, held, kept, enqueued, relayVars, cleaner, cancelled, mainVars,
                 faults, failed>>

CancelCaller ==
  /\ "caller" \notin cancelled
  /\ cancelled' = cancelled \cup {"caller"}
  /\ UNCHANGED <<rowVars, relayVars, cleaner, mainVars, faults, failed>>

-----------------------------------------------------------------------------
(***************************************************************************)
(* Workers                                                                 *)
(***************************************************************************)

Fault == faults < MaxFaults /\ faults' = faults + 1

\* A statement finds a connection some time: other statements give theirs back,
\* the listener keeps its own.
Conn == listener = "listen" => PoolSize > 1

\* Defect: the error cancels the relay's context but is not kept.
Fail_Forgets(g) ==
  /\ failed' = failed \cup {g}
  /\ cancelled' = cancelled \cup {"relay"}
  /\ UNCHANGED failure

\* fail: the first error is kept and cancels the relay's context.
Fail(g) ==
  /\ failed' = failed \cup {g}
  /\ failure' = IF failure = "none" THEN g ELSE failure
  /\ cancelled' = cancelled \cup {"relay"}

\* Defect: workers rely on notifications and never poll.
Tick_Never(w) == FALSE /\ UNCHANGED vars

\* The select of worker: the ticker, a wake-up, or the end of the context.
Tick(w) ==
  /\ worker[w] = "select"
  /\ worker' = [worker EXCEPT ![w] = "drain"]
  /\ UNCHANGED <<rowVars, batch, beatVars, listener, notes, wake, failure, cleaner,
                 cancelled, mainVars, faults, failed>>

Woken(w) ==
  /\ worker[w] = "select" /\ wake
  /\ worker' = [worker EXCEPT ![w] = "drain"]
  /\ wake' = FALSE
  /\ UNCHANGED <<rowVars, batch, beatVars, listener, notes, failure, cleaner, cancelled,
                 mainVars, faults, failed>>

WorkerReturns(w) ==
  /\ worker[w] = "select" /\ RelayDone
  /\ worker' = [worker EXCEPT ![w] = "returned"]
  /\ UNCHANGED <<rowVars, batch, beatVars, listener, notes, wake, failure, cleaner,
                 cancelled, mainVars, faults, failed>>

\* drain ends: the context is done, or nothing is due.
DrainEnds(w) ==
  /\ worker[w] = "drain"
  /\ RelayDone \/ (Conn /\ due = 0)
  /\ worker' = [worker EXCEPT ![w] = "select"]
  /\ UNCHANGED <<rowVars, batch, beatVars, listener, notes, wake, failure, cleaner,
                 cancelled, mainVars, faults, failed>>

\* Defect: a claimed row stays due.
Claim_KeepsDue(w) ==
  /\ worker[w] = "drain" /\ ~RelayDone /\ Conn
  /\ \E n \in 1 .. BatchSize : n <= due /\ batch' = [batch EXCEPT ![w] = n]
  /\ worker' = [worker EXCEPT ![w] = "publish"]
  /\ beating' = beating \cup {w}
  /\ UNCHANGED <<rowVars, orphaned, listener, notes, wake, failure, cleaner, cancelled,
                 mainVars, faults, failed>>

\* processBatch claims: at most BatchSize rows, and at least one (ordered mode
\* and concurrent claims may leave due rows out).  publish starts the heartbeat.
Claim(w) ==
  /\ worker[w] = "drain" /\ ~RelayDone /\ Conn
  /\ \E n \in 1 .. BatchSize :
       /\ n <= due
       /\ due' = due - n
       /\ batch' = [batch EXCEPT ![w] = n]
  /\ worker' = [worker EXCEPT ![w] = "publish"]
  /\ beating' = beating \cup {w}
  /\ UNCHANGED <<held, finished, old, kept, enqueued, orphaned, listener, notes, wake,
                 failure, cleaner, cancelled, mainVars, faults, failed>>

\* Defect: publish does not wait for the heartbeat.
Joined_NotAwaited(w) == UNCHANGED beatVars

\* publish has closed stop and received from done.
Joined(w) == beating' = beating \ {w} /\ UNCHANGED orphaned

\* Every message of the batch is settled: k of them for good, j of those with a
\* status that has a retention, the others, that the publisher failed, to be
\* retried.  drain goes on.
Settle(w) ==
  /\ worker[w] = "publish" /\ Conn
  /\ \E k \in 0 .. batch[w] : \E j \in 0 .. k :
       /\ finished' = finished + j
       /\ kept' = kept + k - j
       /\ held' = held + batch[w] - k
       /\ IF k = batch[w] THEN UNCHANGED faults ELSE Fault
  /\ batch' = [batch EXCEPT ![w] = 0]
  /\ worker' = [worker EXCEPT ![w] = "drain"]
  /\ Joined(w)
  /\ UNCHANGED <<due, old, enqueued, listener, notes, wake, failure, cleaner,
                 cancelled, mainVars, failed>>

\* Claim, renewal or completion failed, by a fault or because the context is
\* done, or a renewal timed out for want of a connection: drain logs it and
\* gives up for now; what was claimed waits for its lease to expire.
BatchError(w) ==
  /\ worker[w] \in {"drain", "publish"}
  /\ IF RelayDone \/ (worker[w] = "publish" /\ ~Conn)
     THEN UNCHANGED faults ELSE Fault
  /\ held' = held + batch[w]
  /\ batch' = [batch EXCEPT ![w] = 0]
  /\ worker' = [worker EXCEPT ![w] = "select"]
  /\ Joined(w)
  /\ UNCHANGED <<due, finished, old, kept, enqueued, listener, notes, wake, failure,
                 cleaner, cancelled, mainVars, failed>>

\* The worker returns an error; what it had claimed waits for its lease to expire.
LeavesBatch(w) ==
  /\ Fault
  /\ Fail(w)
  /\ held' = held + batch[w]
  /\ batch' = [batch EXCEPT ![w] = 0]
  /\ worker' = [worker EXCEPT ![w] = "returned"]
  /\ UNCHANGED <<due, finished, old, kept, enqueued, listener, notes, wake, cleaner,
                 mainVars>>

\* An Abort outcome, an error the classifier accepts, or a panic of anything but
\* Publish: of the heartbeat, which hands it over, or outside publish.
WorkerFails(w) ==
  /\ worker[w] \in {"drain", "publish"}
  /\ LeavesBatch(w)
  /\ Joined(w)

\* Publish panics: publish is left at once, nobody waits for the heartbeat.
WorkerPanics(w) ==
  /\ worker[w] = "publish"
  /\ LeavesBatch(w)
  /\ orphaned' = orphaned \cup {w}
  /\ UNCHANGED beating

\* Defect: done has no buffer, so that the heartbeat waits for publish to receive.
HeartbeatEnds_Unbuffered(w) ==
  /\ w \in beating \ orphaned /\ worker[w] # "publish"
  /\ beating' = beating \ {w} /\ orphaned' = orphaned \ {w}
  /\ UNCHANGED <<rowVars, worker, batch, listener, notes, wake, failure, cleaner,
                 cancelled, mainVars, faults, failed>>

\* A heartbeat whose publish has been left finds its context cancelled and ends;
\* its result fits in the buffer of done.  When another ends before it is joined
\* makes no difference.
HeartbeatEnds(w) ==
  /\ w \in beating /\ worker[w] # "publish"
  /\ beating' = beating \ {w} /\ orphaned' = orphaned \ {w}
  /\ UNCHANGED <<rowVars, worker, batch, listener, notes, wake, failure, cleaner,
                 cancelled, mainVars, faults, failed>>

-----------------------------------------------------------------------------
(***************************************************************************)
(* Listener                                                                *)
(***************************************************************************)

Listen ==
  /\ listener = "acquire" /\ ~RelayDone
  /\ listener' = "listen"
  /\ UNCHANGED <<rowVars, worker, batch, beatVars, notes, wake, failure, cleaner,
                 cancelled, mainVars, faults, failed>>

\* A notification: wake a worker, unless a wake-up is pending already.
Notified ==
  /\ listener = "listen" /\ notes
  /\ notes' = FALSE
  /\ wake' = TRUE
  /\ UNCHANGED <<rowVars, worker, batch, beatVars, listener, failure, cleaner, cancelled,
                 mainVars, faults, failed>>

\* The connection fails, and with it the notifications it had received.
ListenError ==
  /\ listener \in {"acquire", "listen"} /\ ~RelayDone /\ Fault
  /\ listener' = "backoff"
  /\ notes' = FALSE
  /\ UNCHANGED <<rowVars, worker, batch, beatVars, wake, failure, cleaner, cancelled,
                 mainVars, failed>>

Reconnect ==
  /\ listener = "backoff"
  /\ listener' = "acquire"
  /\ UNCHANGED <<rowVars, worker, batch, beatVars, notes, wake, failure, cleaner,
                 cancelled, mainVars, faults, failed>>

\* Defect: waiting for a notification ignores the context.
ListenerReturns_NotWhileListening ==
  /\ listener = "acquire" /\ RelayDone
  /\ listener' = "returned"
  /\ notes' = FALSE
  /\ UNCHANGED <<rowVars, worker, batch, beatVars, wake, failure, cleaner, cancelled,
                 mainVars, faults, failed>>

ListenerReturns ==
  /\ listener \in {"acquire", "listen"} /\ RelayDone
  /\ listener' = "returned"
  /\ notes' = FALSE
  /\ UNCHANGED <<rowVars, worker, batch, beatVars, wake, failure, cleaner, cancelled,
                 mainVars, faults, failed>>

ListenerPanics ==
  /\ listener \in {"acquire", "listen"} /\ Fault
  /\ Fail("listener")
  /\ listener' = "returned"
  /\ notes' = FALSE
  /\ UNCHANGED <<rowVars, worker, batch, beatVars, wake, cleaner, mainVars>>

-----------------------------------------------------------------------------
(***************************************************************************)
(* Cleaner                                                                 *)
(***************************************************************************)

CleanTick ==
  /\ cleaner = "select"
  /\ cleaner' = "clean"
  /\ UNCHANGED <<rowVars, relayVars, cancelled, mainVars, faults, failed>>

CleanerReturns ==
  /\ cleaner = "select" /\ RunDone
  /\ cleaner' = "returned"
  /\ UNCHANGED <<rowVars, relayVars, cancelled, mainVars, faults, failed>>

\* One cleanup statement; a full batch is followed by another.
Clean ==
  /\ cleaner = "clean" /\ ~RunDone /\ Conn
  /\ LET n == IF old < BatchSize THEN old ELSE BatchSize
     IN  /\ old' = old - n
         /\ cleaner' = IF n < BatchSize THEN "select" ELSE "clean"
  /\ UNCHANGED <<due, held, finished, kept, enqueued, relayVars, cancelled, mainVars,
                 faults, failed>>

CleanEnds ==
  /\ cleaner = "clean" /\ RunDone
  /\ cleaner' = "select"
  /\ UNCHANGED <<rowVars, relayVars, cancelled, mainVars, faults, failed>>

\* Defect: the first failed cleanup ends the cleaner.
CleanError_Returns ==
  /\ cleaner = "clean" /\ Fault
  /\ cleaner' = "returned"
  /\ UNCHANGED <<rowVars, relayVars, cancelled, mainVars, failed>>

CleanError ==
  /\ cleaner = "clean"
  /\ IF RunDone THEN UNCHANGED faults ELSE Fault
  /\ cleaner' = "select"
  /\ UNCHANGED <<rowVars, relayVars, cancelled, mainVars, failed>>

CleanerFails ==
  /\ cleaner = "clean" /\ Fault
  /\ cleaner' = "returned"
  /\ failed' = failed \cup {"cleaner"}
  /\ UNCHANGED <<rowVars, relayVars, cancelled, mainVars>>

-----------------------------------------------------------------------------
(***************************************************************************)
(* Outbox.Run                                                              *)
(***************************************************************************)

\* relay.Run returns once every worker and the listener have (wg.Wait).
RelayReturned == listener = "returned" /\ \A w \in Workers : worker[w] = "returned"

\* Outbox.Run receives one answer: the first error is kept and cancels runCtx.
Receive(part, err) ==
  /\ collected' = collected \cup {part}
  /\ IF err # "none" /\ outFailure = "none"
     THEN outFailure' = err /\ cancelled' = cancelled \cup {"run"}
     ELSE UNCHANGED <<outFailure, cancelled>>
  /\ UNCHANGED <<rowVars, relayVars, cleaner, result, faults, failed>>

\* Defect: an error is kept but the other half is not told to stop.
CollectCleaner_NoCancel ==
  /\ "cleaner" \notin collected /\ cleaner = "returned"
  /\ collected' = collected \cup {"cleaner"}
  /\ outFailure' = IF "cleaner" \in failed /\ outFailure = "none"
                   THEN "cleaner" ELSE outFailure
  /\ UNCHANGED <<rowVars, relayVars, cleaner, cancelled, result, faults, failed>>

CollectRelay ==
  /\ "relay" \notin collected /\ RelayReturned
  /\ Receive("relay", failure)

CollectCleaner ==
  /\ "cleaner" \notin collected /\ cleaner = "returned"
  /\ Receive("cleaner", IF "cleaner" \in failed THEN "cleaner" ELSE "none")

\* Both answers are in: Outbox.Run returns the failure, or ctx.Err().
Return ==
  /\ collected = {"relay", "cleaner"} /\ result = "none"
  /\ result' = IF outFailure # "none" THEN outFailure ELSE "ctx"
  /\ UNCHANGED <<rowVars, relayVars, cleaner, cancelled, collected, outFailure,
                 faults, failed>>

-----------------------------------------------------------------------------
WorkerStep(w) ==
  \/ Woken(w) \/ DrainEnds(w) \/ Claim(w) \/ Settle(w)
  \/ BatchError(w) \/ WorkerFails(w) \/ WorkerPanics(w)

ListenerStep ==
  Listen \/ Notified \/ ListenError \/ Reconnect \/ ListenerReturns \/ ListenerPanics

CleanerStep == Clean \/ CleanEnds \/ CleanError \/ CleanerFails

MainStep == CollectRelay \/ CollectCleaner \/ Return

Next ==
  \/ Enqueue \/ Requeue \/ ComeDue \/ Age \/ CancelCaller
  \/ \E w \in Workers : Tick(w) \/ WorkerReturns(w) \/ WorkerStep(w) \/ HeartbeatEnds(w)
  \/ ListenerStep
  \/ CleanTick \/ CleanerReturns \/ CleanerStep
  \/ MainStep

\* Goroutines run and Publish returns (it must honor its context); tickers tick,
\* leases and retention windows expire and retries come due.  The select
\* statements choose at random between ready cases, so a done context is not
\* passed over for ever.
Fairness ==
  /\ WF_vars(ComeDue) /\ WF_vars(Age)
  /\ \A w \in Workers : /\ WF_vars(Tick(w)) /\ SF_vars(WorkerReturns(w))
                        /\ WF_vars(WorkerStep(w)) /\ WF_vars(HeartbeatEnds(w))
  /\ WF_vars(ListenerStep)
  /\ WF_vars(CleanTick) /\ SF_vars(CleanerReturns) /\ WF_vars(CleanerStep)
  /\ WF_vars(MainStep)

Spec == Init /\ [][Next]_vars /\ Fairness

-----------------------------------------------------------------------------
Stopping == RelayDone \/ result # "none"

Unfinished == due + held > 0 \/ \E w \in Workers : batch[w] > 0

\* Outbox.Run returns when its goroutines have: every worker, the listener, the
\* cleaner and every heartbeat but that of a worker whose Publish panicked, which
\* nothing joins.  It returns an error some goroutine really failed with whenever
\* one did, and ctx.Err() only when the caller cancelled.
ReturnsTruthfully ==
  result # "none" =>
    /\ RelayReturned /\ cleaner = "returned" /\ beating \subseteq orphaned
    /\ IF failed = {} THEN result = "ctx" /\ "caller" \in cancelled
                      ELSE result \in failed

\* Nothing of Run goes on, not even a heartbeat that nobody waits for.
Ended == result # "none" /\ beating = {}

\* Cancelling the caller's context ends Run and everything it started.
CancelStops == "caller" \in cancelled ~> Ended

\* A fatal error anywhere, the cleaner or the listener included, or a panic of the
\* publisher ends Run and everything it started.
FailureStops == failed # {} ~> Ended

\* Every row gets finished while the relay runs: due rows are found even when
\* their notification was lost, coalesced or sent while nobody listened, even
\* when they come due with no notification at all, and although the listener
\* keeps a connection of the pool to itself.
EverythingDrains == Unfinished ~> ~Unfinished \/ Stopping

\* A running cleaner gets rid of every finished row whose status has a retention,
\* whatever errors its statements met and however many batches that takes.
\* Retention is opt-in for each status: the other rows are none of its business.
EverythingCleaned ==
  finished + old > 0 /\ cleaner # "returned"
    ~> finished + old = 0 \/ RunDone \/ failed # {}

=============================================================================
