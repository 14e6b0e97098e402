------------------------------- MODULE Drain -------------------------------
(***************************************************************************)
(* The loop of drain (engine/relay.go) over a backlog: batches are claimed *)
(* and settled until a pass claims nothing.  The publisher may fail any    *)
(* message any number of times, and a backoff of zero makes a failed row   *)
(* due at once; only the ceiling on attempts ends that.  Ordered mode is   *)
(* on: a row without a partition key is claimed as in unordered mode.      *)
(*                                                                         *)
(* Time is left out: a row is due or not, a lease valid or not.  attempts  *)
(* is counted up to MaxAttempts only, the value it is compared with.       *)
(***************************************************************************)
EXTENDS Naturals, FiniteSetsExt

CONSTANTS
  N,              \* rows of the backlog, in their order
  Workers, BatchSize, MaxAttempts,
  MaxLosses       \* bound: leases lost

ASSUME DrainAssumption ==
  /\ IsFiniteSet(Workers) /\ N \in Nat /\ MaxLosses \in Nat
  /\ BatchSize \in Nat \ {0} /\ MaxAttempts \in Nat \ {0}

Rows == 1 .. N

VARIABLES
  keyed,          \* rows of the one partition key
  status, due,    \* due: next_attempt_at has passed, or the lease has expired
  attempts,
  worker, batch, owned,   \* where each worker is, what it claimed, what it still holds
  losses,
  woken, failed   \* history: a drain has begun; something has failed

vars == <<keyed, status, due, attempts, worker, batch, owned, losses, woken, failed>>

Init ==
  /\ keyed \in SUBSET Rows
  /\ status = [r \in Rows |-> "pending"] /\ due = Rows
  /\ attempts = [r \in Rows |-> 0]
  /\ worker = [w \in Workers |-> "select"]
  /\ batch = [w \in Workers |-> {}] /\ owned = [w \in Workers |-> {}]
  /\ losses = 0 /\ woken = FALSE /\ failed = FALSE

\* An earlier row of the key that is neither published nor discarded.
Blocked(r) == r \in keyed /\ \E e \in keyed : e < r /\ status[e] # "published"

\* Defect: a row whose lease expired is not claimed again.
Claimable_PendingOnly ==
  {r \in due : status[r] = "pending" /\ ~Blocked(r)}

Claimable ==
  {r \in due : status[r] \in {"pending", "processing"} /\ ~Blocked(r)}

\* LIMIT: the first BatchSize rows, fewer if there are fewer.
Claimed ==
  {r \in Claimable : Cardinality({e \in Claimable : e < r}) < BatchSize}

-----------------------------------------------------------------------------
\* The ticker or a wake-up.
Wake(w) ==
  /\ worker[w] = "select"
  /\ worker' = [worker EXCEPT ![w] = "drain"]
  /\ woken' = TRUE
  /\ UNCHANGED <<keyed, status, due, attempts, batch, owned, losses, failed>>

\* A lease holds off other claims.
Leased(S) == due \ S

Claim(w) ==
  /\ worker[w] = "drain" /\ Claimable # {}
  /\ status' = [r \in Rows |-> IF r \in Claimed THEN "processing" ELSE status[r]]
  /\ attempts' = [r \in Rows |-> IF r \in Claimed /\ attempts[r] < MaxAttempts
                                 THEN attempts[r] + 1 ELSE attempts[r]]
  /\ due' = Leased(Claimed)
  /\ batch' = [batch EXCEPT ![w] = Claimed]
  /\ owned' = [owned EXCEPT ![w] = Claimed]
  /\ worker' = [worker EXCEPT ![w] = "publish"]
  /\ UNCHANGED <<keyed, losses, woken, failed>>

\* A pass that claims nothing ends the drain.
ClaimNothing(w) ==
  /\ worker[w] = "drain" /\ Claimable = {}
  /\ worker' = [worker EXCEPT ![w] = "select"]
  /\ UNCHANGED <<keyed, status, due, attempts, batch, owned, losses, woken, failed>>

\* Defect: the ceiling is never met.
Exhausted_Never(r) == FALSE

Exhausted(r) == attempts[r] >= MaxAttempts

\* Defect: a short batch is taken for the last one.
After_ShortBatchEnds(w) ==
  IF owned[w] = batch[w] /\ Cardinality(batch[w]) = BatchSize THEN "drain" ELSE "select"

\* A lost lease is an error, which ends the drain.
After(w) == IF owned[w] = batch[w] THEN "drain" ELSE "select"

Retried == {"retry now", "retry later"}

\* What becomes of a message: published (or discarded), dead because it is
\* permanently rejected or exhausted, or retried, with or without a delay.
Verdicts(r) ==
  {"published", "dead"} \cup (IF Exhausted(r) THEN {} ELSE Retried)

\* The publisher returns and every message still owned is settled.
Settle(w) ==
  /\ worker[w] = "publish"
  /\ \E v \in [owned[w] -> {"published", "dead"} \cup Retried] :
       /\ \A r \in owned[w] : v[r] \in Verdicts(r)
       /\ status' = [r \in Rows |-> IF r \notin owned[w] THEN status[r]
                                    ELSE IF v[r] \in Retried THEN "pending" ELSE v[r]]
       /\ due' = due \cup {r \in owned[w] : v[r] = "retry now"}
       /\ failed' = (failed \/ owned[w] # batch[w]
                            \/ \E r \in owned[w] : v[r] # "published")
  /\ worker' = [worker EXCEPT ![w] = After(w)]
  /\ batch' = [batch EXCEPT ![w] = {}] /\ owned' = [owned EXCEPT ![w] = {}]
  /\ UNCHANGED <<keyed, attempts, losses, woken>>

\* The heartbeat met the lost lease: nothing is settled, and the other leases
\* are left to expire.
Abandon(w) ==
  /\ worker[w] = "publish" /\ owned[w] # batch[w]
  /\ worker' = [worker EXCEPT ![w] = "select"]
  /\ batch' = [batch EXCEPT ![w] = {}] /\ owned' = [owned EXCEPT ![w] = {}]
  /\ failed' = TRUE
  /\ UNCHANGED <<keyed, status, due, attempts, losses, woken>>

-----------------------------------------------------------------------------
\* A worker too slow to renew loses the lease of a row.
LoseLease(w) ==
  /\ losses < MaxLosses
  /\ \E r \in owned[w] : /\ owned' = [owned EXCEPT ![w] = @ \ {r}]
                         /\ due' = due \cup {r}
  /\ losses' = losses + 1
  /\ UNCHANGED <<keyed, status, attempts, worker, batch, woken, failed>>

\* A retry comes due, or the lease of an abandoned row expires.
ComeDue ==
  /\ \E r \in Rows \ due : /\ status[r] \in {"pending", "processing"}
                           /\ \A w \in Workers : r \notin owned[w]
                           /\ due' = due \cup {r}
  /\ UNCHANGED <<keyed, status, attempts, worker, batch, owned, losses, woken, failed>>

WorkerStep(w) == Claim(w) \/ ClaimNothing(w) \/ Settle(w) \/ Abandon(w)

Next ==
  \/ \E w \in Workers : Wake(w) \/ WorkerStep(w) \/ LoseLease(w)
  \/ ComeDue

\* Goroutines run, Publish returns, tickers tick and delays pass.
Fairness ==
  /\ WF_vars(ComeDue)
  /\ \A w \in Workers : WF_vars(Wake(w)) /\ WF_vars(WorkerStep(w))

Spec == Init /\ [][Next]_vars /\ Fairness

-----------------------------------------------------------------------------
\* Published, dead, or waiting behind a dead row of its key.
Resolved(r) ==
  \/ status[r] \in {"published", "dead"}
  \/ r \in keyed /\ \E e \in keyed : e < r /\ status[e] = "dead"

\* drain ends whatever the publisher answers, also when every failure is due
\* again at once.
DrainTerminates ==
  \A w \in Workers : worker[w] = "drain" ~> worker[w] = "select"

\* No row waits for ever but behind a dead row of its key.
EveryRowResolved == \A r \in Rows : <>Resolved(r)

\* A backlog drains without waiting for another poll: when every worker waits
\* again and nothing has failed, nothing is left, though ordered mode hands out
\* a key's rows one by one, in short batches, to whichever worker asks.
BacklogDrains ==
  (woken /\ ~failed /\ \A w \in Workers : worker[w] = "select")
    => \A r \in Rows : status[r] = "published"

=============================================================================
