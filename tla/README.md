# pg-outbox: TLA+ models, checks and proofs

pg-outbox is a transactional outbox for PostgreSQL. An application inserts
messages in its own transaction; relay workers claim rows under a lease, hand
them to a publisher, and record the outcome; a cleaner deletes what is old.
Everything that matters happens in the table `outbox_messages`, shared by any
number of processes that may stop at any point.

## 1. Inventory

| component | source | state | operations | modelled in |
|---|---|---|---|---|
| store | `engine/store.go` | the table: status, attempts, lease token and deadline, due time, order (created_at, seq), timestamps, data | Enqueue, claim, renew, finish, Requeue, cleanup: one SQL statement each; conversion of messages to rows and back | `Store`; conversions: `Facade` |
| relay worker | `engine/relay.go` | its claimed batch, the heartbeat goroutine, what is left to settle | processBatch, publish, heartbeat, settle, settleEach, complete | `Relay` |
| worker loop, Run | `engine/relay.go` | select/drain/publish, wake channel, first failure, contexts | worker, drain, fail, Run | `Lifecycle`; the drain loop row by row: `Drain` |
| listener | `engine/relay.go` | connection, pending notifications | listen, listenOnce | `Lifecycle` |
| cleaner | `engine/cleaner.go` | select/clean | run | statement: `Relay`, `OutboxTx`; loop: `Lifecycle` |
| facade | `outbox.go` | contexts, answers of relay and cleaner | New; Enqueue, EnqueueBatch, EnqueueValue, Requeue in the caller's transaction; Run | `Config`, `Facade`, `OutboxTx`, `Lifecycle` |
| outcomes | `port/outcome.go` | none | Permanent, RetryAfter, Discard, PerMessage, Abort, and how errors.As finds them | `Outcomes`; their effect: `Relay` |
| publisher | `port/port.go` | what the transport has received | Publish | `PublisherContract`; any publisher: `Relay` |
| backoff | `backoff/backoff.go` | a source of delays | Exp; FromNextBackOff, FromNexter | `ExpBackoff`, `BackoffAdapters` |
| config | `config/config.go` | settings | options, WithConfig, Default, Resolve | `Config` |
| migrations | `migrations/` | schema | Up, applied to a live queue | `Migrations` |
| contrib publishers | `contrib/publishers/*` | the clients' connections | Publish, default mappers | `Publishers`, `Mappers` |

Interaction. Callers and relays meet only in the table. Callers' statements run
in transactions the library does not control; each relay statement commits by
itself. A `NOTIFY` trigger wakes the listener, which wakes one worker through a
channel of capacity one; polling covers what notifications miss. Within a
process a failing goroutine cancels a context that all others watch.

What is hard here: a lease can be lost between any two statements of a worker; a
publisher may keep running after its lease and its context are gone; an id can be
finished, deleted and enqueued again under a stale worker; a batch is settled by
several statements, each of which may fail, and with them what a publisher asked for
is lost; a panic in Publish leaves a heartbeat running; created_at is fixed when a
transaction starts and visible when it commits; the payload is cleared while
other attempts may still want it; notifications get lost; several goroutines fail
at once; the listener keeps a connection of a pool that the relay may share;
callers' transactions wait for each other; error values are nested in any way a
publisher likes and searched in the random order of Go's maps; an old version runs
while the schema is migrated. `PROJECT.json` lists these hazards at their lines, each with the
properties that would notice it going wrong.

Correctness, by component:

- store and relay: an attempt is ended only by its holder; a row marked published
  was delivered; an expired lease is never revived; no attempt starts before a time
  that was recorded or within another's lease, and no retry beyond the ceiling; data
  stays as long as it is needed; ordered keys stay ordered; the cleaner drops nothing else.
- transactions: a replay that was reported takes effect if its transaction
  commits; rows of one transaction stay in order.
- Run: it drains and cleans while it runs, stops when cancelled or failed, returns
  a true result and leaves no goroutine behind (a heartbeat whose Publish panicked may
  outlive it, and ends by itself); a drain ends whatever the publisher
  answers, and leaves no backlog behind when nothing failed.
- facade: a call writes everything or nothing, and what is read back is what was
  first enqueued, but for headers that JSON cannot hold.
- outcomes: the documented precedence, however errors are nested.
- publishers: nil only for a batch the transport has; no header or metadata lost.
- config: what New accepts can run; nothing destructive is on unasked.
- migrations: a relay that runs finds its schema; no row is deleted early because
  it was finished by the old version.
- backoff: within its cap, never below its base, exact where it fits, and no panic but
  one; an adapter's delay depends on the attempt alone.

## 2. Modules

`Store` is the table and one operator per statement. A row is a record of the
columns that some statement or worker reads; an id without a row has `NoRow`.
`clock` is the database clock, which every statement reads (the code never
compares with a process's clock). Payload and headers are one flag, `intact`. The
lease token is a fresh number per claim statement: with the row's id it identifies
one attempt, as the uuid per row does. `SKIP LOCKED` is the parameter `locked` of
`Selected` and `CleanupSet`. Lease deadlines are computed row by row with
clock_timestamp(), so the rows of one batch may have different ones (`Deadline`,
bounded by `MaxSkew`): that is how part of a batch can be lost while the rest is
still owned. A statement is one step. That is exact for the
single-row effects; for the `NOT EXISTS` of ordered mode it relies on settled rows
staying settled, so that a snapshot can only be more restrictive than the moment
of the update (rows that commit in between are the subject of `OutboxTx`).

`Relay` extends it with the workers. A worker claims (`Claim`); while it publishes,
its heartbeat may renew (`Renew`), find leases lost (`RenewLost`), fail
(`RenewError`) or end with its context (`ContextDone`), and the publisher may hand
over messages (`Deliver`). `PublishReturns` and `PublishReturnsEach` turn the outcome
into the `complete` calls that settle and settleEach will make, grouped and
phased as the code orders them; `Complete` and `CompleteError` then execute them one
by one. `Abandon` is the early return after a failed renewal. `Stop` is every way a
worker ends without settling: Abort, the fatal classifier, a panic, the end of the
process. `Enqueue`, `Requeue` and `Cleanup` are the other users of the table, each in
its own transaction. History variables: `delivered`, the rows the transport has
received, and `notBefore`, the time a publisher asked for, as far as it was recorded:
`RetryNotEarly` says that every new attempt, of a waiting row or by takeover, respects it.
`MCRetryAfter` adds the memory of what was asked for and never recorded. `row` in a claimed
message tells a row from a later row of the same id; no action depends on it.

`OutboxQueue` is what a user is promised: messages are queued under a key, received
at least once and in the order of the key, settled, replayed when dead, and forgotten
when settled. It knows no workers, leases, attempts or clocks. `Relay` implements it
(`ImplementsQueue`) under this mapping: an id is *queued* while its row is pending or
processing (`QueueState`); *ahead* of it are the rows of its key before it in
(created_at, seq), in ordered mode only (`QueueKey`, `QueueAhead`); it is *received*
when the transport has this very row, not an earlier one of its id (`QueueReceived`);
a settled state can be forgotten when its retention is on (`QueueForgettable`).

`OutboxTx` extends `Relay` with callers' transactions: `Begin` fixes created_at,
`TxEnqueue` draws seq, `TxRequeue` locks a dead row, `Commit` makes it all visible,
`Rollback` forgets it. A statement on an id that another open transaction has written,
by an insert or a requeue, waits (`wait`) and goes on when that transaction ends (`Resume`); transactions that
wait for each other are broken up by `DeadlockAbort`. PostgreSQL itself is external and
read committed. It implements the same queue without order (`ImplementsTxQueue`): a
commit accepts all its messages and replays in one step.

`Lifecycle` models Outbox.Run, Relay.Run, Cleaner.run, the worker loop and the
listener, with the table reduced to row counts (unordered mode) and the pool to the
question whether a statement can have a connection while the listener holds one
(`Conn`). Finished rows are told apart by whether the retention of their status is on:
`finished` ones get `old` and are cleaned, `kept` ones stay for ever. publish starts a
heartbeat goroutine (`beating`) and joins it (`Joined`), except when Publish panics
(`WorkerPanics`): then nobody closes stop or receives from done, the heartbeat is `orphaned`
and ends on its own when it sees its cancelled context (`HeartbeatEnds`). Every combination of with and without listener and cleaner is an initial
state. `Drain` is the loop of drain over single rows, keyed or not, with a publisher
that may fail for ever, zero delays and lost leases.

`Publishers` is one call of Publish of each contrib adapter, down to the client calls,
with the default mappers in `Mappers`, where what is sent is kept by name: for each name,
who wrote an entry of it, in order. `PublisherContract` is what the
relay relies on, and each adapter is shown to implement it.

`Migrations` applies the three files on two instances, which fail and start over, to a
fresh table or to one whose rows v1.0 relays still finish.

`Config`, `Facade`, `Outcomes`, `ExpBackoff` and `BackoffAdapters` model code that runs
by itself. `Config` is a growing list of options over the values that the code tells
apart, and `effect` is what the engine takes a setting for (a retention that is not positive
is off). `Facade` follows messages into rows and back, through `json.Marshal`, the columns'
types and `json.Unmarshal`: headers that are not UTF-8 come back with replacement characters,
U+0000 and values beyond a column's type fail the INSERT, and a uuid may be spelled in
several ways. `Outcomes` makes errors out of the
errors made before, which they may share, and classifies each as the relay does; an error
is its place in the list `errors`, so that the search of errors.As is a recursive function.
`ExpBackoff` is Exp in W-bit signed
arithmetic over successive attempts, for every base and cap, negative ones included, and
with the panic of rand.Int64N when the delay plus one overflows; `BackoffAdapters` has concurrent callers of one
adapted source. They share no state with each other nor with `Publishers` and `Migrations`,
and `MCLibrary` puts them all side by side: a behaviour exercises one of them.

`MCRelay`, `MCRetryAfter` and `MCOutboxTx` hold constants' values and symmetry sets. The modules named
`...Proofs` hold the proofs (section 4). Operators named `X_Something` after an `X`, commented as defects,
are variants with a plausible mistake; `PROJECT.json` names for each property the
variant that it catches. No specification uses them.

## 3. Runs

| run | result | distinct states | what it asks |
|---|---|---|---|
| `relay_unordered` | pass | 1.0 M | fencing, revival, early retries, ceiling, data: two workers, two messages |
| `relay_ordered` | pass | 0.3 M | one ordered key with takeover, dead heads, requeue, and ids deleted and enqueued again under a stale worker; the abstract queue |
| `relay_ceiling` | violation | | is the ceiling a bound on attempts? |
| `retry_after_lost` | violation | | is RetryAfter a minimum? |
| `tx_ordered` | pass | 0.8 M | overlapping and waiting transactions against relay and cleaner; the abstract queue |
| `tx_late_commit` | violation | | is order strict across transactions? |
| `tx_deadlock` | violation | | can a duplicate abort its caller? |
| `lifecycle` | pass | 139 k | draining, cleaning, stopping, result, with a pool of two |
| `drain` | pass | 44 k | does a drain end, and does it leave nothing? |
| `library` | pass | 0.8 M | options, enqueue calls, nested outcomes, Exp, adapters; the publishers' contract, headers against metadata; schema and retention during an upgrade |
| `options_order` | violation | | do functional options win? |
| `backoff_uncapped` | violation | | Exp without a cap |

Bounds. `MaxClock`, `MaxSeq` and `MaxToken` bound the database clock, the rows ever
inserted and the claims ever made. Two workers suffice for every race between a
holder and a stale worker; two claims are needed for a takeover, three for a
takeover of a takeover or a second row. In `relay_ordered` published and dead rows are
deleted after one tick and five ticks are enough to lose a lease, finish under another
worker, delete, enqueue again and claim again; discarded rows stay, so that a cleaner
that takes them is noticed. A lease lasts one tick, so that it
can expire between any two steps; `MaxSkew` is 1 where
batches of two occur (`relay_unordered`) and 0 where a batch is a single row. `MCBackoff` is
negative after the first attempt, so that flooring is exercised, and a publisher asks for two
ticks in `relay_unordered`, more than a lease; in `retry_after_lost` for three, so that the
lease runs out first. `MaxTx` is the number of
transactions begun: with three, one can begin before and commit after two others.
`lifecycle` has two rows (`MaxRows`) and two faults (`MaxFaults`): two goroutines may fail
together, or a fault may hit the recovery from another. `drain` has three rows, the least
that leaves a short batch and a blocked key together, any of which may share a key; two
attempts each, counted no further than the limit they are compared with; and one lost
lease (`MaxLosses`), which is one more claim than the attempts account for. In `library` an
adapter is sent four messages: first, last and two between; there are two instances that
migrate, and clock enough (4) to finish, upgrade and outlive a retention of one. `MaxOptions` is three: a
value, what undoes it and what restores it. `MaxErrors` is three: two markers and
what joins or collects them, or a marker in a batch in a wrapper; what nests deeper is
left to the proofs. `MaxCalls` is two:
a call and its duplicate. A 5-bit Duration (`W`) lets TLC try every base and cap, with
attempts beyond the width (`MaxAttempt`); nothing in Exp depends on the width other than
through W.

Deadlock checking is on in `drain`, whose workers poll for ever. It is off elsewhere:
the other models end when their counters are used up, and Run and Publish really
return. That nothing gets stuck is what the liveness properties of `lifecycle` say.

Fairness. In `Lifecycle`, weak fairness of goroutine steps: the Go scheduler runs them,
statements return (errors included) and Publish returns because it "must honor
context cancellation" (`port/port.go`). Weak fairness of tickers, of leases and
retention windows expiring and of retries coming due: time passes. Strong fairness
of returning on a done context: select chooses at random between ready cases, so a
ticker cannot win for ever. Errors are bounded by `MaxFaults`: `EverythingDrains` is
about rows whose failures end. Enqueue, Requeue, cancellation and faults are never
forced. `Drain` assumes the same of its workers, tickers and delays (`ComeDue`, `Wake`,
`WorkerStep`), nothing of the publisher, whose failures have no bound there, and forces
no lost lease.

### What the violations show

- `AttemptCeiling`: claim takes an expired row again whatever its count, and only a
  *returned* publish error is compared with the ceiling. A message that ends its
  process each time is attempted for ever, where the README speaks of poison-message
  protection. What does hold, and is proved, is `RetryBelowCeiling`.
- `OrderedDelivery` under transactions: a transaction that starts first and commits
  last is overtaken. What holds, and is proved, is order within a transaction
  (`InsertionOrder`) and order when each enqueue commits before a later one starts.
- `DuplicateNeverAborts`: ON CONFLICT DO NOTHING waits for an uncommitted row. Two
  transactions that enqueue the same two ids in opposite order deadlock and one is
  aborted, where a comment in `engine/store.go` says that a duplicate never aborts.
- `RetryAfterIsMinimum`: the delay a publisher asks for exists only in the completion that
  records it. If that statement fails, or comes too late, or a renewal failed before, the
  row is attempted again when its lease is over, where the comment on RetryAfterError and the
  README speak of a minimum delay. What does hold, and is proved, is `RetryNotEarly`: a
  recorded time is respected by every attempt, and so is every lease.
- `OptionsWin`: WithConfig assigns every declarative setting, so it undoes the options before
  it, as its own comment says and the README's "functional options win" does not. What holds,
  and is proved, is `LastOptionDecides`: the last option given decides, WithConfig being one.
- `UncappedAtLeastBase`: with no cap an overflowed delay is 0, an immediate retry.

Exp has a second edge, within `WithinCap`: with jitter and a delay of the longest Duration (a
cap of MaxInt64 after an overflow) rand.Int64N is called with a negative number and panics,
which stops the relay. The property says that this is the only case under a cap.

Two settings are worth trying by hand. With `PoolSize = 1` in `lifecycle.cfg`
`EverythingDrains` fails: the listener keeps the only connection. With
`NatsFlush = FALSE` in `library.cfg` `ImplementsContract` fails: a publisher built
WithoutFlush returns nil for messages that are only queued in the client.

## 4. Proofs

Every theorem is about a whole specification and holds for every value of its
constants: any sets of ids, workers and callers (infinite ones too, unless an assumption
says otherwise), any settings, widths and bounds. 36 theorems in eight modules:

| module | theorem | property |
|---|---|---|
| `RelayProofs` | `Invariance` | `IInv`, the inductive invariant |
| | `TypeCorrect` | `Relay!TypeOK` |
| | `AtLeastOnce` | `PublishedWasDelivered` |
| | `DataKept` | `DataUntilSettled` |
| | `CeilingHolds` | `RetryBelowCeiling` |
| | `InOrder`, `OnePerKey` | `OrderedDelivery`, `OneAttemptPerKey` |
| | `Fenced`, `NoRevival` | `LiveAttemptIsFenced`, `ExpiredIsFinal` |
| | `NotEarly` | `RetryNotEarly` |
| | `CleanupSafe` | `NothingDropped` |
| `QueueProofs` | `Refinement` | `ImplementsQueue` |
| `TxProofs` | `TxRefinement` | `ImplementsTxQueue` |
| | `ReplaysKept`, `OrderOfTransaction` | `ReplayKept`, `InsertionOrder` |
| | `RelayUnderTransactions` | `PublishedWasDelivered`, `DataUntilSettled`, `RetryBelowCeiling` under `TxSpec` |
| | `LeasesUnderTransactions` | `LiveAttemptIsFenced`, `ExpiredIsFinal`, `RetryNotEarly`, `NothingDropped` under `TxSpec` |
| `LifecycleProofs` | `RunTruthful` | `ReturnsTruthfully` |
| | `TypeCorrect` | `Lifecycle!TypeOK` |
| `DrainProofs` | `DrainLeavesNothing` | `BacklogDrains` |
| `PublisherProofs` | `AdaptersKeepContract` | `ImplementsContract` |
| | `MappersHideNothing` | `NothingHidden` |
| `MigrationsProofs` | `SchemaReady` | `RelayFindsSchema` |
| | `RetentionKept`, `TimeKept` | `RetentionRespected`, `TerminalTimeKept` |
| `LibraryProofs` | `CapKept`, `ExactUntilOverflow` | `WithinCap`, `ExactWhileItFits` |
| | `DelayOfAttemptAlone` | `DelayOfAttempt` |
| | `AcceptedIsRunnable`, `LastOptionWins`, `OptInOnly` | `Runnable`, `LastOptionDecides`, `SafeByDefault` |
| | `RowReadsBack`, `WholeOrNothing` | `ReadsBackFirst`, `AllOrNothing` |
| | `PrecedenceAsDocumented` | `DocumentedPrecedence` |
| | `OrderDecidesNothing`, `AbortIsNeverHidden` | `MapOrderDecidesNothing`, `AbortSticks` |

Assumptions are the ASSUMEs of the modules: the types of the constants, positive batch
size, lease and MaxAttempts, a finite and not empty set of workers in `Lifecycle`, finitely
many header names in `Publishers`.
Per-message limits may be zero or negative as the code allows. `AdaptersKeepContract` has
one hypothesis of its own, `NatsFlush`: without its flush the NATS publisher does not
keep the contract (section 3).

**Relay.** None of the properties is inductive. A completion is a plan made when
Publish returned and executed later, so `PlanInv` says that every plan is true of the
*messages* it is about: published only if delivered, pending only below the ceiling
and not before the time asked for. `ClaimInv` carries that to the *row*: a token
found in a row belongs to the claim that drew it, hence to this row and this attempt.
That is where the fence is used: a stale worker's token is nowhere in the table.
`SeqInv` tells a row from earlier rows of its id, in the table and in the transport.
`DueInv` ties the due time of a row, waiting or claimed again, to what was asked for. `HeadInv` is ordering: a row that
was touched (attempted, held or delivered, by a stale worker too) has only settled
predecessors in its key; claim establishes it, nothing unsettles a published or
discarded row, and a new row comes after all others. The action properties follow
from `RowChanges`, which lists every way a row can change (`RowChange`), and
`ChangesAllowed`, which shows that none of these ways breaks one of them.

The refinement has one lemma per kind of step. Claims, renewals and everything a worker
does without a statement are invisible to the queue (`Invisible`). A delivery is a
receipt because of `HeadInv`, a completion settles only what was received because of
`PlanInv` and `ClaimInv`, an insert queues behind all others because `TypeOK` bounds every
created_at and seq by the counters, and its row is not received yet because of `SeqInv`.

**Transactions.** Under `OutboxTx` a new row does not come after all others, so `HeadInv`
is false; only pairs of rows of one transaction keep their order. The step lemmas of
`RelayProofs` are therefore about `InvOn(R)`, the invariant with the order of the pairs in
`R` only: with all pairs it is `IInv`, with the pairs of one transaction (`SameTx`) it is the
relay's part of `TxInv`. The rest of `TxInv`: an id is written by at most one open
transaction, is free while that inserts it and dead while that replays it (`HoldInv`);
seqs that open transactions have drawn are theirs alone and not in the table or the
transport (`DrawInv`); rows of one transaction have the same created_at, and an open
transaction has none yet (`OriginInv`). A commit is then
one step of the queue that accepts messages and replays together, and it changes a row
only as an enqueue or a requeue does (`CommitChanges`), by `HoldInv`: so `ChangesAllowed`
carries the action properties over.

**Run.** `RunInv` follows an error from the goroutine to the result: the relay keeps the
first of its goroutines' failures, Run has kept one once the answer of a failed part is
in (`FailuresKept`), and the library cancels a context of its own only after a failure,
so that a worker that returns without one has seen the caller's cancellation
(`ReturnsForCause`). `BeatInv` is about the heartbeats: one beats only for a worker that
publishes, unless it is orphaned, so that none but those is left when all workers have
returned. The row counts of `TypeOK` are bounded because steps move rows and make
none: `RowsInv` says that they are the counts of a placement of the rows enqueued so far,
and every step is a move of some rows between two places (`Move`) or one more row (`Add`).

**Drain.** `DrainInv` says why a worker may go back to waiting: while nothing has failed,
every row is published, due, or held by a worker (`NothingForgotten`), and only a worker
that publishes holds any (`HeldWhilePublishing`). So the worker that waits last has just
claimed nothing, with nothing held by others; that proves that nothing is left, because
the first unpublished row of all is not blocked by another of its key
(`FirstIsClaimable`).

**Publishers.** `PublishInv`: what an adapter has passed is received, or queued on a
connection that still stands. For the mappers, the loops are recursive functions of the
position, whose existence and effect are shown by the least counterexample: names that all
differ are written once each, in whatever order they come (`WrittenOnce`), and they do
differ: headers are the keys of a map, and no mapper writes a name of its own twice. `MessageInv` says that
the call has such headers; `MetadataEffect` and `HeadersEffect` are the two passes, and
`MapperHidesNothing` puts them together in each mapper's order.

**Migrations.** `SchemaInv`: a file that some instance has applied stays applied whatever
another instance repeats. `RowInv`: a terminal time is never before the row's end, and the
backfill leaves a time that is there alone.

**Library.** `ExpInv`, `AdapterInv`, `ConfigInv` and `FacadeInv` are small; the work is in
what the operators compute. Inductions over numbers (how options accumulate, doubling) go
by the least counterexample (`LeastNat`), since the induction rule takes an operator that
the provers cannot instantiate; the laws of powers of two come from counting subsets
(`PowCard`).

**Outcomes.** `OutcomesInv`: an error holds only errors made before it, and only a BatchError
has outcomes. So the search ends (`SearchesExist`) and unfolds as written (`FoundDef`). It
stops only inside the error it began with (`FoundInside`), and it finds a type exactly if one
of that type is inside (`HasIff`): the errors without it are closed under what they hold,
hence contain everything inside. Outside a BatchError there are no outcomes, hence no map
and no choice: the search meets one BatchError, an outermost one (`OneBatch`). The precedence
and the rest follow by cases, for errors of any size and depth.

TLC confirms the inductive invariants of the relay, transactions, Run, drain, publishers
and migrations on the instances of the runs.

Only model-checked are the liveness properties `CancelStops`, `FailureStops`,
`EverythingDrains`, `EverythingCleaned`, `DrainTerminates` and `EveryRowResolved`: they rest on
fairness, which is out of the prover's reach. Every other property of a passing run is a
theorem.

## 5. Not modelled

Hooks other than their panics, logging, the texts of errors, locked_by and last_error
(written, never read back by a decision), what a codec produces (it may fail or give
nil), the text of a generated instance id, and the names, types and re-exports that have
no behaviour. The examples are left aside.

Assumptions at the edges. A statement is atomic; a failed one is either without
effect or the successful one whose answer was lost. In `Relay` a publisher hands over
messages only while Publish runs; what a NATS connection sends later is in
`Publishers`. FlushWithContext returning nil is taken to mean that the server has
everything queued before it: a reconnect that loses data already written to the socket
is the client's business. Kafka's WriteMessages returning nil means all were written.
The relays of v1.0 are not part of the repository and are modelled from what the
migrations say of their tables.

## 6. Plan

The plan was the relay on its table first, then the abstract queue and callers'
transactions, then Run and its loops, publishers, migrations and the code that runs by
itself, with proofs in the same order. All of it is done. When the code changes: a new
statement is an operator of `Store`, an action of `Relay`, and a case of `RowChange`; a new
marker is a kind in `Outcomes`; a new adapter is an action of `Publishers` that has to keep
`ImplementsContract`.
