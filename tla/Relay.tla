------------------------------- MODULE Relay -------------------------------
(***************************************************************************)
(* The relay workers of engine/relay.go and the cleaner and callers that   *)
(* share the table with them.                                              *)
(*                                                                         *)
(* A worker claims a batch, runs Publish while its heartbeat goroutine     *)
(* renews the leases, and then settles the batch with one or more finish   *)
(* statements.  Between any two of these steps the clock may advance and   *)
(* every other actor may run, so a lease may be lost anywhere.             *)
(*                                                                         *)
(* The publisher is external: it may hand each message of its batch to the *)
(* transport at any time while it runs, even after its context was         *)
(* cancelled, and then return any outcome, except that it reports as       *)
(* published only what the transport has.                                  *)
(***************************************************************************)
EXTENDS Store

CONSTANTS
  Workers,              \* worker goroutines, of any number of relay instances
  MaxAttempts,          \* set.MaxAttempts
  MaxAttemptsOf, Unset, \* Message.MaxAttempts of each id; Unset is a nil pointer
  Backoff(_),           \* set.Backoff, possibly negative
  RetryDelays           \* the delays a publisher asks for with RetryAfter

ASSUME RelayAssumption ==
  /\ MaxAttempts \in Nat \ {0}
  /\ Unset \notin Int
  /\ MaxAttemptsOf \in [Ids -> Int \cup {Unset}]
  /\ \A n \in 0 .. MaxToken : Backoff(n) \in Int
  /\ RetryDelays \subseteq Nat

VARIABLES
  wk,         \* the workers
  delivered,  \* history: the rows, as <<id, seq>>, the transport has received
  notBefore   \* history: earliest time the publisher asked for a next attempt

vars == <<rows, clock, seq, token, wk, delivered, notBefore>>

\* A claimed message.  `row` is the row's seq: it tells the row the claim is
\* about from a later row enqueued under the same id (the code has no such
\* field; no action reads it).
Message == [id: Ids, token: Nat, attempts: Nat, row: Nat]

\* One call of complete: a group of messages, its new status, the delay of a
\* retry and the delay the publisher asked for.  Groups of a lower phase are
\* completed first.
Completion == [msgs: SUBSET Message, status: Status, delay: Nat, after: Nat,
               phase: 1 .. 3]

\* hb is the heartbeat goroutine and, with it, the publisher's context: both
\* live ("on"), ended by a done context ("quiet"), or ended by a failed
\* renewal that cancelled the publisher ("lost").
Worker == [pc: {"idle", "publishing", "settling"}, batch: SUBSET Message,
           hb: {"off", "on", "quiet", "lost"}, todo: SUBSET Completion]

Idle == [pc |-> "idle", batch |-> {}, hb |-> "off", todo |-> {}]

Init ==
  /\ StoreInit
  /\ wk = [w \in Workers |-> Idle]
  /\ delivered = {}
  /\ notBefore = [id \in Ids |-> 0]

-----------------------------------------------------------------------------
(***************************************************************************)
(* Publish outcomes and how they are settled                               *)
(***************************************************************************)

\* What Publish says about a message once its error is classified; `after` is
\* the delay of a RetryAfter, 0 for an ordinary error.
Outcome == [kind: {"nil", "permanent", "discard"}, after: {0}]
             \cup [kind: {"retry"}, after: RetryDelays \cup {0}]

LimitOf(id) ==
  IF MaxAttemptsOf[id] = Unset THEN MaxAttempts ELSE MaxAttemptsOf[id]

\* Defect: the ceiling is compared off by one.
RetryStatus_OffByOne(m) ==
  IF m.attempts > LimitOf(m.id) THEN "dead" ELSE "pending"

RetryStatus(m) == IF m.attempts >= LimitOf(m.id) THEN "dead" ELSE "pending"

\* Defect: the delay the publisher asks for is forgotten.
RetryDelay_IgnoresAfter(m, after) ==
  IF m.attempts >= LimitOf(m.id) \/ Backoff(m.attempts) < 0
  THEN 0
  ELSE Backoff(m.attempts)

\* The greater of the backoff, floored at zero, and the requested delay.
RetryDelay(m, after) ==
  LET b == IF Backoff(m.attempts) < 0 THEN 0 ELSE Backoff(m.attempts)
  IN  IF m.attempts >= LimitOf(m.id) THEN 0
      ELSE IF after > b THEN after ELSE b

\* settle: the completions of one group of messages with one outcome.
settle(msgs, outcome, phase) ==
  LET whole(status) ==
        IF msgs = {} THEN {}
        ELSE {[msgs |-> msgs, status |-> status, delay |-> 0, after |-> 0,
               phase |-> phase]}
  IN  CASE outcome.kind = "nil"       -> whole("published")
        [] outcome.kind = "permanent" -> whole("dead")
        [] outcome.kind = "discard"   -> whole("discarded")
        [] outcome.kind = "retry"     ->
             {[msgs |-> {m}, status |-> RetryStatus(m),
               delay |-> RetryDelay(m, outcome.after),
               after |-> outcome.after, phase |-> phase] : m \in msgs}

\* Defect: messages without an entry count as published.
settleEach_AbsentPublished(batch, entries, others) ==
  LET listed(m) == m.id \in DOMAIN entries
      published == {m \in batch : listed(m) => entries[m.id].kind = "nil"}
  IN  (UNION {settle({m}, entries[m.id], 1) : m \in batch \ published})
        \cup settle(published, [kind |-> "nil", after |-> 0], 2)

\* settleEach: entries gives some of the batch's messages an outcome of their
\* own, the others share one.  Failed entries are settled one by one, then
\* everything published, then the rest.
settleEach(batch, entries, others) ==
  LET listed(m)  == m.id \in DOMAIN entries
      outcome(m) == IF listed(m) THEN entries[m.id] ELSE others
      published  == {m \in batch : outcome(m).kind = "nil"}
      failed     == {m \in batch \ published : listed(m)}
      rest       == batch \ (published \cup failed)
  IN  (UNION {settle({m}, entries[m.id], 1) : m \in failed})
        \cup settle(published, [kind |-> "nil", after |-> 0], 2)
        \cup settle(rest, others, 3)

-----------------------------------------------------------------------------
(***************************************************************************)
(* Workers                                                                 *)
(***************************************************************************)

\* processBatch up to the call of Publish: claim a batch of rows that no open
\* transaction has locked.  A claim that commits but whose answer is lost is
\* this step followed by a Stop.
ClaimUnlocked(w, locked) ==
  /\ wk[w].pc = "idle"
  /\ \E S \in (SUBSET Ids) \ {{}} :
       /\ Selected(S, locked)
       /\ claim(S)
       /\ wk' = [wk EXCEPT ![w] =
            [pc |-> "publishing",
             batch |-> {[id |-> id, token |-> token + 1,
                         attempts |-> rows[id].attempts + 1,
                         row |-> rows[id].seq] : id \in S},
             hb |-> "on", todo |-> {}]]
  /\ UNCHANGED <<delivered, notBefore>>

Claim(w) == ClaimUnlocked(w, {})

\* A beat: every lease of the batch is renewed.
Renew(w) ==
  /\ wk[w].pc = "publishing" /\ wk[w].hb = "on"
  /\ \A m \in wk[w].batch : Owned(m)
  /\ renew(wk[w].batch)
  /\ UNCHANGED <<wk, delivered, notBefore>>

\* A beat that finds a lease lost: the live ones are renewed all the same, and
\* the publisher's context is cancelled, unless it was done already by the time
\* the beat looks: then the loss is not reported and the batch gets settled.
RenewLost(w) ==
  /\ wk[w].pc = "publishing" /\ wk[w].hb = "on"
  /\ \E m \in wk[w].batch : ~Owned(m)
  /\ renew(wk[w].batch)
  /\ \E hb \in {"lost", "quiet"} : wk' = [wk EXCEPT ![w].hb = hb]
  /\ UNCHANGED <<delivered, notBefore>>

\* The renew statement fails or times out.  (One that took effect before its
\* answer was lost is a Renew followed by this step.)
RenewError(w) ==
  /\ wk[w].pc = "publishing" /\ wk[w].hb = "on"
  /\ wk' = [wk EXCEPT ![w].hb = "lost"]
  /\ UNCHANGED <<rows, clock, seq, token, delivered, notBefore>>

\* PublishTimeout passes or the run is cancelled: the heartbeat ends without
\* an error, the publisher may still be running.
ContextDone(w) ==
  /\ wk[w].pc = "publishing" /\ wk[w].hb = "on"
  /\ wk' = [wk EXCEPT ![w].hb = "quiet"]
  /\ UNCHANGED <<rows, clock, seq, token, delivered, notBefore>>

\* The publisher hands one message to the transport.
Deliver(w) ==
  /\ wk[w].pc = "publishing"
  /\ \E m \in wk[w].batch : delivered' = delivered \cup {<<m.id, m.row>>}
  /\ UNCHANGED <<rows, clock, seq, token, wk, notBefore>>

\* Publish returned a verdict for the batch and no renewal failed: what is
\* left to do is `todo`.
StartSettling(w, todo) ==
  /\ wk' = [wk EXCEPT ![w].pc = "settling", ![w].hb = "off",
                      ![w].todo = todo]
  /\ UNCHANGED <<rows, clock, seq, token, delivered, notBefore>>

InTransport(m) == <<m.id, m.row>> \in delivered

\* Publish returns one outcome for the whole batch.
PublishReturns(w) ==
  /\ wk[w].pc = "publishing" /\ wk[w].hb # "lost"
  /\ \E o \in Outcome :
       /\ o.kind = "nil" => \A m \in wk[w].batch : InTransport(m)
       /\ StartSettling(w, settle(wk[w].batch, o, 1))

\* Publish returns a PerMessage outcome.
PublishReturnsEach(w) ==
  /\ wk[w].pc = "publishing" /\ wk[w].hb # "lost"
  /\ \E E \in SUBSET {m.id : m \in wk[w].batch}, others \in Outcome :
       \E entries \in [E -> Outcome] :
         /\ \A m \in wk[w].batch :
              (IF m.id \in E THEN entries[m.id] ELSE others).kind = "nil"
                => InTransport(m)
         /\ StartSettling(w, settleEach(wk[w].batch, entries, others))

\* Defect: a batch whose renewal failed is settled all the same.
Abandon_Settles(w) ==
  /\ wk[w].pc = "publishing" /\ wk[w].hb = "lost"
  /\ StartSettling(w, settle(wk[w].batch, [kind |-> "nil", after |-> 0], 1))

\* Publish returns after a failed renewal: the batch is left to lease expiry,
\* whatever Publish said.
Abandon(w) ==
  /\ wk[w].pc = "publishing" /\ wk[w].hb = "lost"
  /\ wk' = [wk EXCEPT ![w] = Idle]
  /\ UNCHANGED <<rows, clock, seq, token, delivered, notBefore>>

\* Completion g leaves the list; the last one ends the batch.
Settled(w, g) ==
  wk' = [wk EXCEPT ![w] =
           IF wk[w].todo = {g} THEN Idle
                               ELSE [wk[w] EXCEPT !.todo = @ \ {g}]]

NextGroup(w, g) ==
  /\ wk[w].pc = "settling"
  /\ g \in wk[w].todo
  /\ \A h \in wk[w].todo : g.phase <= h.phase

\* One finish statement.  Messages whose lease is gone are skipped by it
\* (ErrLeaseLost), and the remaining groups are settled all the same.
Complete(w) ==
  \E g \in wk[w].todo :
    /\ NextGroup(w, g)
    /\ finish(g.msgs, g.status, g.delay)
    /\ Settled(w, g)
    /\ notBefore' = [id \in Ids |->
         IF g.status = "pending" /\ OwnedIn(id, g.msgs)
         THEN clock + g.after ELSE notBefore[id]]
    /\ UNCHANGED delivered

\* The finish statement fails without effect, because of the database or of a
\* cancelled run.  (With an effect but no answer it is a Complete step.)
CompleteError(w) ==
  \E g \in wk[w].todo :
    /\ NextGroup(w, g)
    /\ Settled(w, g)
    /\ UNCHANGED <<rows, clock, seq, token, delivered, notBefore>>

\* The worker ends with its batch still claimed: an Abort outcome, an error
\* the Fatal classifier accepts, a panic in publisher or hook, or the end of
\* the process.  A restarted worker is idle.
Stop(w) ==
  /\ wk[w].pc # "idle"
  /\ wk' = [wk EXCEPT ![w] = Idle]
  /\ UNCHANGED <<rows, clock, seq, token, delivered, notBefore>>

-----------------------------------------------------------------------------
(***************************************************************************)
(* Callers, the cleaner and time                                           *)
(***************************************************************************)

Enqueue ==
  \E id \in Ids :
    /\ enqueue(id)
    /\ notBefore' = [notBefore EXCEPT ![id] = 0]
    /\ UNCHANGED <<wk, delivered>>

Requeue ==
  \E id \in Ids :
    /\ requeue(id)
    /\ notBefore' = [notBefore EXCEPT ![id] = 0]
    /\ UNCHANGED <<wk, delivered>>

Cleanup ==
  /\ \E S \in (SUBSET Ids) \ {{}} : CleanupSet(S, {}) /\ cleanup(S)
  /\ UNCHANGED <<wk, delivered, notBefore>>

Time == Tick /\ UNCHANGED <<wk, delivered, notBefore>>

\* What a worker does with a batch it has claimed.
BatchStep(w) ==
  \/ Renew(w) \/ RenewLost(w) \/ RenewError(w) \/ ContextDone(w)
  \/ Deliver(w)
  \/ PublishReturns(w) \/ PublishReturnsEach(w) \/ Abandon(w)
  \/ Complete(w) \/ CompleteError(w)
  \/ Stop(w)

Next ==
  \/ \E w \in Workers : Claim(w) \/ BatchStep(w)
  \/ Enqueue \/ Requeue \/ Cleanup \/ Time

Spec == Init /\ [][Next]_vars

-----------------------------------------------------------------------------
(***************************************************************************)
(* Properties                                                              *)
(***************************************************************************)

\* The types, with the counters bounding what was drawn from them: no row or
\* claim holds a token, a seq or an attempt count the database has not issued.
TypeOK ==
  /\ rows \in [Ids -> Row]
  /\ clock \in Nat \ {0} /\ seq \in Nat /\ token \in 0 .. MaxToken
  /\ wk \in [Workers -> Worker]
  /\ delivered \subseteq Ids \X Nat
  /\ notBefore \in [Ids -> Nat]
  /\ \A id \in Ids : /\ rows[id].seq <= seq
                     /\ rows[id].created_at <= clock
                     /\ rows[id].lease_token <= token
                     /\ rows[id].attempts <= token
  /\ \A w \in Workers : \A m \in wk[w].batch :
       m.row <= seq /\ m.token \in 1 .. token /\ m.attempts \in 1 .. token

\* At-least-once: a row recorded as published is one the transport has
\* received, and received for this row, not for an earlier row of the same id
\* that was cleaned up and enqueued again while a stale worker still held it.
PublishedWasDelivered ==
  \A id \in Ids :
    rows[id].status = "published" => <<id, rows[id].seq>> \in delivered

\* Ordered mode delivers each key in order: once the transport has received a
\* row, every earlier row of its key still in the table was delivered too or
\* discarded by the publisher.  Stale publishers still running are included.
OrderedDelivery ==
  Ordered =>
    \A a, b \in Ids :
      /\ Present(a) /\ Present(b)
      /\ SameKey(a, b) /\ Before(a, b)
      /\ <<b, rows[b].seq>> \in delivered
      => \/ <<a, rows[a].seq>> \in delivered
         \/ rows[a].status = "discarded"

\* Ordered mode never has two attempts of one key open at once.
OneAttemptPerKey ==
  Ordered =>
    \A a, b \in Ids :
      a # b /\ SameKey(a, b)
        => ~(rows[a].status = "processing" /\ rows[b].status = "processing")

\* The data of a row is there as long as it may still be published: a retry, a
\* takeover or a replay of a dead row never publishes a cleared payload.
DataUntilSettled ==
  \A id \in Ids :
    rows[id].status \in {"pending", "processing", "dead"} => rows[id].intact

\* A row waits for another attempt only below its attempt ceiling, whichever
\* worker failed it and whatever limit the message carries itself.
RetryBelowCeiling ==
  \A id \in Ids :
    rows[id].status = "pending" /\ rows[id].attempts > 0
      => rows[id].attempts < LimitOf(id)

Holds(w, id) == \E m \in wk[w].batch : m.id = id /\ m.token = rows[id].lease_token

\* While an attempt's lease is unexpired only the worker holding that very
\* attempt can end it, and only by settling: no rival claim, no stale
\* completion of an earlier attempt, no requeue and no cleanup touches it.
LiveAttemptIsFenced ==
  [][\A id \in Ids :
       /\ rows[id].status = "processing" /\ rows[id].locked_until > clock
       /\ \/ rows'[id].status # "processing"
          \/ rows'[id].lease_token # rows[id].lease_token
       => \E w \in Workers : /\ Holds(w, id)
                             /\ wk[w].pc = "settling"
                             /\ wk'[w] # wk[w]]_vars

\* A lease once expired is never revived, not even that of the latest claim: a
\* row whose lease is over changes only by a new claim, which draws a new token.
ExpiredIsFinal ==
  [][\A id \in Ids :
       /\ rows[id].status = "processing" /\ rows[id].locked_until <= clock
       /\ rows'[id] # rows[id]
       => token' # token /\ rows'[id].lease_token = token']_vars

\* No attempt starts early, whoever starts it: a new attempt, first or not, of
\* a waiting or a processing row respects the time asked for when the last
\* recorded attempt failed (RetryAfter), unless an operator requeued the row
\* since, and takes a row over only after its lease is over.  An attempt that
\* is never recorded (its completion failed, its lease was lost, its process
\* ended) gets a successor at lease expiry, whatever its publisher asked for:
\* RetryAfterIsMinimum is about that one.
RetryNotEarly ==
  [][\A id \in Ids :
       /\ rows'[id].status = "processing"
       /\ rows'[id].lease_token # rows[id].lease_token
       => /\ clock >= notBefore[id]
          /\ rows[id].status = "processing" => rows[id].locked_until < clock]_vars

\* The cleaner drops nothing that still matters: a row leaves the table only
\* published and really delivered, discarded, or dead, and each of these only
\* with the retention of that status switched on.
NothingDropped ==
  [][\A id \in Ids :
       Present(id) /\ rows'[id].status = "absent"
         => \/ /\ rows[id].status = "published" /\ Retention > 0
               /\ <<id, rows[id].seq>> \in delivered
            \/ rows[id].status = "discarded" /\ DiscardRetention > 0
            \/ rows[id].status = "dead" /\ DeadRetention > 0]_vars

\* config.WithMaxAttempts calls its value the attempt ceiling before
\* dead-lettering: no row is attempted more often than its limit.
AttemptCeiling ==
  \A id \in Ids : LimitOf(id) > 0 => rows[id].attempts <= LimitOf(id)

-----------------------------------------------------------------------------
(***************************************************************************)
(* The queue this implements.  A row is queued until it is settled, however *)
(* often it is claimed meanwhile; only ordered mode gives a key to queue by. *)
(***************************************************************************)
QueueState ==
  [id \in Ids |-> IF rows[id].status \in {"pending", "processing"}
                  THEN "queued" ELSE rows[id].status]

QueueKey == [id \in Ids |-> IF Ordered THEN KeyOf[id] ELSE NoKey]

QueueAhead ==
  [id \in Ids |-> {a \in Ids : /\ Ordered /\ SameKey(a, id)
                              /\ Present(a) /\ Present(id) /\ Before(a, id)}]

QueueReceived == {id \in Ids : Present(id) /\ <<id, rows[id].seq>> \in delivered}

QueueForgettable ==
  {s \in {"published", "dead", "discarded"} :
     \/ s = "published" /\ Retention > 0
     \/ s = "dead" /\ DeadRetention > 0
     \/ s = "discarded" /\ DiscardRetention > 0}

Queue == INSTANCE OutboxQueue
           WITH KeyOf <- QueueKey, Forgettable <- QueueForgettable,
                state <- QueueState, ahead <- QueueAhead,
                received <- QueueReceived

\* Rows, leases, attempts and racing workers together behave as the queue of
\* OutboxQueue: settled once, published only when received, received in the
\* order of the key, deleted only where a retention was switched on.
ImplementsQueue == Queue!Spec

-----------------------------------------------------------------------------
(***************************************************************************)
(* The inductive invariant behind the properties                           *)
(***************************************************************************)

\* A lease token found in a row speaks for the claim that drew it: for this
\* row, not an earlier one of the same id, and for this attempt of it.
ClaimInv ==
  \A w \in Workers : \A m \in wk[w].batch :
    rows[m.id].lease_token = m.token
      => rows[m.id].seq = m.row /\ rows[m.id].attempts = m.attempts

\* What a worker still has to record is true of the messages it is about.
Plan(g, batch) ==
  /\ g \in Completion
  /\ g.msgs \subseteq batch
  /\ g.status \in {"published", "dead", "discarded", "pending"}
  /\ g.status = "published" => \A m \in g.msgs : InTransport(m)
  /\ g.status = "pending"
       => g.after <= g.delay /\ \A m \in g.msgs : m.attempts < LimitOf(m.id)

PlanInv == \A w \in Workers : \A g \in wk[w].todo : Plan(g, wk[w].batch)

\* An unsettled row, claimed again or not, is not due before the publisher of
\* its last recorded attempt asked for it.
DueInv ==
  \A id \in Ids :
    rows[id].status \in {"pending", "processing"}
      => notBefore[id] <= rows[id].next_attempt_at

\* No two rows share a seq, and the transport has seen only seqs already drawn.
SeqInv ==
  /\ \A a, b \in Ids : Present(a) /\ Present(b) /\ rows[a].seq = rows[b].seq
                         => a = b
  /\ \A d \in delivered : d[2] <= seq

\* Some attempt at id's row has begun.
Touched(id) ==
  \/ rows[id].status # "pending"
  \/ <<id, rows[id].seq>> \in delivered
  \/ \E w \in Workers : \E m \in wk[w].batch : m.id = id /\ m.row = rows[id].seq

\* In ordered mode a row is touched only when all rows before it in its key are
\* settled.
HeadInv ==
  Ordered =>
    \A a, b \in Ids :
      Present(a) /\ Present(b) /\ SameKey(a, b) /\ Before(a, b) /\ Touched(b)
        => rows[a].status \in {"published", "discarded"}

IInv ==
  /\ TypeOK /\ ClaimInv /\ PlanInv
  /\ PublishedWasDelivered /\ DataUntilSettled /\ RetryBelowCeiling /\ DueInv
  /\ SeqInv /\ HeadInv

=============================================================================
