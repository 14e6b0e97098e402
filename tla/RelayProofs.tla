---------------------------- MODULE RelayProofs ----------------------------
(***************************************************************************)
(* Proofs that every behaviour of Relay, for any messages, workers and     *)
(* settings, has the safety properties stated there.                       *)
(***************************************************************************)
EXTENDS Relay, TLAPS

USE DEF NULL

\* The rows' half and the workers' half of TypeOK.
RowsOK ==
  /\ rows \in [Ids -> Row]
  /\ clock \in Nat \ {0} /\ seq \in Nat /\ token \in 0 .. MaxToken
  /\ \A id \in Ids : /\ rows[id].seq <= seq
                     /\ rows[id].created_at <= clock
                     /\ rows[id].lease_token <= token
                     /\ rows[id].attempts <= token

WorkersOK ==
  /\ wk \in [Workers -> Worker]
  /\ \A w \in Workers : \A m \in wk[w].batch :
       m.row <= seq /\ m.token \in 1 .. token /\ m.attempts \in 1 .. token

HistoryOK ==
  /\ delivered \subseteq Ids \X Nat
  /\ notBefore \in [Ids -> Nat]

\* TypeOK in three parts: what the statements, the workers and the history keep.
LEMMA TypeSplit == TypeOK <=> RowsOK /\ WorkersOK /\ HistoryOK
  BY DEF TypeOK, RowsOK, WorkersOK, HistoryOK

\* The mark of an absent row is a row record.
LEMMA NoRowType == NoRow \in Row
  BY DEF NoRow, Row, Status

\* An empty table and idle workers are well typed.
LEMMA InitType == Init => TypeOK
<1> SUFFICES ASSUME Init PROVE TypeOK
  OBVIOUS
<1>1. RowsOK
  BY NoRowType, StoreAssumption DEF Init, StoreInit, RowsOK, NoRow
<1>2. WorkersOK
  BY DEF Init, WorkersOK, Worker, Idle, Message, Completion
<1>3. HistoryOK
  BY DEF Init, HistoryOK
<1> QED BY <1>1, <1>2, <1>3, TypeSplit

\* The INSERT of store.Enqueue keeps the rows well typed.
LEMMA EnqueueRows ==
  ASSUME RowsOK, NEW id \in Ids, enqueue(id)
  PROVE  RowsOK'
<1> DEFINE new == NewRow(clock, seq + 1)
<1>1. clock \in Nat /\ seq + 1 \in Nat /\ "pending" \in Status
  BY DEF RowsOK, Status
<1>2. new \in Row
  BY <1>1, NoRowType DEF NewRow, Row
<1>3. new.seq = seq + 1 /\ new.created_at = clock
        /\ new.lease_token = 0 /\ new.attempts = 0
  BY DEF NewRow, NoRow
<1> HIDE DEF new
<1>4. rows' = [rows EXCEPT ![id] = new] /\ seq' = seq + 1
        /\ clock' = clock /\ token' = token
  BY DEF enqueue, new
<1>5. \A x \in Ids : rows[x].seq \in Nat
  BY DEF RowsOK, Row
<1> QED BY <1>1, <1>2, <1>3, <1>4, <1>5 DEF RowsOK

\* The deadlines that claim and renew write are times.
LEMMA DeadlineType == RowsOK => Deadline \subseteq Nat
  BY StoreAssumption DEF RowsOK, Deadline

\* claim keeps the rows well typed: the token and the attempt it hands out were
\* never handed out before.
LEMMA ClaimRows ==
  ASSUME RowsOK, NEW S \in SUBSET Ids, claim(S)
  PROVE  RowsOK'
<1>0. PICK until \in [S -> Deadline] : rows' = [id \in Ids |->
        IF id \in S
        THEN [rows[id] EXCEPT !.status = "processing",
                              !.locked_until = until[id],
                              !.lease_token = token + 1,
                              !.attempts = rows[id].attempts + 1]
        ELSE rows[id]]
  BY DEF claim
<1>1. ASSUME NEW id \in S
      PROVE  [rows[id] EXCEPT !.status = "processing",
                              !.locked_until = until[id],
                              !.lease_token = token + 1,
                              !.attempts = rows[id].attempts + 1] \in Row
  <2>1. rows[id] \in Row /\ "processing" \in Status
    BY <1>1 DEF RowsOK, Status
  <2>2. rows[id].attempts + 1 \in Nat /\ token + 1 \in Nat
    BY <2>1, StoreAssumption DEF RowsOK, Row
  <2>3. until[id] \in Nat
    BY <1>0, <1>1, DeadlineType
  <2> QED BY <2>1, <2>2, <2>3 DEF Row
<1>2. rows' \in [Ids -> Row]
  BY <1>0, <1>1 DEF RowsOK
<1>3. token' \in 0 .. MaxToken /\ token' = token + 1 /\ clock' = clock /\ seq' = seq
  <2>1. MaxToken \in Nat
    BY StoreAssumption
  <2>2. token \in 0 .. MaxToken
    BY DEF RowsOK
  <2>3. token < MaxToken /\ token' = token + 1 /\ clock' = clock /\ seq' = seq
    BY DEF claim
  <2> QED BY <2>1, <2>2, <2>3
<1>4. ASSUME NEW id \in Ids
      PROVE  /\ rows'[id].seq = rows[id].seq
             /\ rows'[id].created_at = rows[id].created_at
             /\ rows'[id].lease_token \in {rows[id].lease_token, token + 1}
             /\ rows'[id].attempts \in {rows[id].attempts, rows[id].attempts + 1}
  BY <1>0 DEF RowsOK, Row
<1>5. \A id \in Ids : rows[id] \in Row
  BY DEF RowsOK
<1> QED BY <1>2, <1>3, <1>4, <1>5 DEF RowsOK, Row

\* renew keeps the rows well typed.
LEMMA RenewRows ==
  ASSUME RowsOK, NEW msgs, renew(msgs)
  PROVE  RowsOK'
<1>0. PICK until \in [{m.id : m \in msgs} -> Deadline] : rows' = [id \in Ids |->
        IF OwnedIn(id, msgs)
        THEN [rows[id] EXCEPT !.locked_until = until[id]]
        ELSE rows[id]]
  BY DEF renew
<1>1. ASSUME NEW id \in Ids, OwnedIn(id, msgs)
      PROVE  [rows[id] EXCEPT !.locked_until = until[id]] \in Row
  <2>1. until[id] \in Nat
    BY <1>0, <1>1, DeadlineType DEF OwnedIn
  <2> QED BY <2>1 DEF RowsOK, Row
<1>2. rows' \in [Ids -> Row]
  BY <1>0, <1>1 DEF RowsOK
<1>3. \A id \in Ids : /\ rows'[id].seq = rows[id].seq
                     /\ rows'[id].created_at = rows[id].created_at
                     /\ rows'[id].lease_token = rows[id].lease_token
                     /\ rows'[id].attempts = rows[id].attempts
  BY <1>0 DEF RowsOK, Row
<1> QED BY <1>2, <1>3 DEF renew, RowsOK

\* The SET list of finish yields a row record for every status complete passes.
LEMMA FinishedType ==
  ASSUME NEW r \in Row, NEW status \in Status, NEW delay \in Nat, clock \in Nat
  PROVE  /\ Finished(r, status, delay) \in Row
         /\ Finished(r, status, delay).status = status
         /\ Finished(r, status, delay).seq = r.seq
         /\ Finished(r, status, delay).created_at = r.created_at
         /\ Finished(r, status, delay).attempts = r.attempts
         /\ Finished(r, status, delay).lease_token = 0
         /\ r.intact /\ status \notin {"published", "discarded"}
              => Finished(r, status, delay).intact
<1> DEFINE f == Finished(r, status, delay)
           n == IF status = "pending" THEN clock + delay ELSE r.next_attempt_at
           p == IF status = "published" THEN clock ELSE NULL
           e == IF status = "pending" THEN NULL ELSE clock
           i == r.intact /\ ~(ClearPayloadOnComplete
                               /\ status \in {"published", "discarded"})
<1>1. n \in Nat /\ p \in Nat /\ e \in Nat /\ i \in BOOLEAN
  BY DEF Row
<1>2. f = [r EXCEPT !.status = status, !.next_attempt_at = n,
                    !.published_at = p, !.finished_at = e, !.intact = i,
                    !.locked_until = 0, !.lease_token = 0]
  BY DEF Finished
<1>3. r.intact /\ status \notin {"published", "discarded"} => i
  OBVIOUS
<1> HIDE DEF f, n, p, e, i
<1>4. f \in Row
  BY <1>1, <1>2 DEF Row
<1>5. /\ f.status = status
      /\ f.seq = r.seq
      /\ f.created_at = r.created_at
      /\ f.attempts = r.attempts
      /\ f.lease_token = 0
      /\ f.intact = i
  BY <1>2 DEF Row
<1> QED BY <1>3, <1>4, <1>5 DEF f

\* finish keeps the rows well typed.
LEMMA FinishRows ==
  ASSUME RowsOK, NEW msgs, NEW status \in Status, NEW delay \in Nat,
         finish(msgs, status, delay)
  PROVE  RowsOK'
<1>1. rows' \in [Ids -> Row]
  BY FinishedType DEF finish, RowsOK
<1>2. ASSUME NEW id \in Ids
      PROVE  /\ rows'[id].seq = rows[id].seq
             /\ rows'[id].created_at = rows[id].created_at
             /\ rows'[id].lease_token \in {rows[id].lease_token, 0}
             /\ rows'[id].attempts = rows[id].attempts
  BY FinishedType DEF finish, RowsOK
<1> QED BY <1>1, <1>2 DEF finish, RowsOK

\* Requeue keeps the rows well typed.
LEMMA RequeueRows ==
  ASSUME RowsOK, NEW id \in Ids, requeue(id)
  PROVE  RowsOK'
<1>1. Requeued(rows[id], clock) \in Row
  BY DEF Requeued, Row, Status, RowsOK
<1> QED BY <1>1 DEF requeue, RowsOK, Requeued, Row

\* cleanup keeps the rows well typed.
LEMMA CleanupRows ==
  ASSUME RowsOK, NEW S \in SUBSET Ids, cleanup(S)
  PROVE  RowsOK'
  BY NoRowType DEF cleanup, RowsOK, NoRow

-----------------------------------------------------------------------------
(***************************************************************************)
(* Settling                                                                *)
(***************************************************************************)

\* A retry is planned below the ceiling only, and never sooner than asked for.
LEMMA RetryFacts ==
  ASSUME NEW m \in Message, m.attempts \in 0 .. MaxToken, NEW after \in Nat
  PROVE  /\ RetryStatus(m) \in {"dead", "pending"}
         /\ RetryDelay(m, after) \in Nat
         /\ RetryStatus(m) = "pending"
              => after <= RetryDelay(m, after) /\ m.attempts < LimitOf(m.id)
<1>1. m.attempts \in Nat /\ m.id \in Ids /\ Backoff(m.attempts) \in Int
  BY RelayAssumption DEF Message
<1>2. LimitOf(m.id) \in Int
  BY <1>1, RelayAssumption DEF LimitOf
<1>3. RetryDelay(m, after) \in Nat
        /\ (~(m.attempts >= LimitOf(m.id)) => after <= RetryDelay(m, after))
  BY <1>1, <1>2 DEF RetryDelay
<1> QED BY <1>1, <1>2, <1>3 DEF RetryStatus

\* Every classified outcome has one of four kinds and a delay.
LEMMA OutcomeFacts ==
  ASSUME NEW o \in Outcome
  PROVE  /\ o.kind \in {"nil", "permanent", "discard", "retry"}
         /\ o.after \in Nat
<1>1. CASE o \in [kind: {"nil", "permanent", "discard"}, after: {0}]
  BY <1>1
<1>2. CASE o \in [kind: {"retry"}, after: RetryDelays \cup {0}]
  <2>1. RetryDelays \cup {0} \subseteq Nat
    BY RelayAssumption
  <2> QED BY <1>2, <2>1
<1> QED BY <1>1, <1>2 DEF Outcome

\* settle plans only what is true: published for messages in the transport,
\* pending for messages below their ceiling and not before they were asked for.
LEMMA SettlePlans ==
  ASSUME TypeOK, NEW w \in Workers, NEW msgs \in SUBSET wk[w].batch,
         NEW o, o.kind \in {"nil", "permanent", "discard", "retry"},
         o.after \in Nat, NEW phase \in 1 .. 3,
         o.kind = "nil" => \A m \in msgs : InTransport(m),
         NEW g \in settle(msgs, o, phase)
  PROVE  Plan(g, wk[w].batch)
<1>1. msgs \in SUBSET Message
  BY DEF TypeOK, Worker
<1>2. CASE o.kind # "retry"
  <2> DEFINE whole(status) == [msgs |-> msgs, status |-> status, delay |-> 0,
                               after |-> 0, phase |-> phase]
  <2>1. PICK status \in {"published", "dead", "discarded"} :
          g = whole(status) /\ (status = "published" => o.kind = "nil")
    BY <1>2 DEF settle
  <2>2. g \in Completion
    BY <1>1, <2>1 DEF Completion, Status
  <2> QED BY <1>1, <2>1, <2>2 DEF Plan
<1>3. CASE o.kind = "retry"
  <2>1. PICK m \in msgs :
          g = [msgs |-> {m}, status |-> RetryStatus(m),
               delay |-> RetryDelay(m, o.after),
               after |-> o.after, phase |-> phase]
    BY <1>3 DEF settle
  <2>2. m \in Message /\ m.attempts \in 1 .. token /\ token \in 0 .. MaxToken
    BY <1>1 DEF TypeOK
  <2>3. m.attempts \in 0 .. MaxToken
    BY <2>2, StoreAssumption
  <2>4. /\ RetryStatus(m) \in {"dead", "pending"}
        /\ RetryDelay(m, o.after) \in Nat
        /\ RetryStatus(m) = "pending"
              => o.after <= RetryDelay(m, o.after) /\ m.attempts < LimitOf(m.id)
    BY <2>2, <2>3, RetryFacts
  <2>5. g \in Completion
    BY <2>1, <2>2, <2>4 DEF Completion, Status
  <2> QED BY <2>1, <2>4, <2>5 DEF Plan
<1> QED BY <1>2, <1>3

\* settleEach plans only what is true, for listed and unlisted messages alike.
LEMMA SettleEachPlans ==
  ASSUME TypeOK, NEW w \in Workers, NEW E, NEW entries \in [E -> Outcome],
         NEW others \in Outcome,
         \A m \in wk[w].batch :
           (IF m.id \in E THEN entries[m.id] ELSE others).kind = "nil"
             => InTransport(m),
         NEW g \in settleEach(wk[w].batch, entries, others)
  PROVE  Plan(g, wk[w].batch)
<1> DEFINE batch == wk[w].batch
           listed(m)  == m.id \in DOMAIN entries
           outcome(m) == IF listed(m) THEN entries[m.id] ELSE others
           published  == {m \in batch : outcome(m).kind = "nil"}
           failed     == {m \in batch \ published : listed(m)}
           rest       == batch \ (published \cup failed)
           ok == [kind |-> "nil", after |-> 0]
<1>0. DOMAIN entries = E
  OBVIOUS
<1>1. \/ \E m \in failed : g \in settle({m}, entries[m.id], 1)
      \/ g \in settle(published, ok, 2)
      \/ g \in settle(rest, others, 3)
  <2> DEFINE F == {settle({m}, entries[m.id], 1) : m \in failed}
  <2>1. g \in (UNION F) \cup settle(published, ok, 2) \cup settle(rest, others, 3)
    BY Zenon DEF settleEach
  <2>2. ASSUME g \in UNION F
        PROVE  \E m \in failed : g \in settle({m}, entries[m.id], 1)
    <3>1. PICK X \in F : g \in X
      BY <2>2
    <3>2. PICK m \in failed : X = settle({m}, entries[m.id], 1)
      BY <3>1, Zenon
    <3> QED BY <3>1, <3>2, Zenon
  <2> HIDE DEF F, published, failed, rest, ok
  <2>3. \/ g \in UNION F
        \/ g \in settle(published, ok, 2)
        \/ g \in settle(rest, others, 3)
    BY <2>1
  <2> QED BY <2>2, <2>3
<1>2. ASSUME NEW m \in failed, g \in settle({m}, entries[m.id], 1)
      PROVE  Plan(g, batch)
  <2>1. entries[m.id] \in Outcome /\ entries[m.id].kind # "nil"
          /\ {m} \in SUBSET batch
    BY <1>0, <1>2
  <2> HIDE DEF failed
  <2> DEFINE e == entries[m.id]
             one == {m}
  <2>2. e.kind \in {"nil", "permanent", "discard", "retry"} /\ e.after \in Nat
    BY <2>1, OutcomeFacts
  <2>3. one \in SUBSET wk[w].batch /\ g \in settle(one, e, 1)
          /\ e.kind # "nil"
    BY <1>2, <2>1
  <2> HIDE DEF one, e
  <2> QED BY <2>2, <2>3, SettlePlans
<1>3. CASE g \in settle(published, ok, 2)
  <2>1. \A m \in published : InTransport(m)
    BY <1>0
  <2>2. published \in SUBSET batch
    OBVIOUS
  <2> HIDE DEF published
  <2> QED BY <1>3, <2>1, <2>2, SettlePlans
<1>4. CASE g \in settle(rest, others, 3)
  <2>1. \A m \in rest : others.kind # "nil"
    OBVIOUS
  <2>2. rest \in SUBSET batch
    OBVIOUS
  <2> HIDE DEF rest
  <2>3. others.kind \in {"nil", "permanent", "discard", "retry"}
          /\ others.after \in Nat
    BY OutcomeFacts
  <2>4. others.kind = "nil" => \A m \in rest : InTransport(m)
    BY <2>1
  <2> QED BY <1>4, <2>2, <2>3, <2>4, SettlePlans
<1> QED BY <1>1, <1>2, <1>3, <1>4

-----------------------------------------------------------------------------
(***************************************************************************)
(* Steps that change no row, or only extend leases                         *)
(***************************************************************************)

\* The part of HeadInv about the pairs of ids in R.
HeadOn(R) ==
  Ordered =>
    \A a, b \in Ids :
      /\ <<a, b>> \in R
      /\ Present(a) /\ Present(b) /\ SameKey(a, b) /\ Before(a, b) /\ Touched(b)
      => rows[a].status \in {"published", "discarded"}

\* The invariant with the order of the pairs in R only.  Every step of a worker
\* and of the cleaner keeps it whatever R is; which pairs keep their order
\* depends on how rows enter the table.
InvOn(R) ==
  /\ TypeOK /\ ClaimInv /\ PlanInv
  /\ PublishedWasDelivered /\ DataUntilSettled /\ RetryBelowCeiling /\ DueInv
  /\ SeqInv /\ HeadOn(R)

\* With every pair it is the invariant of Relay.
LEMMA AllPairs == IInv <=> InvOn(Ids \X Ids)
<1>1. \A a, b \in Ids : <<a, b>> \in Ids \X Ids
  OBVIOUS
<1>2. HeadInv <=> HeadOn(Ids \X Ids)
  BY <1>1, Zenon DEF HeadInv, HeadOn
<1> QED BY <1>2 DEF IInv, InvOn

\* Everything but the lease times of a row stays.
SameRow(id) ==
  /\ rows'[id].status = rows[id].status
  /\ rows'[id].attempts = rows[id].attempts
  /\ rows'[id].lease_token = rows[id].lease_token
  /\ rows'[id].next_attempt_at = rows[id].next_attempt_at
  /\ rows'[id].created_at = rows[id].created_at
  /\ rows'[id].seq = rows[id].seq
  /\ rows'[id].intact = rows[id].intact

\* Workers only drop messages, and only held messages are handed over.
FewerClaims ==
  /\ \A w \in Workers : wk'[w].batch \subseteq wk[w].batch
  /\ delivered \subseteq delivered'
  /\ \A d \in delivered' \ delivered :
       \E w \in Workers : \E m \in wk[w].batch : d = <<m.id, m.row>>

\* A claimed message carries an id, a token, a row and an attempt that were drawn.
LEMMA MessageFacts ==
  ASSUME TypeOK, NEW w \in Workers, NEW m \in wk[w].batch
  PROVE  /\ m \in Message /\ m.id \in Ids
         /\ m.token \in Nat \ {0} /\ m.token <= token
         /\ m.row \in Nat /\ m.row <= seq
         /\ m.attempts \in 1 .. token
  BY DEF TypeOK, Worker, Message

\* A step that changes no row beyond its lease, and in which workers only drop
\* claims or hand messages over, keeps the invariant.
LEMMA StillStep ==
  ASSUME NEW R, InvOn(R), RowsOK', \A id \in Ids : SameRow(id), FewerClaims,
         seq' = seq \/ seq' = seq + 1, token' = token, notBefore' = notBefore,
         wk' \in [Workers -> Worker], PlanInv'
  PROVE  InvOn(R)'
<1> USE DEF InvOn
<1>0. seq \in Nat /\ seq' \in Nat /\ seq <= seq'
  BY DEF TypeOK
<1>1. TypeOK'
  <2>1. WorkersOK'
    BY <1>0, MessageFacts DEF WorkersOK, FewerClaims
  <2>2. delivered' \subseteq Ids \X Nat
    <3> SUFFICES ASSUME NEW d \in delivered' PROVE d \in Ids \X Nat
      OBVIOUS
    <3>1. CASE d \in delivered
      BY <3>1 DEF TypeOK
    <3>2. CASE d \notin delivered
      BY <3>2, MessageFacts DEF FewerClaims
    <3> QED BY <3>1, <3>2
  <2>3. HistoryOK'
    BY <2>2 DEF HistoryOK, TypeOK
  <2> QED BY <2>1, <2>3 DEF TypeOK, RowsOK, WorkersOK, HistoryOK
<1>2. ClaimInv'
  BY MessageFacts DEF ClaimInv, FewerClaims, SameRow
<1>3. PublishedWasDelivered'
  BY DEF PublishedWasDelivered, SameRow, FewerClaims
<1>4. DataUntilSettled' /\ RetryBelowCeiling' /\ DueInv'
  BY DEF DataUntilSettled, RetryBelowCeiling, DueInv, SameRow, LimitOf
<1>5. SeqInv'
  <2>1. \A d \in delivered' : d[2] <= seq'
    <3> SUFFICES ASSUME NEW d \in delivered' PROVE d[2] <= seq /\ d[2] \in Nat
      BY <1>0
    <3>1. CASE d \in delivered
      BY <3>1 DEF SeqInv, TypeOK
    <3>2. CASE d \notin delivered
      BY <3>2, MessageFacts DEF FewerClaims
    <3> QED BY <3>1, <3>2
  <2> QED BY <2>1 DEF SeqInv, SameRow, Present
<1>6. HeadOn(R)'
  <2>1. ASSUME NEW b \in Ids, Touched(b)' PROVE Touched(b)
    BY <2>1 DEF Touched, SameRow, FewerClaims
  <2>2. \A a, b \in Ids : /\ Present(a)' = Present(a)
                          /\ SameKey(a, b)' = SameKey(a, b)
                          /\ Before(a, b)' = Before(a, b)
    BY DEF Present, SameKey, Before, SameRow
  <2> QED BY <2>1, <2>2 DEF HeadOn, SameRow
<1> QED BY <1>1, <1>2, <1>3, <1>4, <1>5, <1>6

\* Steps of one worker that leave the table alone.
LEMMA WorkerStep ==
  ASSUME NEW R, InvOn(R), NEW w \in Workers, NEW new \in Worker,
         new.batch \subseteq wk[w].batch,
         \A g \in new.todo : Plan(g, new.batch),
         wk' = [wk EXCEPT ![w] = new],
         UNCHANGED <<rows, clock, seq, token, delivered, notBefore>>
  PROVE  InvOn(R)'
<1>1. wk' \in [Workers -> Worker]
  BY DEF InvOn, TypeOK
<1>2. RowsOK' /\ \A id \in Ids : SameRow(id)
  BY DEF InvOn, TypeOK, RowsOK, SameRow
<1>3. FewerClaims
  BY DEF FewerClaims, InvOn, TypeOK
<1>4. PlanInv'
  BY DEF PlanInv, Plan, InTransport, InvOn, TypeOK
<1> QED BY <1>1, <1>2, <1>3, <1>4, StillStep

\* An idle worker holds nothing.
LEMMA IdleWorker == Idle \in Worker /\ Idle.batch = {} /\ Idle.todo = {}
  BY DEF Idle, Worker

\* The end of the heartbeat, by an error or a done context, keeps the invariant.
LEMMA BeatEnds ==
  ASSUME NEW R, InvOn(R), NEW w \in Workers, RenewError(w) \/ ContextDone(w)
  PROVE  InvOn(R)'
<1>1. PICK hb \in {"quiet", "lost"} : wk' = [wk EXCEPT ![w].hb = hb]
  BY DEF RenewError, ContextDone
<1> DEFINE new == [wk[w] EXCEPT !.hb = hb]
<1>2. new \in Worker /\ new.batch = wk[w].batch /\ new.todo = wk[w].todo
  BY DEF InvOn, TypeOK, Worker
<1>3. wk' = [wk EXCEPT ![w] = new]
  BY <1>1
<1>4. \A g \in new.todo : Plan(g, new.batch)
  BY <1>2 DEF InvOn, PlanInv
<1> HIDE DEF new
<1>5. UNCHANGED <<rows, clock, seq, token, delivered, notBefore>>
  BY DEF RenewError, ContextDone
<1> QED BY <1>2, <1>3, <1>4, <1>5, WorkerStep

\* A worker that abandons its batch or stops keeps the invariant.
LEMMA GivesUp ==
  ASSUME NEW R, InvOn(R), NEW w \in Workers, Abandon(w) \/ Stop(w)
  PROVE  InvOn(R)'
<1>1. wk' = [wk EXCEPT ![w] = Idle]
        /\ UNCHANGED <<rows, clock, seq, token, delivered, notBefore>>
  BY DEF Abandon, Stop
<1> QED BY <1>1, IdleWorker, WorkerStep

\* Publish returning with a true plan keeps the invariant.
LEMMA StartSettlingStep ==
  ASSUME NEW R, InvOn(R), NEW w \in Workers, NEW todo,
         \A g \in todo : Plan(g, wk[w].batch), StartSettling(w, todo)
  PROVE  InvOn(R)'
<1> DEFINE new == [wk[w] EXCEPT !.pc = "settling", !.hb = "off", !.todo = todo]
<1>1. todo \in SUBSET Completion
  BY DEF Plan
<1>2. new \in Worker /\ new.batch = wk[w].batch /\ new.todo = todo
  BY <1>1 DEF InvOn, TypeOK, Worker
<1>3. wk' = [wk EXCEPT ![w] = new]
        /\ UNCHANGED <<rows, clock, seq, token, delivered, notBefore>>
  BY DEF StartSettling, InvOn, TypeOK
<1> HIDE DEF new
<1> QED BY <1>2, <1>3, WorkerStep

\* Publish returning one outcome for its batch keeps the invariant.
LEMMA PublishReturnsStep ==
  ASSUME NEW R, InvOn(R), NEW w \in Workers, PublishReturns(w)
  PROVE  InvOn(R)'
<1>1. PICK o \in Outcome :
        /\ o.kind = "nil" => \A m \in wk[w].batch : InTransport(m)
        /\ StartSettling(w, settle(wk[w].batch, o, 1))
  BY DEF PublishReturns
<1> DEFINE todo == settle(wk[w].batch, o, 1)
<1>2. o.kind \in {"nil", "permanent", "discard", "retry"} /\ o.after \in Nat
  BY OutcomeFacts
<1>3. ASSUME NEW g \in todo PROVE Plan(g, wk[w].batch)
  BY <1>1, <1>2, SettlePlans DEF InvOn
<1> HIDE DEF todo
<1> QED BY <1>1, <1>3, StartSettlingStep DEF todo

\* Publish returning a PerMessage outcome keeps the invariant.
LEMMA PublishReturnsEachStep ==
  ASSUME NEW R, InvOn(R), NEW w \in Workers, PublishReturnsEach(w)
  PROVE  InvOn(R)'
<1>1. PICK E \in SUBSET {m.id : m \in wk[w].batch}, others \in Outcome :
        \E entries \in [E -> Outcome] :
          /\ \A m \in wk[w].batch :
               (IF m.id \in E THEN entries[m.id] ELSE others).kind = "nil"
                 => InTransport(m)
          /\ StartSettling(w, settleEach(wk[w].batch, entries, others))
  BY DEF PublishReturnsEach
<1>2. PICK entries \in [E -> Outcome] :
          /\ \A m \in wk[w].batch :
               (IF m.id \in E THEN entries[m.id] ELSE others).kind = "nil"
                 => InTransport(m)
          /\ StartSettling(w, settleEach(wk[w].batch, entries, others))
  BY <1>1
<1> DEFINE todo == settleEach(wk[w].batch, entries, others)
<1>3. ASSUME NEW g \in todo PROVE Plan(g, wk[w].batch)
  BY <1>2, SettleEachPlans DEF InvOn
<1> HIDE DEF todo
<1> QED BY <1>2, <1>3, StartSettlingStep DEF todo

\* What Settled leaves of a worker.
LEMMA SettledWorker ==
  ASSUME NEW R, InvOn(R), NEW w \in Workers, NEW g \in wk[w].todo, Settled(w, g)
  PROVE  \E new \in Worker : /\ wk' = [wk EXCEPT ![w] = new]
                             /\ new.batch \subseteq wk[w].batch
                             /\ new.todo \subseteq wk[w].todo
                             /\ new.todo # {} => new.batch = wk[w].batch
<1> DEFINE left == [wk[w] EXCEPT !.todo = @ \ {g}]
<1>1. left \in Worker /\ left.batch = wk[w].batch
        /\ left.todo = wk[w].todo \ {g}
  BY DEF InvOn, TypeOK, Worker
<1>2. wk' = [wk EXCEPT ![w] = IF wk[w].todo = {g} THEN Idle ELSE left]
  BY DEF Settled
<1> HIDE DEF left
<1> QED BY <1>1, <1>2, IdleWorker

\* A finish statement that fails keeps the invariant.
LEMMA CompleteErrorStep ==
  ASSUME NEW R, InvOn(R), NEW w \in Workers, CompleteError(w)
  PROVE  InvOn(R)'
<1>1. PICK g \in wk[w].todo : Settled(w, g)
  BY DEF CompleteError
<1>2. PICK new \in Worker : /\ wk' = [wk EXCEPT ![w] = new]
                            /\ new.batch \subseteq wk[w].batch
                            /\ new.todo \subseteq wk[w].todo
                            /\ new.todo # {} => new.batch = wk[w].batch
  BY <1>1, SettledWorker
<1>3. \A h \in new.todo : Plan(h, new.batch)
  BY <1>2 DEF InvOn, PlanInv
<1>4. UNCHANGED <<rows, clock, seq, token, delivered, notBefore>>
  BY DEF CompleteError
<1> QED BY <1>2, <1>3, <1>4, WorkerStep

\* Handing a message to the transport keeps the invariant, ordered mode included:
\* a worker holds only messages whose predecessors are settled.
LEMMA DeliverStep ==
  ASSUME NEW R, InvOn(R), NEW w \in Workers, Deliver(w)
  PROVE  InvOn(R)'
<1>1. PICK m \in wk[w].batch : delivered' = delivered \cup {<<m.id, m.row>>}
  BY DEF Deliver
<1>2. UNCHANGED <<rows, clock, seq, token, wk, notBefore>>
  BY DEF Deliver
<1>3. RowsOK' /\ \A id \in Ids : SameRow(id)
  BY <1>2 DEF InvOn, TypeOK, RowsOK, SameRow
<1>4. FewerClaims
  BY <1>1, <1>2 DEF FewerClaims
<1>5. PlanInv'
  BY <1>1, <1>2 DEF PlanInv, Plan, InTransport, InvOn
<1> QED BY <1>2, <1>3, <1>4, <1>5, StillStep DEF InvOn, TypeOK

\* The passing of time keeps the invariant.
LEMMA TimeStep ==
  ASSUME NEW R, InvOn(R), Time
  PROVE  InvOn(R)'
<1>1. UNCHANGED <<rows, seq, token, wk, delivered, notBefore>> /\ clock' = clock + 1
  BY DEF Time, Tick
<1>2. \A id \in Ids : SameRow(id) /\ rows[id].created_at \in Nat
  BY <1>1 DEF SameRow, InvOn, TypeOK, Row
<1>3. RowsOK'
  BY <1>1, <1>2 DEF InvOn, TypeOK, RowsOK
<1>4. FewerClaims
  BY <1>1 DEF FewerClaims
<1>5. PlanInv'
  BY <1>1 DEF PlanInv, Plan, InTransport, InvOn
<1> QED BY <1>1, <1>2, <1>3, <1>4, <1>5, StillStep DEF InvOn, TypeOK

\* A renewal, complete or partial, keeps the invariant.
LEMMA BeatStep ==
  ASSUME NEW R, InvOn(R), NEW w \in Workers, Renew(w) \/ RenewLost(w)
  PROVE  InvOn(R)'
<1>1. renew(wk[w].batch) /\ UNCHANGED <<delivered, notBefore>>
  BY DEF Renew, RenewLost
<1>2. RowsOK'
  BY <1>1, RenewRows DEF InvOn, TypeOK, RowsOK
<1>3. \A id \in Ids : SameRow(id)
  BY <1>1 DEF renew, SameRow, InvOn, TypeOK, Row
<1>4. wk' \in [Workers -> Worker]
      /\ \A v \in Workers : wk'[v].batch = wk[v].batch /\ wk'[v].todo = wk[v].todo
  BY DEF Renew, RenewLost, InvOn, TypeOK, Worker
<1>5. FewerClaims
  BY <1>1, <1>4 DEF FewerClaims
<1>6. PlanInv'
  BY <1>1, <1>4 DEF PlanInv, Plan, InTransport, InvOn
<1> QED BY <1>1, <1>2, <1>3, <1>4, <1>5, <1>6, StillStep DEF renew

-----------------------------------------------------------------------------
(***************************************************************************)
(* Steps that change rows                                                  *)
(***************************************************************************)

\* A step that keeps every worker's claims keeps the workers' half of the
\* invariant, provided rows only lose their tokens.
LEMMA ClaimsStay ==
  ASSUME NEW R, InvOn(R), RowsOK', seq <= seq', token' = token,
         \A w \in Workers : wk'[w].batch \subseteq wk[w].batch,
         wk' \in [Workers -> Worker], delivered' = delivered,
         \A id \in Ids : \/ rows'[id].lease_token = 0
                         \/ SameRow(id)
  PROVE  WorkersOK' /\ ClaimInv'
<1>1. WorkersOK'
  BY DEF WorkersOK, RowsOK, InvOn, TypeOK, Worker, Message
<1>2. ClaimInv'
  <2> SUFFICES ASSUME NEW w \in Workers, NEW m \in wk'[w].batch,
                      rows'[m.id].lease_token = m.token
               PROVE  rows'[m.id].seq = m.row /\ rows'[m.id].attempts = m.attempts
    BY DEF ClaimInv
  <2>1. m \in wk[w].batch /\ m.id \in Ids /\ m.token # 0
    BY MessageFacts DEF InvOn
  <2>2. SameRow(m.id)
    BY <2>1
  <2> QED BY <2>1, <2>2 DEF SameRow, ClaimInv, InvOn
<1> QED BY <1>1, <1>2

\* Enqueue keeps the invariant: the new row comes after every row of its key, and
\* its seq tells it from the earlier rows of its id.
LEMMA EnqueueStep ==
  ASSUME NEW R, InvOn(R), Enqueue
  PROVE  InvOn(R)'
<1>1. PICK id \in Ids : enqueue(id) /\ notBefore' = [notBefore EXCEPT ![id] = 0]
                        /\ UNCHANGED <<wk, delivered>>
  BY DEF Enqueue
<1> DEFINE new == NewRow(clock, seq + 1)
<1>2. /\ rows' = [rows EXCEPT ![id] = new] /\ rows[id].status = "absent"
      /\ seq' = seq + 1 /\ clock' = clock /\ token' = token
  BY <1>1 DEF enqueue, Present
<1>3. /\ new.status = "pending" /\ new.attempts = 0 /\ new.lease_token = 0
      /\ new.created_at = clock /\ new.seq = seq + 1 /\ new.intact
      /\ new.next_attempt_at = clock
  BY DEF NewRow, NoRow
<1> HIDE DEF new
<1>4. RowsOK'
  BY <1>1, EnqueueRows DEF InvOn, TypeOK, RowsOK
<1>5. rows'[id] = new /\ \A x \in Ids \ {id} : rows'[x] = rows[x]
  BY <1>2 DEF InvOn, TypeOK
<1>6. seq \in Nat /\ clock \in Nat /\ seq' = seq + 1
  BY <1>2 DEF InvOn, TypeOK
<1>7. WorkersOK' /\ ClaimInv'
  BY <1>1, <1>2, <1>3, <1>4, <1>5, <1>6, ClaimsStay DEF InvOn, TypeOK, SameRow
<1>8. TypeOK'
  BY <1>1, <1>4, <1>7 DEF InvOn, TypeOK, RowsOK, WorkersOK
<1>9. PlanInv'
  BY <1>1 DEF PlanInv, Plan, InTransport, InvOn
<1>10. PublishedWasDelivered' /\ DataUntilSettled' /\ RetryBelowCeiling'
  BY <1>1, <1>3, <1>5 DEF PublishedWasDelivered, DataUntilSettled,
     RetryBelowCeiling, LimitOf, InvOn
<1>11. DueInv'
  BY <1>1, <1>3, <1>5, <1>6 DEF DueInv, InvOn, TypeOK
<1>12. SeqInv'
  <2>1. \A x \in Ids : rows[x].seq \in Nat /\ rows[x].seq <= seq
    BY DEF InvOn, TypeOK, Row
  <2>2. \A x \in Ids \ {id} : rows'[x].seq # seq + 1
    BY <1>5, <1>6, <2>1
  <2>3. \A d \in delivered : d[2] \in Nat
    BY DEF InvOn, TypeOK
  <2> QED BY <1>1, <1>3, <1>5, <1>6, <2>2, <2>3 DEF SeqInv, Present, InvOn
<1>13. HeadOn(R)'
  <2> SUFFICES ASSUME Ordered, NEW a \in Ids, NEW b \in Ids, <<a, b>> \in R,
                      Present(a)', Present(b)',
                      SameKey(a, b), Before(a, b)', Touched(b)'
               PROVE  rows'[a].status \in {"published", "discarded"}
    BY DEF HeadOn, SameKey
  <2>1. \A x \in Ids : rows[x].seq \in Nat /\ rows[x].seq <= seq
                       /\ rows[x].created_at \in Nat /\ rows[x].created_at <= clock
    BY DEF InvOn, TypeOK, Row
  <2>2. b # id
    <3> SUFFICES ASSUME b = id PROVE FALSE
      OBVIOUS
    <3>1. <<b, seq + 1>> \notin delivered
      BY <1>6 DEF SeqInv, InvOn
    <3>2. \A w \in Workers : \A m \in wk[w].batch : m.row # seq + 1
      BY <1>6, MessageFacts DEF InvOn
    <3> QED BY <1>1, <1>3, <1>5, <3>1, <3>2 DEF Touched
  <2>3. a # id
    BY <1>3, <1>5, <1>6, <2>1, <2>2 DEF Before
  <2>4. Present(a) /\ Present(b) /\ Before(a, b) /\ Touched(b)
    BY <1>1, <1>5, <2>2, <2>3 DEF Present, Before, Touched
  <2> QED BY <1>5, <2>3, <2>4 DEF HeadOn, InvOn
<1> QED BY <1>7, <1>8, <1>9, <1>10, <1>11, <1>12, <1>13 DEF InvOn

\* Requeue keeps the invariant: a dead row is the head of its key, and its data
\* is still there.
LEMMA RequeueStep ==
  ASSUME NEW R, InvOn(R), Requeue
  PROVE  InvOn(R)'
<1>1. PICK id \in Ids : requeue(id) /\ notBefore' = [notBefore EXCEPT ![id] = 0]
                        /\ UNCHANGED <<wk, delivered>>
  BY DEF Requeue
<1> DEFINE new == Requeued(rows[id], clock)
<1>2. /\ rows' = [rows EXCEPT ![id] = new] /\ rows[id].status = "dead"
      /\ seq' = seq /\ clock' = clock /\ token' = token
  BY <1>1 DEF requeue
<1>3. /\ new.status = "pending" /\ new.attempts = 0 /\ new.lease_token = 0
      /\ new.created_at = rows[id].created_at /\ new.seq = rows[id].seq
      /\ new.intact = rows[id].intact /\ new.next_attempt_at = clock
  BY DEF Requeued, InvOn, TypeOK, Row
<1> HIDE DEF new
<1>4. RowsOK'
  BY <1>1, RequeueRows DEF InvOn, TypeOK, RowsOK
<1>5. rows'[id] = new /\ \A x \in Ids \ {id} : rows'[x] = rows[x]
  BY <1>2 DEF InvOn, TypeOK
<1>6. seq \in Nat /\ clock \in Nat
  BY DEF InvOn, TypeOK
<1>7. WorkersOK' /\ ClaimInv'
  BY <1>1, <1>2, <1>3, <1>4, <1>5, <1>6, ClaimsStay DEF InvOn, TypeOK, SameRow
<1>8. TypeOK'
  BY <1>1, <1>4, <1>7 DEF InvOn, TypeOK, RowsOK, WorkersOK
<1>9. PlanInv'
  BY <1>1 DEF PlanInv, Plan, InTransport, InvOn
<1>10. PublishedWasDelivered' /\ DataUntilSettled' /\ RetryBelowCeiling'
  BY <1>1, <1>2, <1>3, <1>5 DEF PublishedWasDelivered, DataUntilSettled,
     RetryBelowCeiling, LimitOf, InvOn
<1>11. DueInv'
  BY <1>1, <1>3, <1>5, <1>6 DEF DueInv, InvOn, TypeOK
<1>12. SeqInv'
  BY <1>1, <1>2, <1>3, <1>5 DEF SeqInv, Present, InvOn
<1>13. HeadOn(R)'
  <2>1. \A x \in Ids : Present(x)' = Present(x) /\ rows'[x].seq = rows[x].seq
                       /\ rows'[x].created_at = rows[x].created_at
    BY <1>2, <1>3, <1>5 DEF Present
  <2>2. ASSUME NEW b \in Ids, Touched(b)' PROVE Touched(b)
    BY <1>1, <1>2, <1>3, <1>5, <2>1, <2>2 DEF Touched
  <2>3. \A a, b \in Ids : Before(a, b)' = Before(a, b)
                          /\ SameKey(a, b)' = SameKey(a, b)
    BY <2>1 DEF Before, SameKey
  <2> QED BY <1>2, <1>5, <2>1, <2>2, <2>3 DEF HeadOn, InvOn
<1> QED BY <1>7, <1>8, <1>9, <1>10, <1>11, <1>12, <1>13 DEF InvOn

\* cleanup keeps the invariant.
LEMMA CleanupStep ==
  ASSUME NEW R, InvOn(R), NEW S \in SUBSET Ids, cleanup(S),
         UNCHANGED <<wk, delivered, notBefore>>
  PROVE  InvOn(R)'
<1>1. cleanup(S) /\ UNCHANGED <<wk, delivered, notBefore>>
  OBVIOUS
<1>2. /\ \A x \in S : rows'[x] = NoRow
      /\ \A x \in Ids \ S : rows'[x] = rows[x]
      /\ seq' = seq /\ clock' = clock /\ token' = token
  BY <1>1 DEF cleanup
<1>3. NoRow.status = "absent" /\ NoRow.lease_token = 0
  BY DEF NoRow
<1>4. RowsOK'
  BY <1>1, CleanupRows DEF InvOn, TypeOK, RowsOK
<1>5. seq \in Nat
  BY DEF InvOn, TypeOK
<1>7. WorkersOK' /\ ClaimInv'
  BY <1>1, <1>2, <1>3, <1>4, <1>5, ClaimsStay DEF InvOn, TypeOK, SameRow
<1>8. TypeOK'
  BY <1>1, <1>4, <1>7 DEF InvOn, TypeOK, RowsOK, WorkersOK
<1>9. PlanInv'
  BY <1>1 DEF PlanInv, Plan, InTransport, InvOn
<1>10. PublishedWasDelivered' /\ DataUntilSettled' /\ RetryBelowCeiling' /\ DueInv'
  BY <1>1, <1>2, <1>3 DEF PublishedWasDelivered, DataUntilSettled,
     RetryBelowCeiling, LimitOf, DueInv, InvOn
<1>11. SeqInv'
  BY <1>1, <1>2, <1>3 DEF SeqInv, Present, InvOn
<1>12. HeadOn(R)'
  BY <1>1, <1>2, <1>3 DEF HeadOn, Present, Before, SameKey, Touched, InvOn
<1> QED BY <1>7, <1>8, <1>9, <1>10, <1>11, <1>12 DEF InvOn

\* A finish statement keeps the invariant: the token in the row makes the plan of
\* its holder true of this row.
LEMMA CompleteStep ==
  ASSUME NEW R, InvOn(R), NEW w \in Workers, Complete(w)
  PROVE  InvOn(R)'
<1>1. PICK g \in wk[w].todo :
        /\ finish(g.msgs, g.status, g.delay)
        /\ Settled(w, g)
        /\ notBefore' = [id \in Ids |->
             IF g.status = "pending" /\ OwnedIn(id, g.msgs)
             THEN clock + g.after ELSE notBefore[id]]
        /\ UNCHANGED delivered
  BY DEF Complete
<1>2. /\ Plan(g, wk[w].batch) /\ g.status \in Status /\ g.delay \in Nat
      /\ g.after \in Nat
  BY DEF InvOn, PlanInv, Plan, Completion
<1>3. PICK new \in Worker : /\ wk' = [wk EXCEPT ![w] = new]
                            /\ new.batch \subseteq wk[w].batch
                            /\ new.todo \subseteq wk[w].todo
                            /\ new.todo # {} => new.batch = wk[w].batch
  BY <1>1, SettledWorker
<1>4. RowsOK'
  BY <1>1, <1>2, FinishRows DEF InvOn, TypeOK, RowsOK
<1>5. delivered' = delivered /\ seq' = seq /\ clock' = clock /\ token' = token /\ clock \in Nat /\ seq \in Nat
  BY <1>1 DEF finish, InvOn, TypeOK
<1>6. ASSUME NEW id \in Ids, ~OwnedIn(id, g.msgs)
      PROVE  rows'[id] = rows[id] /\ notBefore'[id] = notBefore[id]
  BY <1>1, <1>6 DEF finish
<1>7. ASSUME NEW id \in Ids, OwnedIn(id, g.msgs)
      PROVE  /\ rows[id].status = "processing"
             /\ rows'[id].status = g.status
             /\ rows'[id].seq = rows[id].seq
             /\ rows'[id].created_at = rows[id].created_at
             /\ rows'[id].attempts = rows[id].attempts
             /\ rows'[id].lease_token = 0
             /\ g.status = "pending" => rows'[id].next_attempt_at = clock + g.delay
             /\ g.status \notin {"published", "discarded"} => rows'[id].intact
             /\ g.status = "pending" => notBefore'[id] = clock + g.after
  <2>1. rows[id].status = "processing" /\ rows[id] \in Row
    BY <1>7 DEF OwnedIn, Owned, InvOn, TypeOK
  <2>2. rows[id].intact
    BY <2>1 DEF InvOn, DataUntilSettled
  <2>3. rows'[id] = Finished(rows[id], g.status, g.delay)
    BY <1>1, <1>7 DEF finish
  <2>4. g.status = "pending" => notBefore'[id] = clock + g.after
    BY <1>1, <1>7
  <2> DEFINE r == rows[id]
             f == Finished(r, g.status, g.delay)
  <2>5. /\ f.status = g.status /\ f.seq = r.seq /\ f.created_at = r.created_at
        /\ f.attempts = r.attempts /\ f.lease_token = 0
    BY <1>2, <1>5, <2>1, FinishedType
  <2>6. g.status = "pending" => f.next_attempt_at = clock + g.delay
    BY <2>1 DEF Finished, Row
  <2>7. g.status \notin {"published", "discarded"} => f.intact
    BY <1>2, <1>5, <2>1, <2>2, FinishedType
  <2> HIDE DEF f
  <2> QED BY <2>1, <2>3, <2>4, <2>5, <2>6, <2>7 DEF f
<1>8. ASSUME NEW id \in Ids, OwnedIn(id, g.msgs)
      PROVE  /\ g.status = "published" => <<id, rows[id].seq>> \in delivered
             /\ g.status = "pending" => rows[id].attempts < LimitOf(id)
  <2>1. PICK m \in g.msgs : m.id = id /\ Owned(m)
    BY <1>8 DEF OwnedIn
  <2>2. m \in wk[w].batch
    BY <1>2 DEF Plan
  <2>3. rows[id].seq = m.row /\ rows[id].attempts = m.attempts
    BY <2>1, <2>2 DEF Owned, ClaimInv, InvOn
  <2> QED BY <1>2, <2>1, <2>3 DEF Plan, InTransport
<1>9. /\ wk' \in [Workers -> Worker]
      /\ \A v \in Workers : wk'[v].batch \subseteq wk[v].batch
  BY <1>3 DEF InvOn, TypeOK
<1>9a. ASSUME NEW v \in Workers, NEW h \in wk'[v].todo
       PROVE  h \in wk[v].todo /\ wk'[v].batch = wk[v].batch
  BY <1>3 DEF InvOn, TypeOK
<1>10. WorkersOK' /\ ClaimInv'
  <2>1. \A id \in Ids : rows'[id].lease_token = 0 \/ SameRow(id)
    BY <1>6, <1>7 DEF SameRow
  <2> QED BY <1>4, <1>5, <1>9, <2>1, ClaimsStay
<1>11. TypeOK'
  <2>1. notBefore' \in [Ids -> Nat]
    BY <1>1, <1>2, <1>5 DEF InvOn, TypeOK
  <2> QED BY <1>4, <1>5, <1>10, <2>1 DEF InvOn, TypeOK, RowsOK, WorkersOK
<1>12. PlanInv'
  BY <1>5, <1>9a DEF PlanInv, Plan, InTransport, InvOn
<1>13. PublishedWasDelivered'
  BY <1>5, <1>6, <1>7, <1>8 DEF PublishedWasDelivered, InvOn
<1>14. DataUntilSettled'
  BY <1>6, <1>7 DEF DataUntilSettled, InvOn
<1>15. RetryBelowCeiling'
  BY <1>6, <1>7, <1>8 DEF RetryBelowCeiling, LimitOf, InvOn
<1>16. DueInv'
  BY <1>2, <1>5, <1>6, <1>7 DEF DueInv, Plan, InvOn
<1>17. \A x \in Ids : Present(x)' = Present(x) /\ rows'[x].seq = rows[x].seq
                      /\ rows'[x].created_at = rows[x].created_at
  BY <1>2, <1>6, <1>7 DEF Present, Plan
<1>18. SeqInv'
  BY <1>5, <1>17 DEF SeqInv, InvOn
<1>19. HeadOn(R)'
  <2>1. ASSUME NEW b \in Ids, Touched(b)' PROVE Touched(b)
    <3>1. CASE OwnedIn(b, g.msgs)
      BY <1>7, <3>1 DEF Touched
    <3>2. CASE ~OwnedIn(b, g.msgs)
      BY <1>5, <1>6, <1>9, <2>1, <3>2 DEF Touched
    <3> QED BY <3>1, <3>2
  <2>2. \A a, b \in Ids : Before(a, b)' = Before(a, b)
                          /\ SameKey(a, b)' = SameKey(a, b)
    BY <1>17 DEF Before, SameKey
  <2>3. \A a \in Ids : rows[a].status \in {"published", "discarded"}
                          => rows'[a].status = rows[a].status
    BY <1>6, <1>7
  <2> QED BY <1>17, <2>1, <2>2, <2>3 DEF HeadOn, InvOn
<1> QED BY <1>10, <1>11, <1>12, <1>13, <1>14, <1>15, <1>16, <1>18, <1>19 DEF InvOn

\* claim keeps the invariant: what it takes is the head of its key.
LEMMA ClaimStep ==
  ASSUME NEW R, InvOn(R), NEW w \in Workers, NEW locked, ClaimUnlocked(w, locked)
  PROVE  InvOn(R)'
<1> DEFINE msg(id) == [id |-> id, token |-> token + 1,
                       attempts |-> rows[id].attempts + 1,
                       row |-> rows[id].seq]
<1>1. PICK S \in SUBSET Ids :
        /\ Selected(S, locked)
        /\ claim(S)
        /\ wk' = [wk EXCEPT ![w] =
              [pc |-> "publishing", batch |-> {msg(id) : id \in S},
               hb |-> "on", todo |-> {}]]
  BY DEF ClaimUnlocked
<1>2. delivered' = delivered /\ notBefore' = notBefore
  BY DEF ClaimUnlocked
<1>3. /\ seq' = seq /\ clock' = clock /\ token' = token + 1
      /\ seq \in Nat /\ clock \in Nat /\ token \in Nat
  <2>1. token \in 0 .. MaxToken /\ seq \in Nat /\ clock \in Nat
    BY DEF InvOn, TypeOK
  <2>2. seq' = seq /\ clock' = clock /\ token' = token + 1
    BY <1>1 DEF claim
  <2> QED BY <2>1, <2>2
<1>4. \A id \in Ids \ S : rows'[id] = rows[id]
  BY <1>1 DEF claim
<1>5. ASSUME NEW id \in S
      PROVE  /\ rows'[id].status = "processing"
             /\ rows'[id].lease_token = token + 1
             /\ rows'[id].attempts = rows[id].attempts + 1
             /\ rows'[id].next_attempt_at = rows[id].next_attempt_at
             /\ rows'[id].created_at = rows[id].created_at
             /\ rows'[id].seq = rows[id].seq
             /\ rows'[id].intact = rows[id].intact
  <2>1. rows[id] \in Row /\ id \in Ids
    BY <1>5 DEF InvOn, TypeOK
  <2>2. PICK t : rows'[id] = [rows[id] EXCEPT !.status = "processing",
                                             !.locked_until = t,
                                             !.lease_token = token + 1,
                                             !.attempts = rows[id].attempts + 1]
    BY <1>1, <1>5, <2>1 DEF claim
  <2> QED BY <2>1, <2>2 DEF Row
<1>6. ASSUME NEW id \in S
      PROVE  Claimable(id) /\ rows[id].status \in {"pending", "processing"}
  BY <1>1, <1>6 DEF Selected, Claimable
<1>7. RowsOK'
  BY <1>1, ClaimRows DEF InvOn, TypeOK, RowsOK
<1>8. ASSUME NEW id \in S
      PROVE  /\ msg(id) \in Message
             /\ msg(id).row <= seq' /\ msg(id).token \in 1 .. token'
             /\ msg(id).attempts \in 1 .. token'
  <2>1. rows[id] \in Row /\ rows[id].seq <= seq /\ rows[id].attempts <= token
    BY <1>8 DEF InvOn, TypeOK
  <2>2. rows[id].attempts \in Nat /\ rows[id].seq \in Nat
    BY <2>1 DEF Row
  <2>3. msg(id) \in Message
    BY <1>3, <2>2 DEF Message
  <2> QED BY <1>3, <2>1, <2>2, <2>3
<1> DEFINE new == [pc |-> "publishing", batch |-> {msg(id) : id \in S},
                   hb |-> "on", todo |-> {}]
<1>9. new \in Worker
  <2>1. {msg(id) : id \in S} \in SUBSET Message
    BY <1>8
  <2> HIDE DEF msg
  <2> QED BY <2>1 DEF Worker
<1>10. /\ wk' \in [Workers -> Worker] /\ wk'[w] = new
       /\ \A v \in Workers \ {w} : wk'[v] = wk[v]
  <2> HIDE DEF msg
  <2> QED BY <1>1, <1>9 DEF InvOn, TypeOK
<1>11. ASSUME NEW v \in Workers, NEW m \in wk'[v].batch
       PROVE  \/ v # w /\ m \in wk[v].batch
              \/ v = w /\ \E id \in S : m = msg(id)
  BY <1>10, <1>11
<1> HIDE DEF new
<1>12. TypeOK'
  <2>1. ASSUME NEW v \in Workers, NEW m \in wk'[v].batch
        PROVE  m.row <= seq' /\ m.token \in 1 .. token' /\ m.attempts \in 1 .. token'
    <3>1. CASE v # w /\ m \in wk[v].batch
      BY <1>3, <3>1 DEF InvOn, TypeOK
    <3>2. CASE \E id \in S : m = msg(id)
      BY <1>8, <3>2
    <3> QED BY <1>11, <2>1, <3>1, <3>2
  <2> QED BY <1>2, <1>7, <1>10, <2>1 DEF InvOn, TypeOK, RowsOK
<1>13. ClaimInv'
  <2> SUFFICES ASSUME NEW v \in Workers, NEW m \in wk'[v].batch,
                      rows'[m.id].lease_token = m.token
               PROVE  rows'[m.id].seq = m.row /\ rows'[m.id].attempts = m.attempts
    BY DEF ClaimInv
  <2>1. CASE v # w /\ m \in wk[v].batch
    <3>1. m.id \in Ids /\ m.token \in Nat /\ m.token <= token
      BY <2>1, MessageFacts DEF InvOn
    <3>2. m.id \notin S
      BY <1>3, <1>5, <3>1
    <3> QED BY <1>4, <2>1, <3>1, <3>2 DEF ClaimInv, InvOn
  <2>2. CASE \E id \in S : m = msg(id)
    BY <1>5, <2>2
  <2> QED BY <1>11, <2>1, <2>2
<1>14. PlanInv'
  <2>1. new.todo = {}
    BY DEF new
  <2> QED BY <1>2, <1>10, <2>1 DEF PlanInv, Plan, InTransport, InvOn
<1>15. PublishedWasDelivered'
  BY <1>2, <1>4, <1>5 DEF PublishedWasDelivered, InvOn
<1>16. DataUntilSettled'
  BY <1>4, <1>5, <1>6 DEF DataUntilSettled, InvOn
<1>17. RetryBelowCeiling' /\ DueInv'
  BY <1>2, <1>4, <1>5, <1>6 DEF RetryBelowCeiling, LimitOf, DueInv, InvOn
<1>18. \A x \in Ids : Present(x)' = Present(x) /\ rows'[x].seq = rows[x].seq
                      /\ rows'[x].created_at = rows[x].created_at
  BY <1>4, <1>5, <1>6 DEF Present
<1>19. SeqInv'
  BY <1>2, <1>3, <1>18 DEF SeqInv, InvOn
<1>20. HeadOn(R)'
  <2> SUFFICES ASSUME Ordered, NEW a \in Ids, NEW b \in Ids, <<a, b>> \in R,
                      Present(a), Present(b), SameKey(a, b), Before(a, b),
                      Touched(b)'
               PROVE  rows'[a].status \in {"published", "discarded"}
    BY <1>18 DEF HeadOn, SameKey, Before
  <2>1. rows[a].status \in {"published", "discarded"}
    <3>1. CASE b \in S
      BY <1>6, <3>1 DEF Claimable, Blocked, Present
    <3>2. CASE b \notin S
      <4>1. Touched(b)
        BY <1>2, <1>4, <1>11, <3>2 DEF Touched
      <4> QED BY <4>1 DEF HeadOn, InvOn
    <3> QED BY <3>1, <3>2
  <2> QED BY <1>4, <1>6, <2>1
<1> QED BY <1>12, <1>13, <1>14, <1>15, <1>16, <1>17, <1>19, <1>20 DEF InvOn

-----------------------------------------------------------------------------
(***************************************************************************)
(* The theorems                                                            *)
(***************************************************************************)

\* The invariant holds initially.
LEMMA InitInv == Init => IInv
<1> SUFFICES ASSUME Init PROVE IInv
  OBVIOUS
<1>1. TypeOK
  BY InitType
<1>2. \A id \in Ids : rows[id].status = "absent"
  BY DEF Init, StoreInit, NoRow
<1>3. \A w \in Workers : wk[w].batch = {} /\ wk[w].todo = {}
  BY DEF Init, Idle
<1>4. ClaimInv /\ PlanInv
  BY <1>3 DEF ClaimInv, PlanInv
<1>5. /\ PublishedWasDelivered /\ DataUntilSettled
      /\ RetryBelowCeiling /\ DueInv /\ HeadInv
  BY <1>2 DEF PublishedWasDelivered, DataUntilSettled, RetryBelowCeiling,
     DueInv, HeadInv, Present
<1>6. SeqInv
  BY <1>2 DEF Init, SeqInv, Present
<1> QED BY <1>1, <1>4, <1>5, <1>6 DEF IInv

\* Whatever a worker does with its batch keeps the invariant.
LEMMA BatchKeeps ==
  ASSUME NEW R, InvOn(R), NEW w \in Workers, BatchStep(w)
  PROVE  InvOn(R)'
<1>1. CASE Renew(w) \/ RenewLost(w)
  BY <1>1, BeatStep
<1>2. CASE RenewError(w) \/ ContextDone(w)
  BY <1>2, BeatEnds
<1>3. CASE Abandon(w) \/ Stop(w)
  BY <1>3, GivesUp
<1> QED BY <1>1, <1>2, <1>3, DeliverStep, PublishReturnsStep,
           PublishReturnsEachStep, CompleteStep, CompleteErrorStep DEF BatchStep

\* A step that changes nothing keeps the invariant.
LEMMA IdleStep ==
  ASSUME NEW R, InvOn(R), UNCHANGED vars
  PROVE  InvOn(R)'
<1>1. RowsOK' /\ \A id \in Ids : SameRow(id)
  BY DEF vars, InvOn, TypeOK, RowsOK, SameRow
<1>2. FewerClaims
  BY DEF vars, FewerClaims
<1>3. PlanInv'
  BY DEF vars, PlanInv, Plan, InTransport, InvOn
<1> QED BY <1>1, <1>2, <1>3, StillStep DEF vars, InvOn, TypeOK

\* Every step of every actor keeps the invariant, for all pairs and for some.
LEMMA NextOn ==
  ASSUME NEW R, InvOn(R), [Next]_vars
  PROVE  InvOn(R)'
<1>1. ASSUME NEW w \in Workers, Claim(w) PROVE InvOn(R)'
  BY <1>1, ClaimStep DEF Claim
<1>2. ASSUME Cleanup PROVE InvOn(R)'
  BY <1>2, CleanupStep DEF Cleanup
<1> QED BY <1>1, <1>2, BatchKeeps, IdleStep, EnqueueStep, RequeueStep, TimeStep
           DEF Next

\* In particular the invariant of Relay.
LEMMA NextInv == IInv /\ [Next]_vars => IInv'
<1> SUFFICES ASSUME IInv, [Next]_vars PROVE IInv'
  OBVIOUS
<1>1. PICK R : R = Ids \X Ids
  OBVIOUS
<1>2. InvOn(R)'
  BY <1>1, AllPairs, NextOn
<1>3. IInv' <=> InvOn(Ids \X Ids)'
  BY AllPairs, PTL
<1> QED BY <1>1, <1>2, <1>3

\* Every reachable state satisfies the inductive invariant.
THEOREM Invariance == Spec => []IInv
  BY InitInv, NextInv, PTL DEF Spec

\* Type correctness: no row and no claim ever holds a token, a seq or an
\* attempt count the database has not issued.
THEOREM TypeCorrect == Spec => []TypeOK
<1>1. IInv => TypeOK
  BY DEF IInv
<1> QED BY <1>1, Invariance, PTL

\* At-least-once delivery: a row is recorded as published only after the
\* transport received that very row, however leases expire, workers stop and
\* ids are cleaned up and reused.
THEOREM AtLeastOnce == Spec => []PublishedWasDelivered
<1>1. IInv => PublishedWasDelivered
  BY DEF IInv
<1> QED BY <1>1, Invariance, PTL

\* The data of a row survives until the row is published or discarded, so
\* neither a retry, a takeover nor a replay publishes an emptied payload.
THEOREM DataKept == Spec => []DataUntilSettled
<1>1. IInv => DataUntilSettled
  BY DEF IInv
<1> QED BY <1>1, Invariance, PTL

\* No row is rescheduled at or above its attempt ceiling.
THEOREM CeilingHolds == Spec => []RetryBelowCeiling
<1>1. IInv => RetryBelowCeiling
  BY DEF IInv
<1> QED BY <1>1, Invariance, PTL

\* Ordered mode delivers every key in order, stale publishers included.
THEOREM InOrder == Spec => []OrderedDelivery
<1>1. IInv => OrderedDelivery
  BY DEF IInv, OrderedDelivery, HeadInv, Touched, PublishedWasDelivered
<1> QED BY <1>1, Invariance, PTL

\* Ordered mode never has two attempts of one key open.
THEOREM OnePerKey == Spec => []OneAttemptPerKey
<1>1. IInv => OneAttemptPerKey
  <2> SUFFICES ASSUME IInv, Ordered, NEW a \in Ids, NEW b \in Ids, a # b,
                      SameKey(a, b), rows[a].status = "processing",
                      rows[b].status = "processing"
               PROVE  FALSE
    BY DEF OneAttemptPerKey
  <2>1. Present(a) /\ Present(b) /\ Touched(a) /\ Touched(b) /\ SameKey(b, a)
    BY DEF Present, Touched, SameKey
  <2>2. Before(a, b) \/ Before(b, a)
    <3>1. rows[a].seq # rows[b].seq
      BY <2>1 DEF IInv, SeqInv
    <3>2. rows[a] \in Row /\ rows[b] \in Row
      BY DEF IInv, TypeOK
    <3> QED BY <3>1, <3>2 DEF Before, Row
  <2> QED BY <2>1, <2>2 DEF IInv, HeadInv
<1> QED BY <1>1, Invariance, PTL

-----------------------------------------------------------------------------
(***************************************************************************)
(* Action properties                                                       *)
(***************************************************************************)

\* The worker that ends an attempt is the one that holds it.
EndedByHolder(id) ==
  \E w \in Workers : Holds(w, id) /\ wk[w].pc = "settling" /\ wk'[w] # wk[w]

Live(id) == rows[id].status = "processing" /\ rows[id].locked_until > clock

\* All the ways in which a row can change.
RowChange(id) ==
  \/ rows[id].status = "absent" /\ rows'[id].status = "pending"
  \/ /\ Claimable(id)
     /\ rows'[id].status = "processing"
     /\ token' # token /\ rows'[id].lease_token = token'
  \/ Live(id) /\ SameRow(id)
  \/ /\ Live(id) /\ EndedByHolder(id)
     /\ rows'[id].status \in {"published", "dead", "discarded", "pending"}
  \/ rows[id].status = "dead" /\ rows'[id].status = "pending"
  \/ Removable(id) /\ rows'[id].status = "absent"

\* A claim changes claimable rows only, whichever rows are locked.
LEMMA ClaimChanges ==
  ASSUME TypeOK, NEW w \in Workers, NEW locked, ClaimUnlocked(w, locked),
         NEW id \in Ids, rows'[id] # rows[id]
  PROVE  RowChange(id)
<1>1. rows \in [Ids -> Row]
  BY DEF TypeOK
<1>2. PICK S \in SUBSET Ids : Selected(S, locked) /\ claim(S)
  BY DEF ClaimUnlocked
<1>3. PICK until : /\ token' = token + 1
                   /\ rows' = [i \in Ids |->
                        IF i \in S
                        THEN [rows[i] EXCEPT !.status = "processing",
                                             !.locked_until = until[i],
                                             !.lease_token = token + 1,
                                             !.attempts = rows[i].attempts + 1]
                        ELSE rows[i]]
  BY <1>2 DEF claim
<1>4. id \in S
  BY <1>3
<1>5. Claimable(id)
  BY <1>2, <1>4 DEF Selected
<1>6. rows'[id].status = "processing" /\ rows'[id].lease_token = token'
  BY <1>1, <1>3, <1>4 DEF Row
<1>7. token' # token
  <2>1. token \in Int
    BY StoreAssumption DEF TypeOK
  <2>2. token' = token + 1
    BY <1>2 DEF claim
  <2> QED BY <2>1, <2>2
<1> QED BY <1>5, <1>6, <1>7 DEF RowChange

\* A worker renews and settles rows it holds the live lease of.
LEMMA BatchChanges ==
  ASSUME TypeOK, PlanInv, NEW w \in Workers, BatchStep(w),
         NEW id \in Ids, rows'[id] # rows[id]
  PROVE  RowChange(id)
<1>1. rows \in [Ids -> Row] /\ wk \in [Workers -> Worker]
  BY DEF TypeOK
<1>2. CASE Renew(w) \/ RenewLost(w)
  <2>1. renew(wk[w].batch)
    BY <1>2 DEF Renew, RenewLost
  <2>2. OwnedIn(id, wk[w].batch)
    BY <2>1 DEF renew
  <2>3. Live(id) /\ SameRow(id)
    BY <1>1, <2>1, <2>2 DEF renew, OwnedIn, Owned, Live, SameRow, Row
  <2> QED BY <2>3 DEF RowChange
<1>3. CASE Complete(w)
  <2>1. PICK g \in wk[w].todo : NextGroup(w, g) /\ finish(g.msgs, g.status, g.delay)
                                /\ Settled(w, g)
    BY <1>3 DEF Complete
  <2>2. Plan(g, wk[w].batch)
    BY DEF PlanInv
  <2>3. PICK m \in g.msgs : m.id = id /\ Owned(m)
    BY <2>1 DEF finish, OwnedIn
  <2>4. Live(id) /\ Holds(w, id)
    BY <2>2, <2>3 DEF Owned, Live, Holds, Plan
  <2>5. wk[w].pc = "settling" /\ wk'[w] # wk[w]
    <3>1. wk[w].pc = "settling"
      BY <2>1 DEF NextGroup
    <3>2. wk'[w] = IF wk[w].todo = {g} THEN Idle ELSE [wk[w] EXCEPT !.todo = @ \ {g}]
      BY <1>1, <2>1 DEF Settled
    <3>3. Idle.pc # "settling"
      BY DEF Idle
    <3>4. [wk[w] EXCEPT !.todo = @ \ {g}].todo # wk[w].todo
      BY <1>1, <2>1 DEF Worker
    <3> QED BY <3>1, <3>2, <3>3, <3>4
  <2>6. rows'[id] = Finished(rows[id], g.status, g.delay)
    BY <2>1, <2>3 DEF finish, OwnedIn
  <2>7. rows'[id].status = g.status
    BY <1>1, <2>6 DEF Finished, Row
  <2> QED BY <2>2, <2>4, <2>5, <2>7 DEF EndedByHolder, Plan, RowChange
<1>4. CASE \/ RenewError(w) \/ ContextDone(w) \/ Deliver(w) \/ PublishReturns(w)
           \/ PublishReturnsEach(w) \/ Abandon(w) \/ CompleteError(w) \/ Stop(w)
  BY <1>4 DEF RenewError, ContextDone, Deliver, PublishReturns, PublishReturnsEach,
     Abandon, CompleteError, Stop, StartSettling
<1> QED BY <1>2, <1>3, <1>4 DEF BatchStep

\* The cleaner changes removable rows only, whichever rows are locked.
LEMMA CleanupChanges ==
  ASSUME NEW S \in SUBSET Ids, NEW locked, CleanupSet(S, locked), cleanup(S),
         NEW id \in Ids, rows'[id] # rows[id]
  PROVE  RowChange(id)
<1>1. id \in S /\ rows'[id] = NoRow
  BY DEF cleanup
<1> QED BY <1>1 DEF CleanupSet, NoRow, RowChange

\* No step of the relay, the store or a caller changes a row in another way.
LEMMA RowChanges ==
  ASSUME IInv, [Next]_vars, NEW id \in Ids, rows'[id] # rows[id]
  PROVE  RowChange(id)
<1>1. TypeOK /\ PlanInv /\ rows \in [Ids -> Row]
  BY DEF IInv, TypeOK
<1>2. ASSUME NEW w \in Workers, Claim(w) PROVE RowChange(id)
  BY <1>1, <1>2, ClaimChanges DEF Claim
<1>3. ASSUME NEW w \in Workers, BatchStep(w) PROVE RowChange(id)
  BY <1>1, <1>3, BatchChanges
<1>4. CASE Enqueue
  <2>1. rows[id].status = "absent"
    BY <1>1, <1>4 DEF Enqueue, enqueue, Present
  <2>2. rows'[id] = NewRow(clock, seq + 1)
    BY <1>1, <1>4 DEF Enqueue, enqueue
  <2> QED BY <2>1, <2>2 DEF NewRow, NoRow, RowChange
<1>5. CASE Requeue
  <2>1. rows[id].status = "dead" /\ rows'[id] = Requeued(rows[id], clock)
    BY <1>1, <1>5 DEF Requeue, requeue
  <2>2. rows'[id].status = "pending"
    BY <1>1, <2>1 DEF Requeued, Row
  <2> QED BY <2>1, <2>2 DEF RowChange
<1>6. CASE Cleanup
  BY <1>6, CleanupChanges DEF Cleanup
<1>7. CASE Time \/ UNCHANGED vars
  BY <1>7 DEF Time, Tick, vars
<1> QED BY <1>2, <1>3, <1>4, <1>5, <1>6, <1>7 DEF Next

\* What the ways to change leave of a live lease, an expired one, a new attempt
\* and a row that goes.
LEMMA ChangesAllowed ==
  ASSUME TypeOK, DueInv, PublishedWasDelivered, NEW id \in Ids,
         rows'[id] # rows[id] => RowChange(id)
  PROVE  /\ /\ rows[id].status = "processing" /\ rows[id].locked_until > clock
            /\ \/ rows'[id].status # "processing"
               \/ rows'[id].lease_token # rows[id].lease_token
            => EndedByHolder(id)
         /\ /\ rows[id].status = "processing" /\ rows[id].locked_until <= clock
            /\ rows'[id] # rows[id]
            => token' # token /\ rows'[id].lease_token = token'
         /\ /\ rows'[id].status = "processing"
            /\ rows'[id].lease_token # rows[id].lease_token
            => /\ clock >= notBefore[id]
               /\ rows[id].status = "processing" => rows[id].locked_until < clock
         /\ Present(id) /\ rows'[id].status = "absent"
              => \/ /\ rows[id].status = "published" /\ Retention > 0
                    /\ <<id, rows[id].seq>> \in delivered
                 \/ rows[id].status = "discarded" /\ DiscardRetention > 0
                 \/ rows[id].status = "dead" /\ DeadRetention > 0
<1>1. rows[id] \in Row /\ clock \in Nat /\ notBefore[id] \in Nat
  BY DEF TypeOK
<1>2. ASSUME Live(id), \/ rows'[id].status # "processing"
                       \/ rows'[id].lease_token # rows[id].lease_token
      PROVE  EndedByHolder(id)
  <2>1. ~Claimable(id) /\ ~Removable(id)
    BY <1>1, <1>2 DEF Live, Claimable, Expired, Removable, Row
  <2> QED BY <1>2, <2>1 DEF RowChange, Live, SameRow
<1>3. ASSUME rows[id].status = "processing", rows[id].locked_until <= clock,
             rows'[id] # rows[id]
      PROVE  token' # token /\ rows'[id].lease_token = token'
  <2>1. ~Live(id) /\ ~Removable(id)
    BY <1>1, <1>3 DEF Live, Removable, Row
  <2> QED BY <1>3, <2>1 DEF RowChange
<1>4. ASSUME rows'[id].status = "processing",
             rows'[id].lease_token # rows[id].lease_token
      PROVE  /\ clock >= notBefore[id]
             /\ rows[id].status = "processing" => rows[id].locked_until < clock
  <2>1. Claimable(id)
    BY <1>4 DEF RowChange, SameRow
  <2>2. notBefore[id] <= rows[id].next_attempt_at /\ rows[id].next_attempt_at <= clock
    BY <2>1 DEF Claimable, DueInv
  <2>3. rows[id].status = "processing" => rows[id].locked_until < clock
    BY <2>1 DEF Claimable, Expired
  <2> QED BY <1>1, <2>2, <2>3 DEF Row
<1>5. ASSUME Present(id), rows'[id].status = "absent"
      PROVE  \/ /\ rows[id].status = "published" /\ Retention > 0
                /\ <<id, rows[id].seq>> \in delivered
             \/ rows[id].status = "discarded" /\ DiscardRetention > 0
             \/ rows[id].status = "dead" /\ DeadRetention > 0
  <2>1. Removable(id)
    BY <1>5 DEF RowChange, Present, Live, SameRow
  <2> QED BY <2>1 DEF Removable, OlderThan, PublishedWasDelivered
<1> QED BY <1>2, <1>3, <1>4, <1>5 DEF Live

\* While a lease is unexpired only the worker that holds that attempt can end
\* it, by settling: no rival claim, stale completion, requeue or cleanup does.
THEOREM Fenced == Spec => LiveAttemptIsFenced
<1>1. IInv /\ [Next]_vars =>
        [\A id \in Ids :
           /\ rows[id].status = "processing" /\ rows[id].locked_until > clock
           /\ \/ rows'[id].status # "processing"
              \/ rows'[id].lease_token # rows[id].lease_token
           => \E w \in Workers : /\ Holds(w, id)
                                 /\ wk[w].pc = "settling"
                                 /\ wk'[w] # wk[w]]_vars
  BY RowChanges, ChangesAllowed DEF IInv, EndedByHolder
<1> QED BY <1>1, Invariance, PTL DEF Spec, LiveAttemptIsFenced

\* An expired lease is never renewed or completed, the latest one included:
\* only a new claim, with a token of its own, moves the row.
THEOREM NoRevival == Spec => ExpiredIsFinal
<1>1. IInv /\ [Next]_vars =>
        [\A id \in Ids :
           /\ rows[id].status = "processing" /\ rows[id].locked_until <= clock
           /\ rows'[id] # rows[id]
           => token' # token /\ rows'[id].lease_token = token']_vars
  BY RowChanges, ChangesAllowed DEF IInv
<1> QED BY <1>1, Invariance, PTL DEF Spec, ExpiredIsFinal

\* No attempt starts before the time asked for when the last recorded attempt of
\* its row failed, nor while another attempt's lease runs, whoever starts it.
THEOREM NotEarly == Spec => RetryNotEarly
<1>1. IInv /\ [Next]_vars =>
        [\A id \in Ids :
           /\ rows'[id].status = "processing"
           /\ rows'[id].lease_token # rows[id].lease_token
           => /\ clock >= notBefore[id]
              /\ rows[id].status = "processing" => rows[id].locked_until < clock]_vars
  BY RowChanges, ChangesAllowed DEF IInv
<1> QED BY <1>1, Invariance, PTL DEF Spec, RetryNotEarly

\* The cleaner deletes only rows that are published and were delivered, or are
\* discarded or dead, each with the retention of that status switched on.
THEOREM CleanupSafe == Spec => NothingDropped
<1>1. IInv /\ [Next]_vars =>
        [\A id \in Ids :
           Present(id) /\ rows'[id].status = "absent"
             => \/ /\ rows[id].status = "published" /\ Retention > 0
                   /\ <<id, rows[id].seq>> \in delivered
                \/ rows[id].status = "discarded" /\ DiscardRetention > 0
                \/ rows[id].status = "dead" /\ DeadRetention > 0]_vars
  BY RowChanges, ChangesAllowed DEF IInv
<1> QED BY <1>1, Invariance, PTL DEF Spec, NothingDropped

=============================================================================
