---------------------------- MODULE QueueProofs ----------------------------
(***************************************************************************)
(* Proof that Relay, for any messages, workers and settings, implements    *)
(* the queue of OutboxQueue: every step of a worker, a caller or the       *)
(* cleaner is a step of the queue or leaves it as it is.                   *)
(***************************************************************************)
EXTENDS RelayProofs

Waiting == {"pending", "processing"}

\* The row keeps its place in the queue and what the queue knows of it.
SamePlace(id) ==
  /\ rows'[id].created_at = rows[id].created_at
  /\ rows'[id].seq = rows[id].seq
  /\ \/ rows'[id].status = rows[id].status
     \/ rows[id].status \in Waiting /\ rows'[id].status \in Waiting

\* What the queue is made of, id by id.
LEMMA QueueFacts ==
  /\ DOMAIN QueueState = Ids
  /\ DOMAIN QueueAhead = Ids
  /\ \A id \in Ids :
       /\ QueueState[id] = IF rows[id].status \in Waiting
                           THEN "queued" ELSE rows[id].status
       /\ QueueAhead[id] = {a \in Ids : /\ Ordered /\ SameKey(a, id)
                                        /\ Present(a) /\ Present(id) /\ Before(a, id)}
  BY DEF QueueState, QueueAhead, Waiting

\* Steps that move no row and hand nothing over are invisible to the queue.
LEMMA Invisible ==
  ASSUME \A id \in Ids : SamePlace(id), delivered' = delivered
  PROVE  UNCHANGED Queue!vars
<1>1. QueueState' = QueueState
  BY DEF QueueState, SamePlace, Waiting
<1>2. \A a \in Ids : Present(a)' <=> Present(a)
  BY DEF SamePlace, Present, Waiting
<1>3. \A a, b \in Ids : Before(a, b)' <=> Before(a, b)
  BY DEF SamePlace, Before
<1>4. QueueAhead' = QueueAhead
  BY <1>2, <1>3 DEF QueueAhead, SameKey
<1>5. QueueReceived' = QueueReceived
  BY <1>2 DEF QueueReceived, SamePlace
<1> QED BY <1>1, <1>4, <1>5 DEF Queue!vars

\* The empty table is the empty queue.
LEMMA QueueInit == Init => Queue!Init
<1> SUFFICES ASSUME Init PROVE Queue!Init
  OBVIOUS
<1>1. \A id \in Ids : rows[id].status = "absent"
  BY DEF Init, StoreInit, NoRow
<1>2. QueueState = [id \in Ids |-> "absent"]
  BY <1>1 DEF QueueState
<1>3. QueueAhead = [id \in Ids |-> {}]
  BY <1>1 DEF QueueAhead, Present
<1>4. QueueReceived = {}
  BY <1>1 DEF QueueReceived, Present
<1> QED BY <1>2, <1>3, <1>4 DEF Queue!Init

-----------------------------------------------------------------------------
\* Handing a message over is a receipt of the queue, if the row is still the
\* one that was claimed, and nothing to it otherwise.  That no message is
\* received ahead of its key is HeadInv: the claim has touched the row.
LEMMA DeliverReceives ==
  ASSUME IInv, NEW w \in Workers, Deliver(w)
  PROVE  [Queue!Next]_(Queue!vars)
<1>1. PICK m \in wk[w].batch : delivered' = delivered \cup {<<m.id, m.row>>}
  BY DEF Deliver
<1>2. rows' = rows
  BY DEF Deliver
<1>3. m.id \in Ids
  BY MessageFacts DEF IInv
<1>4. QueueState' = QueueState /\ QueueAhead' = QueueAhead
  BY <1>2 DEF QueueState, QueueAhead, Present, Before
<1>5. CASE Present(m.id) /\ rows[m.id].seq = m.row
  <2>1. QueueReceived' = QueueReceived \cup {m.id}
    BY <1>1, <1>2, <1>3, <1>5 DEF QueueReceived, Present
  <2>2. QueueState[m.id] # "absent"
    BY <1>3, <1>5, QueueFacts DEF Present, Waiting
  <2>3. ASSUME NEW a \in QueueAhead[m.id]
        PROVE  QueueState[a] \in {"published", "discarded"}
    <3>1. /\ a \in Ids /\ Ordered /\ SameKey(a, m.id)
          /\ Present(a) /\ Before(a, m.id)
      BY <1>3, <2>3, QueueFacts
    <3>2. Touched(m.id)
      BY <1>5 DEF Touched
    <3>3. rows[a].status \in {"published", "discarded"}
      BY <1>3, <1>5, <3>1, <3>2 DEF IInv, HeadInv
    <3> QED BY <3>1, <3>3, QueueFacts DEF Waiting
  <2>4. Queue!Receive(m.id)
    BY <1>4, <2>1, <2>2, <2>3 DEF Queue!Receive
  <2> QED BY <1>3, <2>4 DEF Queue!Next
<1>6. CASE ~(Present(m.id) /\ rows[m.id].seq = m.row)
  <2>1. QueueReceived' = QueueReceived
    BY <1>1, <1>2, <1>6 DEF QueueReceived, Present
  <2> QED BY <1>4, <2>1 DEF Queue!vars
<1> QED BY <1>5, <1>6

\* A finish statement settles the rows it still owns, together; a retry leaves
\* them queued.  Published are only received ones: the plan was made of messages
\* handed over (PlanInv), and the token found in a row is that of the claim of
\* this very row (ClaimInv).
LEMMA CompleteSettles ==
  ASSUME IInv, NEW w \in Workers, Complete(w)
  PROVE  [Queue!Next]_(Queue!vars)
<1>1. PICK g \in wk[w].todo : finish(g.msgs, g.status, g.delay)
  BY DEF Complete
<1>2. delivered' = delivered
  BY DEF Complete
<1>3. Plan(g, wk[w].batch)
  BY DEF IInv, PlanInv
<1>4. rows \in [Ids -> Row]
  BY DEF IInv, TypeOK
<1> DEFINE S == {id \in Ids : OwnedIn(id, g.msgs)}
<1>5. \A id \in Ids : /\ rows'[id].created_at = rows[id].created_at
                      /\ rows'[id].seq = rows[id].seq
                      /\ rows'[id].status = IF id \in S THEN g.status ELSE rows[id].status
  BY <1>1, <1>4 DEF finish, Finished, Row
<1>6. \A id \in S : rows[id].status = "processing"
  BY DEF OwnedIn, Owned
<1>7. CASE g.status = "pending"
  <2>1. \A id \in Ids : SamePlace(id)
    BY <1>5, <1>6, <1>7 DEF SamePlace, Waiting
  <2> QED BY <1>2, <2>1, Invisible
<1>8. CASE g.status \in {"published", "dead", "discarded"}
  <2>1. QueueState' = [id \in Ids |-> IF id \in S THEN g.status ELSE QueueState[id]]
    BY <1>5, <1>8 DEF QueueState
  <2>2. \A id \in Ids : Present(id)' <=> Present(id)
    BY <1>5, <1>6, <1>8 DEF Present
  <2>3. \A a, b \in Ids : Before(a, b)' <=> Before(a, b)
    BY <1>5 DEF Before
  <2>4. QueueAhead' = QueueAhead
    BY <2>2, <2>3 DEF QueueAhead, SameKey
  <2>5. QueueReceived' = QueueReceived
    BY <1>2, <1>5, <2>2 DEF QueueReceived
  <2>6. \A id \in S : QueueState[id] = "queued"
    BY <1>6, QueueFacts DEF Waiting
  <2>7. ASSUME g.status = "published", NEW id \in S PROVE id \in QueueReceived
    <3>1. PICK m \in g.msgs : m.id = id /\ Owned(m)
      BY DEF OwnedIn
    <3>2. m \in wk[w].batch /\ InTransport(m)
      BY <1>3, <2>7 DEF Plan
    <3>3. rows[id].seq = m.row
      BY <3>1, <3>2 DEF IInv, ClaimInv, Owned
    <3> QED BY <1>6, <3>1, <3>2, <3>3 DEF InTransport, QueueReceived, Present
  <2>8. Queue!Settle(S, g.status)
    BY <2>1, <2>4, <2>5, <2>6, <2>7 DEF Queue!Settle
  <2> QED BY <1>8, <2>8 DEF Queue!Next, Queue!Settled
<1> QED BY <1>3, <1>7, <1>8 DEF Plan

\* Claims and renewals change no more of a row than its status from pending to
\* processing.
LEMMA LeasesInvisible ==
  ASSUME IInv, NEW w \in Workers, Claim(w) \/ Renew(w) \/ RenewLost(w)
  PROVE  UNCHANGED Queue!vars
<1>1. rows \in [Ids -> Row]
  BY DEF IInv, TypeOK
<1>2. delivered' = delivered
  BY DEF Claim, ClaimUnlocked, Renew, RenewLost
<1>3. CASE Claim(w)
  <2>1. PICK S \in SUBSET Ids : Selected(S, {}) /\ claim(S)
    BY <1>3 DEF Claim, ClaimUnlocked
  <2>2. \A id \in S : rows[id].status \in Waiting
    BY <2>1 DEF Selected, Claimable, Waiting
  <2>3. PICK until \in [S -> Deadline] :
          rows' = [id \in Ids |->
            IF id \in S
            THEN [rows[id] EXCEPT !.status = "processing",
                                  !.locked_until = until[id],
                                  !.lease_token = token + 1,
                                  !.attempts = rows[id].attempts + 1]
            ELSE rows[id]]
    BY <2>1 DEF claim
  <2>4. ASSUME NEW id \in S PROVE SamePlace(id)
    BY <1>1, <2>2, <2>3 DEF SamePlace, Waiting, Row
  <2>5. ASSUME NEW id \in Ids \ S PROVE SamePlace(id)
    BY <2>3 DEF SamePlace
  <2> QED BY <1>2, <2>4, <2>5, Invisible
<1>4. CASE Renew(w) \/ RenewLost(w)
  <2>1. renew(wk[w].batch)
    BY <1>4 DEF Renew, RenewLost
  <2>2. \A id \in Ids : SamePlace(id)
    BY <1>1, <2>1 DEF renew, SamePlace, Row
  <2> QED BY <1>2, <2>2, Invisible
<1> QED BY <1>3, <1>4

\* An insert accepts one message behind all present: its (created_at, seq) is
\* greater than any.
LEMMA EnqueueAccepts ==
  ASSUME IInv, Enqueue
  PROVE  [Queue!Next]_(Queue!vars)
<1>1. PICK id \in Ids : enqueue(id)
  BY DEF Enqueue
<1>2. delivered' = delivered
  BY DEF Enqueue
<1>3. rows \in [Ids -> Row] /\ clock \in Nat /\ seq \in Nat
  BY DEF IInv, TypeOK
<1>4. /\ rows'[id].status = "pending" /\ rows'[id].created_at = clock
      /\ rows'[id].seq = seq + 1
      /\ \A a \in Ids \ {id} : rows'[a] = rows[a]
  BY <1>1, <1>3 DEF enqueue, NewRow, NoRow
<1>5. rows[id].status = "absent"
  BY <1>1 DEF enqueue, Present
<1>6. \A a \in Ids : Present(a)' <=> a = id \/ Present(a)
  BY <1>4 DEF Present
<1>7. QueueState' = [a \in Ids |-> IF a = id THEN "queued" ELSE QueueState[a]]
  BY <1>4 DEF QueueState
<1>8. \A a \in Ids \ {id} : Before(a, id)' /\ ~Before(id, a)'
  <2> SUFFICES ASSUME NEW a \in Ids \ {id}
               PROVE  Before(a, id)' /\ ~Before(id, a)'
    OBVIOUS
  <2>1. /\ rows[a].created_at <= clock /\ rows[a].seq <= seq
        /\ rows[a].created_at \in Nat /\ rows[a].seq \in Nat
    BY <1>3 DEF IInv, TypeOK, Row
  <2> QED BY <1>3, <1>4, <2>1 DEF Before
<1>9. ~Before(id, id)'
  BY <1>3, <1>4 DEF Before
<1>10. \A a, b \in Ids \ {id} : Before(a, b)' <=> Before(a, b)
  BY <1>4 DEF Before
<1>11. QueueAhead'
         = [b \in Ids |->
              IF b = id THEN {a \in Ids : QueueState[a] # "absent" /\ Queue!SameKey(a, id)}
                        ELSE QueueAhead[b]]
  <2>1. \A a \in Ids : QueueState[a] # "absent" <=> Present(a)
    BY QueueFacts DEF Present, Waiting
  <2>2. \A a \in Ids : Queue!SameKey(a, id) <=> Ordered /\ SameKey(a, id)
    BY DEF Queue!SameKey, QueueKey, SameKey
  <2>3. QueueAhead'[id] = {a \in Ids : QueueState[a] # "absent" /\ Queue!SameKey(a, id)}
    BY <1>5, <1>6, <1>8, <1>9, <2>1, <2>2 DEF QueueAhead, SameKey, Present
  <2>4. \A b \in Ids \ {id} : QueueAhead'[b] = QueueAhead[b]
    BY <1>5, <1>6, <1>8, <1>10 DEF QueueAhead, SameKey, Present
  <2> QED BY <2>3, <2>4 DEF QueueAhead
<1>12. QueueReceived' = QueueReceived
  <2>1. <<id, seq + 1>> \notin delivered
    BY <1>3 DEF IInv, SeqInv
  <2> QED BY <1>2, <1>4, <1>5, <1>6, <2>1 DEF QueueReceived, Present
<1>13. Queue!Accept({id}, {})
  BY <1>5, <1>7, <1>11, <1>12, QueueFacts DEF Queue!Accept, Waiting
<1> QED BY <1>13 DEF Queue!Next

\* A requeue replays one dead message in its place.
LEMMA RequeueAccepts ==
  ASSUME IInv, Requeue
  PROVE  [Queue!Next]_(Queue!vars)
<1>1. PICK id \in Ids : requeue(id)
  BY DEF Requeue
<1>2. delivered' = delivered
  BY DEF Requeue
<1>3. rows \in [Ids -> Row]
  BY DEF IInv, TypeOK
<1>4. /\ \A a \in Ids : /\ rows'[a].created_at = rows[a].created_at
                        /\ rows'[a].seq = rows[a].seq
      /\ rows[id].status = "dead" /\ rows'[id].status = "pending"
      /\ \A a \in Ids \ {id} : rows'[a].status = rows[a].status
  BY <1>1, <1>3 DEF requeue, Requeued, Row
<1>5. QueueState' = [a \in Ids |-> IF a = id THEN "queued" ELSE QueueState[a]]
  BY <1>4 DEF QueueState
<1>6. \A a \in Ids : Present(a)' <=> Present(a)
  BY <1>4 DEF Present
<1>7. \A a, b \in Ids : Before(a, b)' <=> Before(a, b)
  BY <1>4 DEF Before
<1>8. QueueAhead' = QueueAhead
  BY <1>6, <1>7 DEF QueueAhead, SameKey
<1>9. QueueReceived' = QueueReceived
  BY <1>2, <1>4, <1>6 DEF QueueReceived
<1>10. QueueState[id] = "dead"
  BY <1>4, QueueFacts DEF Waiting
<1>11. QueueAhead = [a \in Ids |-> QueueAhead[a]]
  BY DEF QueueAhead
<1>12. Queue!Accept({}, {id})
  BY <1>5, <1>8, <1>9, <1>10, <1>11 DEF Queue!Accept
<1> QED BY <1>12 DEF Queue!Next

\* The cleaner forgets settled messages whose retention is switched on.
LEMMA CleanupForgets ==
  ASSUME IInv, Cleanup
  PROVE  [Queue!Next]_(Queue!vars)
<1>1. PICK S \in SUBSET Ids : CleanupSet(S, {}) /\ cleanup(S)
  BY DEF Cleanup
<1>2. delivered' = delivered
  BY DEF Cleanup
<1>3. \A id \in Ids : IF id \in S THEN rows'[id].status = "absent"
                                  ELSE rows'[id] = rows[id]
  BY <1>1 DEF cleanup, NoRow
<1>4. \A id \in S : Removable(id)
  BY <1>1 DEF CleanupSet
<1>5. \A id \in S : QueueState[id] \in QueueForgettable
  BY <1>4, QueueFacts DEF Removable, OlderThan, QueueForgettable, Waiting
<1>6. QueueState' = [id \in Ids |-> IF id \in S THEN "absent" ELSE QueueState[id]]
  BY <1>3 DEF QueueState
<1>7. \A a \in Ids : Present(a)' <=> a \notin S /\ Present(a)
  BY <1>3 DEF Present
<1>8. \A a, b \in Ids \ S : Before(a, b)' <=> Before(a, b)
  BY <1>3 DEF Before
<1>9. QueueAhead' = [id \in Ids |-> IF id \in S THEN {} ELSE QueueAhead[id] \ S]
  <2>1. \A id \in S : QueueAhead'[id] = {}
    BY <1>7 DEF QueueAhead
  <2>2. \A id \in Ids \ S : QueueAhead'[id] = QueueAhead[id] \ S
    BY <1>7, <1>8 DEF QueueAhead, SameKey
  <2> QED BY <2>1, <2>2 DEF QueueAhead
<1>10. QueueReceived' = QueueReceived \ S
  BY <1>2, <1>3, <1>7 DEF QueueReceived
<1>11. Queue!Forget(S)
  BY <1>5, <1>6, <1>9, <1>10 DEF Queue!Forget
<1> QED BY <1>11 DEF Queue!Next

-----------------------------------------------------------------------------
\* Every step is one of the queue or invisible to it.
LEMMA QueueStep == IInv /\ [Next]_vars => [Queue!Next]_(Queue!vars)
<1> SUFFICES ASSUME IInv, [Next]_vars PROVE [Queue!Next]_(Queue!vars)
  OBVIOUS
<1>1. ASSUME NEW w \in Workers, Claim(w) \/ Renew(w) \/ RenewLost(w)
      PROVE  UNCHANGED Queue!vars
  BY <1>1, LeasesInvisible
<1>2. ASSUME NEW w \in Workers,
             \/ RenewError(w) \/ ContextDone(w) \/ PublishReturns(w)
             \/ PublishReturnsEach(w) \/ Abandon(w) \/ CompleteError(w) \/ Stop(w)
      PROVE  UNCHANGED Queue!vars
  <2>1. rows' = rows /\ delivered' = delivered
    BY <1>2 DEF RenewError, ContextDone, PublishReturns, PublishReturnsEach,
       Abandon, CompleteError, Stop, StartSettling
  <2> QED BY <2>1, Invisible DEF SamePlace
<1>3. CASE Time \/ UNCHANGED vars
  <2>1. rows' = rows /\ delivered' = delivered
    BY <1>3 DEF Time, Tick, vars
  <2> QED BY <2>1, Invisible DEF SamePlace
<1>4. ASSUME NEW w \in Workers, Deliver(w) PROVE [Queue!Next]_(Queue!vars)
  BY <1>4, DeliverReceives
<1>5. ASSUME NEW w \in Workers, Complete(w) PROVE [Queue!Next]_(Queue!vars)
  BY <1>5, CompleteSettles
<1> QED BY <1>1, <1>2, <1>3, <1>4, <1>5, EnqueueAccepts, RequeueAccepts,
           CleanupForgets DEF Next, BatchStep

\* The table with its leases, attempts and racing workers implements the queue
\* its users are promised: messages are accepted once, received in the order of
\* their key, published only when received, settled once unless replayed, and
\* deleted only where a retention says so.
THEOREM Refinement == Spec => ImplementsQueue
  BY QueueInit, QueueStep, Invariance, PTL DEF Spec, ImplementsQueue, Queue!Spec

=============================================================================
