------------------------------ MODULE TxProofs ------------------------------
(***************************************************************************)
(* Proofs that the transactions of OutboxTx, however they overlap with one *)
(* another, with the workers and with the cleaner, keep replays and the    *)
(* order of what one transaction writes, and implement the queue.          *)
(***************************************************************************)
EXTENDS OutboxTx, RelayProofs

USE DEF NULL

\* Pairs of ids whose rows were inserted by one transaction.
SameTx == {p \in Ids \X Ids : origin[p[1]] = origin[p[2]]}

TxTypes ==
  /\ tx \in [Callers -> Tx] /\ txs \in Nat /\ origin \in [Ids -> Nat]
  /\ \A c \in Callers : tx[c].start <= clock /\ tx[c].n <= txs

\* What an open transaction has written nobody else writes: an id it inserted
\* has no row yet, a row it requeued is still dead.
HoldInv ==
  /\ \A c, d \in Callers, id \in Ids : HeldBy(c, id) /\ HeldBy(d, id) => c = d
  /\ \A c \in Callers, id \in Ids : tx[c].ins[id] # 0 => ~Present(id)
  /\ ReplayKept

\* A row, a claim or the transport knows the seq n.
Taken(n) ==
  \/ \E id \in Ids : Present(id) /\ rows[id].seq = n
  \/ \E d \in delivered : d[2] = n
  \/ \E w \in Workers : \E m \in wk[w].batch : m.row = n

\* An insert of id by c has drawn the seq n and is not committed.
Drew(c, id, n) ==
  /\ n # 0
  /\ \/ tx[c].ins[id] = n
     \/ \E w \in tx[c].wait : w.id = id /\ w.seq = n

\* A seq drawn by an open transaction is nobody else's.
DrawInv ==
  /\ \A c \in Callers, id \in Ids, n \in Nat :
       Drew(c, id, n) => n <= seq /\ ~Taken(n)
  /\ \A c, d \in Callers, a, b \in Ids, n \in Nat :
       Drew(c, a, n) /\ Drew(d, b, n) => c = d /\ a = b

\* Rows of one transaction have its start as created_at, and a transaction that
\* is still open has no rows yet.
OriginInv ==
  /\ \A a \in Ids : Present(a) => origin[a] <= txs
  /\ \A a \in Ids, c \in Callers :
       Present(a) /\ tx[c].n # 0 => origin[a] # tx[c].n
  /\ \A a, b \in Ids :
       Present(a) /\ Present(b) /\ origin[a] = origin[b]
         => rows[a].created_at = rows[b].created_at
  /\ \A c, d \in Callers : tx[c].n # 0 /\ tx[c].n = tx[d].n => c = d

TxInv == InvOn(SameTx) /\ TxTypes /\ HoldInv /\ DrawInv /\ OriginInv

\* A state without a transaction is well typed.
LEMMA NoTxType == /\ NoTx \in Tx /\ NoTx.n = 0 /\ NoTx.start = 0 /\ NoTx.wait = {}
                  /\ \A id \in Ids : NoTx.ins[id] = 0 /\ NoTx.re[id] = 0
  BY DEF NoTx, Tx

\* The parts of a transaction.
LEMMA TxFacts ==
  ASSUME TxTypes, NEW c \in Callers
  PROVE  /\ tx[c] \in Tx /\ tx[c].n \in Nat /\ tx[c].start \in Nat
         /\ \A id \in Ids : tx[c].ins[id] \in Nat /\ tx[c].re[id] \in Nat
         /\ \A w \in tx[c].wait : w.id \in Ids /\ w.seq \in Nat
  BY DEF TxTypes, Tx

\* The invariant holds initially.
LEMMA TxInitInv == TxInit => TxInv
<1> SUFFICES ASSUME TxInit PROVE TxInv
  OBVIOUS
<1>1. IInv
  BY InitInv DEF TxInit
<1>2. HeadOn(SameTx)
  BY <1>1 DEF IInv, HeadInv, HeadOn
<1>3. InvOn(SameTx)
  BY <1>1, <1>2 DEF IInv, InvOn
<1>4. \A id \in Ids : ~Present(id)
  BY DEF TxInit, Init, StoreInit, NoRow, Present
<1>5. \A c \in Callers : tx[c] = NoTx
  BY DEF TxInit
<1>6. TxTypes
  BY <1>5, NoTxType DEF TxTypes, TxInit, Init, StoreInit
<1>7. HoldInv
  BY <1>5, NoTxType DEF HoldInv, HeldBy, ReplayKept
<1>8. DrawInv
  BY <1>5, NoTxType DEF DrawInv, Drew
<1>9. OriginInv
  BY <1>4, <1>5, NoTxType DEF OriginInv
<1> QED BY <1>3, <1>6, <1>7, <1>8, <1>9 DEF TxInv

-----------------------------------------------------------------------------
(***************************************************************************)
(* Workers, the cleaner and time                                           *)
(***************************************************************************)

\* No row appears, rows that stay keep their place, and no seq becomes known.
NothingNew ==
  /\ \A id \in Ids : Present(id)' => /\ Present(id)
                                     /\ rows'[id].seq = rows[id].seq
                                     /\ rows'[id].created_at = rows[id].created_at
  /\ \A n : Taken(n)' => Taken(n)

\* A step of the relay that adds nothing and spares the locked rows keeps the
\* transactions' half of the invariant.
LEMMA RelayStep ==
  ASSUME TxInv, UNCHANGED <<tx, txs, origin, seq>>,
         clock' = clock \/ clock' = clock + 1,
         NothingNew, \A id \in Locked : rows'[id].status = rows[id].status,
         \A R : InvOn(R) => InvOn(R)'
  PROVE  TxInv'
<1> USE DEF TxInv
<1>1. InvOn(SameTx)'
  <2>1. PICK R : R = SameTx
    OBVIOUS
  <2>2. SameTx' = R
    BY <2>1 DEF SameTx
  <2>3. InvOn(R)'
    BY <2>1
  <2> QED BY <2>2, <2>3 DEF InvOn, HeadOn
<1>2. TxTypes'
  <2>1. clock \in Nat /\ clock <= clock'
    BY DEF InvOn, TypeOK
  <2>2. \A c \in Callers : tx[c].start \in Nat
    BY TxFacts
  <2> QED BY <2>1, <2>2 DEF TxTypes, InvOn, TypeOK
<1>3. HoldInv'
  BY DEF HoldInv, HeldBy, ReplayKept, NothingNew, Locked
<1>4. DrawInv'
  BY DEF DrawInv, Drew, NothingNew
<1>5. OriginInv'
  BY DEF OriginInv, NothingNew
<1> QED BY <1>1, <1>2, <1>3, <1>4, <1>5


\* A claim takes no locked row and knows only seqs of rows.
LEMMA TxClaimStep ==
  ASSUME TxInv, NEW w \in Workers, ClaimUnlocked(w, Locked),
         UNCHANGED <<tx, txs, origin>>
  PROVE  TxInv'
<1>1. PICK S \in SUBSET Ids :
        /\ Selected(S, Locked)
        /\ claim(S)
        /\ wk' = [wk EXCEPT ![w] =
              [pc |-> "publishing",
               batch |-> {[id |-> id, token |-> token + 1,
                           attempts |-> rows[id].attempts + 1,
                           row |-> rows[id].seq] : id \in S},
               hb |-> "on", todo |-> {}]]
  BY DEF ClaimUnlocked
<1>2. rows \in [Ids -> Row] /\ wk \in [Workers -> Worker]
  BY DEF TxInv, InvOn, TypeOK
<1>3. /\ clock' = clock /\ seq' = seq /\ delivered' = delivered
      /\ \A id \in Ids \ S : rows'[id] = rows[id]
  BY <1>1 DEF ClaimUnlocked, claim
<1>4. ASSUME NEW id \in S
      PROVE  /\ Present(id) /\ rows'[id].seq = rows[id].seq
             /\ rows'[id].created_at = rows[id].created_at
             /\ id \notin Locked
  <2>1. Present(id) /\ id \notin Locked
    BY <1>1 DEF Selected, Claimable, Present
  <2>2. PICK t : rows'[id] = [rows[id] EXCEPT !.status = "processing",
                                             !.locked_until = t,
                                             !.lease_token = token + 1,
                                             !.attempts = rows[id].attempts + 1]
    BY <1>1 DEF claim
  <2> QED BY <1>2, <2>1, <2>2 DEF Row
<1>5. ASSUME NEW v \in Workers, NEW m \in wk'[v].batch
      PROVE  m \in wk[v].batch \/ \E id \in S : m.row = rows[id].seq
  BY <1>1, <1>2, <1>5
<1>6. NothingNew
  <2>1. ASSUME NEW n, Taken(n)' PROVE Taken(n)
    <3>1. CASE \E id \in Ids : Present(id)' /\ rows'[id].seq = n
      BY <1>3, <1>4, <3>1 DEF Taken, Present
    <3>2. CASE \E v \in Workers : \E m \in wk'[v].batch : m.row = n
      BY <1>4, <1>5, <3>2 DEF Taken
    <3> QED BY <1>3, <2>1, <3>1, <3>2 DEF Taken
  <2> QED BY <1>3, <1>4, <2>1 DEF NothingNew, Present
<1>7. \A id \in Locked : rows'[id].status = rows[id].status
  BY <1>3, <1>4 DEF Locked
<1>8. \A R : InvOn(R) => InvOn(R)'
  BY ClaimStep
<1> QED BY <1>3, <1>6, <1>7, <1>8, RelayStep

\* What a worker does with its batch touches processing rows only, and hands
\* over only what it holds.
LEMMA TxBatchStep ==
  ASSUME TxInv, NEW w \in Workers, BatchStep(w), UNCHANGED <<tx, txs, origin>>
  PROVE  TxInv'
<1>0. rows \in [Ids -> Row] /\ wk \in [Workers -> Worker]
  BY DEF TxInv, InvOn, TypeOK
<1>1. clock' = clock /\ seq' = seq
  BY DEF BatchStep, Renew, RenewLost, RenewError, ContextDone, Deliver,
     PublishReturns, PublishReturnsEach, StartSettling, Abandon, Complete,
     CompleteError, Stop, renew, finish
<1>2. ASSUME NEW id \in Ids
      PROVE  /\ rows'[id].seq = rows[id].seq
             /\ rows'[id].created_at = rows[id].created_at
             /\ \/ rows'[id].status = rows[id].status
                \/ rows[id].status = "processing" /\ rows'[id].status # "absent"
  <2>1. CASE Renew(w) \/ RenewLost(w)
    <3>1. renew(wk[w].batch)
      BY <2>1 DEF Renew, RenewLost
    <3> QED BY <1>0, <3>1 DEF renew, Row
  <2>2. CASE Complete(w)
    <3>1. PICK g \in wk[w].todo : finish(g.msgs, g.status, g.delay)
      BY <2>2 DEF Complete
    <3>2. g.status # "absent"
      BY DEF TxInv, InvOn, PlanInv, Plan
    <3>3. CASE OwnedIn(id, g.msgs)
      <4>1. rows'[id] = Finished(rows[id], g.status, g.delay)
              /\ rows[id].status = "processing"
        BY <3>1, <3>3 DEF finish, OwnedIn, Owned
      <4> QED BY <1>0, <3>2, <4>1 DEF Finished, Row
    <3>4. CASE ~OwnedIn(id, g.msgs)
      BY <3>1, <3>4 DEF finish
    <3> QED BY <3>3, <3>4
  <2>3. CASE ~(Renew(w) \/ RenewLost(w) \/ Complete(w))
    BY <2>3 DEF BatchStep, RenewError, ContextDone, Deliver, PublishReturns,
       PublishReturnsEach, StartSettling, Abandon, CompleteError, Stop
  <2> QED BY <2>1, <2>2, <2>3
<1>3. \A v \in Workers : wk'[v].batch \subseteq wk[v].batch
  <2>1. ASSUME NEW g, Settled(w, g)
        PROVE  \A v \in Workers : wk'[v].batch \subseteq wk[v].batch
    <3>1. [wk[w] EXCEPT !.todo = @ \ {g}].batch = wk[w].batch
      BY <1>0 DEF Worker
    <3> QED BY <1>0, <2>1, <3>1, IdleWorker DEF Settled
  <2>2. CASE Abandon(w) \/ Stop(w)
    BY <1>0, <2>2, IdleWorker DEF Abandon, Stop
  <2>3. CASE Renew(w) \/ RenewLost(w) \/ RenewError(w) \/ ContextDone(w) \/ Deliver(w)
    BY <1>0, <2>3 DEF Renew, RenewLost, RenewError, ContextDone, Deliver, Worker
  <2>4. CASE PublishReturns(w) \/ PublishReturnsEach(w)
    <3>1. PICK todo : StartSettling(w, todo)
      BY <2>4 DEF PublishReturns, PublishReturnsEach
    <3> QED BY <1>0, <3>1 DEF StartSettling, Worker
  <2> QED BY <2>1, <2>2, <2>3, <2>4 DEF BatchStep, Complete, CompleteError
<1>4. \A d \in delivered' :
        \/ d \in delivered
        \/ \E m \in wk[w].batch : d = <<m.id, m.row>>
  BY DEF BatchStep, Renew, RenewLost, RenewError, ContextDone, Deliver,
     PublishReturns, PublishReturnsEach, StartSettling, Abandon, Complete,
     CompleteError, Stop
<1>5. NothingNew
  <2>1. \A id \in Ids : Present(id)' => Present(id)
    BY <1>2 DEF Present
  <2>2. ASSUME NEW n, Taken(n)' PROVE Taken(n)
    BY <1>2, <1>3, <1>4, <2>1, <2>2 DEF Taken
  <2> QED BY <1>2, <2>1, <2>2 DEF NothingNew
<1>6. \A id \in Locked : rows'[id].status = rows[id].status
  BY <1>2 DEF Locked, TxInv, HoldInv, ReplayKept
<1>7. \A R : InvOn(R) => InvOn(R)'
  BY BatchKeeps
<1> QED BY <1>1, <1>5, <1>6, <1>7, RelayStep

\* The cleaner spares locked rows.
LEMMA TxCleanupStep ==
  ASSUME TxInv, TxCleanup
  PROVE  TxInv'
<1>1. PICK S \in SUBSET Ids : CleanupSet(S, Locked) /\ cleanup(S)
  BY DEF TxCleanup
<1>2. /\ \A id \in S : rows'[id].status = "absent" /\ id \notin Locked
      /\ \A id \in Ids \ S : rows'[id] = rows[id]
      /\ clock' = clock /\ seq' = seq
  BY <1>1 DEF CleanupSet, cleanup, NoRow
<1>3. UNCHANGED <<wk, delivered, notBefore, tx, txs, origin>>
  BY DEF TxCleanup
<1>4. NothingNew
  BY <1>2, <1>3 DEF NothingNew, Present, Taken
<1>5. \A id \in Locked : rows'[id].status = rows[id].status
  BY <1>2 DEF Locked
<1>6. \A R : InvOn(R) => InvOn(R)'
  BY <1>1, <1>3, CleanupStep
<1> QED BY <1>2, <1>3, <1>4, <1>5, <1>6, RelayStep

\* The passing of time.
LEMMA TxTimeStep ==
  ASSUME TxInv, Time, UNCHANGED <<tx, txs, origin>>
  PROVE  TxInv'
<1>1. UNCHANGED <<rows, seq, wk, delivered>> /\ clock' = clock + 1
  BY DEF Time, Tick
<1>2. NothingNew
  BY <1>1 DEF NothingNew, Present, Taken
<1>3. \A R : InvOn(R) => InvOn(R)'
  BY TimeStep
<1> QED BY <1>1, <1>2, <1>3, RelayStep

-----------------------------------------------------------------------------
(***************************************************************************)
(* Statements of callers, none of which changes the table                  *)
(***************************************************************************)

\* The pairs stay the same while no origin changes, so what is kept for all
\* pairs is kept for these.
LEMMA PairsStay ==
  ASSUME InvOn(SameTx), origin' = origin, \A R : InvOn(R) => InvOn(R)'
  PROVE  InvOn(SameTx)'
<1>1. PICK R : R = SameTx
  OBVIOUS
<1>2. SameTx' = R
  BY <1>1 DEF SameTx
<1>3. InvOn(R)'
  BY <1>1
<1> QED BY <1>2, <1>3 DEF InvOn, HeadOn

\* A transaction that begins, or ends without effect, has written nothing.
LEMMA EmptyTx ==
  ASSUME TxInv, NEW c \in Callers, NEW new \in Tx, tx' = [tx EXCEPT ![c] = new],
         new.wait = {}, \A id \in Ids : new.ins[id] = 0 /\ new.re[id] = 0,
         new.start <= clock,
         \/ new.n = 0 /\ txs' = txs
         \/ new.n = txs + 1 /\ txs' = txs + 1,
         UNCHANGED <<vars, origin>>
  PROVE  TxInv'
<1> USE DEF TxInv
<1>1. InvOn(SameTx)'
  BY IdleStep, PairsStay
<1>2. /\ tx'[c] = new /\ \A d \in Callers \ {c} : tx'[d] = tx[d]
      /\ UNCHANGED <<rows, clock, seq, wk, delivered>>
  BY DEF TxTypes, vars
<1>3. txs \in Nat /\ txs' \in Nat /\ \A d \in Callers : tx[d].n \in Nat /\ tx[d].n <= txs
  BY TxFacts DEF TxTypes
<1>4. TxTypes'
  BY <1>2, <1>3 DEF TxTypes
<1>5. \A d \in Callers, id \in Ids : HeldBy(d, id)' => HeldBy(d, id)
  BY <1>2 DEF HeldBy
<1>6. HoldInv'
  BY <1>2, <1>5 DEF HoldInv, ReplayKept, Present
<1>7. \A d \in Callers, id \in Ids, n \in Nat : Drew(d, id, n)' => Drew(d, id, n)
  BY <1>2 DEF Drew
<1>8. \A n : Taken(n)' <=> Taken(n)
  BY <1>2 DEF Taken, Present
<1>9. DrawInv'
  BY <1>2, <1>7, <1>8 DEF DrawInv
<1>10. OriginInv'
  <2>1. \A a \in Ids : origin[a] \in Nat
    BY DEF TxTypes
  <2> QED BY <1>2, <1>3, <2>1 DEF OriginInv, Present
<1> QED BY <1>1, <1>4, <1>6, <1>9, <1>10

\* Begin, Rollback and an abort by the deadlock detector.
LEMMA EndsStep ==
  ASSUME TxInv, NEW c \in Callers, Begin(c) \/ Rollback(c) \/ DeadlockAbort(c)
  PROVE  TxInv'
<1>1. clock \in Nat /\ txs \in Nat
  BY DEF TxInv, InvOn, TypeOK, TxTypes
<1>2. CASE Begin(c)
  <2> DEFINE new == [NoTx EXCEPT !.n = txs + 1, !.start = clock]
  <2>1. NoTx \in Tx /\ txs + 1 \in Nat
    BY <1>1, NoTxType
  <2>2. new \in Tx
    BY <1>1, <2>1 DEF Tx
  <2>3. /\ new.wait = NoTx.wait /\ new.start = clock /\ new.n = txs + 1
        /\ new.ins = NoTx.ins /\ new.re = NoTx.re
    BY <1>1, <2>1 DEF Tx
  <2>4. tx' = [tx EXCEPT ![c] = new] /\ txs' = txs + 1 /\ UNCHANGED <<vars, origin>>
    BY <1>2 DEF Begin
  <2> HIDE DEF new
  <2>5. /\ new.wait = {} /\ new.start <= clock
        /\ \A id \in Ids : new.ins[id] = 0 /\ new.re[id] = 0
    BY <1>1, <2>3, NoTxType
  <2> QED BY <2>2, <2>3, <2>4, <2>5, EmptyTx
<1>3. CASE Rollback(c) \/ DeadlockAbort(c)
  <2>1. tx' = [tx EXCEPT ![c] = NoTx] /\ txs' = txs /\ UNCHANGED <<vars, origin>>
    BY <1>3 DEF Rollback, DeadlockAbort
  <2>2. NoTx.start <= clock /\ NoTx \in Tx /\ NoTx.n = 0 /\ NoTx.wait = {}
          /\ \A id \in Ids : NoTx.ins[id] = 0 /\ NoTx.re[id] = 0
    BY <1>1, NoTxType
  <2> QED BY <2>1, <2>2, EmptyTx
<1> QED BY <1>2, <1>3

\* A statement of c, which draws seqs of its own only and takes hold of ids
\* nobody holds.
LEMMA StatementStep ==
  ASSUME TxInv, NEW c \in Callers, NEW new \in Tx, tx' = [tx EXCEPT ![c] = new],
         new.n = tx[c].n, new.start = tx[c].start,
         UNCHANGED <<rows, clock, token, wk, delivered, notBefore, txs, origin>>,
         seq' = seq \/ seq' = seq + 1,
         \A id \in Ids : new.ins[id] # 0 \/ new.re[id] # 0
                           => HeldBy(c, id) \/ Free(id),
         \A id \in Ids : new.ins[id] # 0 => ~Present(id),
         \A id \in Ids : new.re[id] # 0 => rows[id].status = "dead",
         \A id \in Ids, n \in Nat :
           Drew(c, id, n)' => Drew(c, id, n) \/ (n = seq + 1 /\ seq' = seq + 1),
         \A a, b \in Ids, n \in Nat :
           n = seq + 1 /\ Drew(c, a, n)' /\ Drew(c, b, n)' => a = b
  PROVE  TxInv'
<1> USE DEF TxInv
<1>0. seq \in Nat /\ seq' \in Nat
  BY DEF InvOn, TypeOK
<1>1. /\ tx'[c] = new /\ \A d \in Callers \ {c} : tx'[d] = tx[d]
  BY DEF TxTypes
<1>2. InvOn(SameTx)'
  <2>1. ASSUME NEW R, InvOn(R) PROVE InvOn(R)'
    <3>1. rows \in [Ids -> Row]
      BY <2>1 DEF InvOn, TypeOK
    <3>2. RowsOK' /\ \A id \in Ids : SameRow(id)
      BY <1>0, <2>1, <3>1 DEF InvOn, TypeOK, RowsOK, SameRow, Row
    <3>3. FewerClaims
      BY DEF FewerClaims
    <3>4. PlanInv'
      BY <2>1 DEF PlanInv, Plan, InTransport, InvOn
    <3> QED BY <2>1, <3>2, <3>3, <3>4, StillStep DEF InvOn, TypeOK
  <2> QED BY <2>1, PairsStay
<1>3. TxTypes'
  BY <1>1 DEF TxTypes
<1>4. HoldInv'
  <2>1. \A id \in Ids : HeldBy(c, id)' => HeldBy(c, id) \/ Free(id)
    BY <1>1 DEF HeldBy
  <2>2. \A d \in Callers \ {c}, id \in Ids : HeldBy(d, id)' <=> HeldBy(d, id)
    BY <1>1 DEF HeldBy
  <2>3. \A d, e \in Callers, id \in Ids : HeldBy(d, id)' /\ HeldBy(e, id)' => d = e
    BY <2>1, <2>2 DEF HoldInv, Free
  <2>4. \A id \in Ids : Present(id)' <=> Present(id)
    BY DEF Present
  <2> QED BY <1>1, <2>3, <2>4 DEF HoldInv, ReplayKept
<1>5. DrawInv'
  <2>1. \A d \in Callers \ {c}, id \in Ids, n \in Nat : Drew(d, id, n)' <=> Drew(d, id, n)
    BY <1>1 DEF Drew
  <2>2. \A n : Taken(n)' <=> Taken(n)
    BY DEF Taken, Present
  <2>3. ~Taken(seq + 1)
    <3>1. \A id \in Ids : rows[id].seq # seq + 1
      BY <1>0 DEF InvOn, TypeOK, Row
    <3>2. \A d \in delivered : d[2] # seq + 1
      BY <1>0 DEF InvOn, SeqInv
    <3>3. \A w \in Workers : \A m \in wk[w].batch : m.row # seq + 1
      BY <1>0, MessageFacts DEF InvOn
    <3> QED BY <3>1, <3>2, <3>3 DEF Taken
  <2>4. \A d \in Callers, id \in Ids : ~Drew(d, id, seq + 1)
    BY <1>0 DEF DrawInv
  <2>5. ASSUME NEW d \in Callers, NEW id \in Ids, NEW n \in Nat, Drew(d, id, n)'
        PROVE  n <= seq' /\ ~Taken(n)'
    <3>1. CASE Drew(d, id, n)
      BY <1>0, <2>2, <3>1 DEF DrawInv
    <3>2. CASE ~Drew(d, id, n)
      BY <1>0, <2>1, <2>2, <2>3, <2>5, <3>2
    <3> QED BY <3>1, <3>2
  <2>6. ASSUME NEW d \in Callers, NEW e \in Callers, NEW a \in Ids, NEW b \in Ids,
               NEW n \in Nat, Drew(d, a, n)', Drew(e, b, n)'
        PROVE  d = e /\ a = b
    <3>1. CASE n = seq + 1
      <4>1. d = c /\ e = c
        BY <2>1, <2>4, <2>6, <3>1
      <4> QED BY <2>6, <3>1, <4>1
    <3>2. CASE n # seq + 1
      <4>1. Drew(d, a, n) /\ Drew(e, b, n)
        BY <2>1, <2>6, <3>2
      <4> QED BY <4>1 DEF DrawInv
    <3> QED BY <3>1, <3>2
  <2> QED BY <2>5, <2>6 DEF DrawInv
<1>6. OriginInv'
  <2>1. \A d \in Callers : tx'[d].n = tx[d].n
    BY <1>1
  <2> QED BY <2>1 DEF OriginInv, Present
<1> QED BY <1>2, <1>3, <1>4, <1>5, <1>6

\* Enqueue: the id, or the statement that waits for it, gets a fresh seq.
LEMMA TxEnqueueStep ==
  ASSUME TxInv, NEW c \in Callers, NEW id \in Ids, TxEnqueue(c, id)
  PROVE  TxInv'
<1>1. /\ tx[c].wait = {} /\ seq' = seq + 1
      /\ UNCHANGED <<rows, clock, token, wk, delivered, notBefore, txs, origin>>
  BY DEF TxEnqueue, Ready
<1>2. seq \in Nat
  BY DEF TxInv, InvOn, TypeOK
<1>3. tx \in [Callers -> Tx] /\ tx[c] \in Tx
  BY DEF TxInv, TxTypes
<1>4. \A a \in Ids : tx[c].ins[a] # seq + 1
  <2> SUFFICES ASSUME NEW a \in Ids, tx[c].ins[a] = seq + 1 PROVE FALSE
    OBVIOUS
  <2>1. Drew(c, a, seq + 1) /\ seq + 1 \in Nat
    BY <1>2 DEF Drew
  <2> QED BY <1>2, <2>1 DEF TxInv, DrawInv
<1>5. CASE /\ Free(id) /\ ~Present(id)
           /\ tx' = [tx EXCEPT ![c].ins[id] = seq + 1]
  <2> DEFINE ins == [tx[c].ins EXCEPT ![id] = seq + 1]
             new == [tx[c] EXCEPT !.ins = ins]
  <2>1. tx' = [tx EXCEPT ![c] = new]
    BY <1>3, <1>5
  <2>2. /\ new \in Tx /\ new.n = tx[c].n /\ new.start = tx[c].start
        /\ new.re = tx[c].re /\ new.wait = {} /\ new.ins[id] = seq + 1
        /\ \A a \in Ids \ {id} : new.ins[a] = tx[c].ins[a]
    <3>1. tx[c].ins \in [Ids -> Nat]
      BY <1>3 DEF Tx
    <3>2. /\ ins \in [Ids -> Nat] /\ ins[id] = seq + 1
          /\ \A a \in Ids \ {id} : ins[a] = tx[c].ins[a]
      BY <1>2, <3>1
    <3> HIDE DEF ins
    <3>3. new \in Tx
      BY <1>3, <3>2 DEF Tx
    <3>4. /\ new.n = tx[c].n /\ new.start = tx[c].start /\ new.re = tx[c].re
          /\ new.wait = tx[c].wait /\ new.ins = ins
      BY <1>3 DEF Tx
    <3> QED BY <1>1, <3>2, <3>3, <3>4
  <2> HIDE DEF new
  <2>3. tx'[c] = new
    BY <1>3, <2>1
  <2>4. \A a \in Ids, n \in Nat :
          Drew(c, a, n)' => Drew(c, a, n) \/ (n = seq + 1 /\ a = id)
    BY <2>2, <2>3 DEF Drew
  <2>5. \A a \in Ids, n \in Nat : n = seq + 1 /\ Drew(c, a, n)' => a = id
    BY <1>1, <1>4, <2>2, <2>3 DEF Drew
  <2>6. \A a \in Ids : new.ins[a] # 0 \/ new.re[a] # 0 => HeldBy(c, a) \/ Free(a)
    BY <1>5, <2>2 DEF HeldBy
  <2>7. \A a \in Ids : new.ins[a] # 0 => ~Present(a)
    BY <1>5, <2>2 DEF TxInv, HoldInv
  <2>8. \A a \in Ids : new.re[a] # 0 => rows[a].status = "dead"
    BY <2>2 DEF TxInv, HoldInv, ReplayKept
  <2> QED BY <1>1, <2>1, <2>2, <2>4, <2>5, <2>6, <2>7, <2>8, StatementStep
<1>6. CASE tx' = [tx EXCEPT ![c].wait = {[id |-> id, seq |-> seq + 1]}]
  <2> DEFINE new == [tx[c] EXCEPT !.wait = {[id |-> id, seq |-> seq + 1]}]
  <2>1. tx' = [tx EXCEPT ![c] = new]
    BY <1>3, <1>6
  <2>2. /\ new \in Tx /\ new.n = tx[c].n /\ new.start = tx[c].start
        /\ new.re = tx[c].re /\ new.ins = tx[c].ins
        /\ new.wait = {[id |-> id, seq |-> seq + 1]}
    BY <1>1, <1>2, <1>3 DEF Tx
  <2> HIDE DEF new
  <2>3. tx'[c] = new
    BY <1>3, <2>1
  <2>4. \A a \in Ids, n \in Nat :
          Drew(c, a, n)' => Drew(c, a, n) \/ (n = seq + 1 /\ a = id)
    BY <2>2, <2>3 DEF Drew
  <2>5. \A a \in Ids, n \in Nat : n = seq + 1 /\ Drew(c, a, n)' => a = id
    BY <1>1, <1>4, <2>2, <2>3 DEF Drew
  <2>6. \A a \in Ids : new.ins[a] # 0 \/ new.re[a] # 0 => HeldBy(c, a) \/ Free(a)
    BY <2>2 DEF HeldBy
  <2>7. \A a \in Ids : new.ins[a] # 0 => ~Present(a)
    BY <2>2 DEF TxInv, HoldInv
  <2>8. \A a \in Ids : new.re[a] # 0 => rows[a].status = "dead"
    BY <2>2 DEF TxInv, HoldInv, ReplayKept
  <2> QED BY <1>1, <2>1, <2>2, <2>4, <2>5, <2>6, <2>7, <2>8, StatementStep
<1> QED BY <1>5, <1>6 DEF TxEnqueue

\* Requeue: the dead row is locked, or the statement waits for it.
LEMMA TxRequeueStep ==
  ASSUME TxInv, NEW c \in Callers, NEW id \in Ids, TxRequeue(c, id)
  PROVE  TxInv'
<1>1. /\ tx[c].wait = {} /\ rows[id].status = "dead"
      /\ UNCHANGED <<rows, clock, token, wk, delivered, notBefore, txs, origin>>
      /\ seq' = seq
  BY DEF TxRequeue, Ready, vars
<1>2. clock \in Nat /\ seq \in Nat
  BY DEF TxInv, InvOn, TypeOK
<1>3. tx \in [Callers -> Tx] /\ tx[c] \in Tx
  BY DEF TxInv, TxTypes
<1>4. \A a \in Ids : tx[c].ins[a] # seq + 1
  <2> SUFFICES ASSUME NEW a \in Ids, tx[c].ins[a] = seq + 1 PROVE FALSE
    OBVIOUS
  <2>1. Drew(c, a, seq + 1) /\ seq + 1 \in Nat
    BY <1>2 DEF Drew
  <2> QED BY <1>2, <2>1 DEF TxInv, DrawInv
<1>5. PICK new \in Tx :
        /\ tx' = [tx EXCEPT ![c] = new]
        /\ new.n = tx[c].n /\ new.start = tx[c].start /\ new.ins = tx[c].ins
        /\ \A w \in new.wait : w.seq = 0
        /\ \A a \in Ids :
             new.re[a] # 0 => tx[c].re[a] # 0 \/ (a = id /\ Free(id))
  <2>1. CASE Free(id) /\ tx' = [tx EXCEPT ![c].re[id] = clock]
    <3> DEFINE new == [tx[c] EXCEPT !.re[id] = clock]
    <3>1. /\ new \in Tx /\ new.n = tx[c].n /\ new.start = tx[c].start
          /\ new.ins = tx[c].ins /\ new.wait = {}
          /\ \A a \in Ids \ {id} : new.re[a] = tx[c].re[a]
      BY <1>1, <1>2, <1>3 DEF Tx
    <3>2. tx' = [tx EXCEPT ![c] = new]
      BY <1>3, <2>1
    <3> HIDE DEF new
    <3> QED BY <2>1, <3>1, <3>2
  <2>2. CASE tx' = [tx EXCEPT ![c].wait = {[id |-> id, seq |-> 0]}]
    <3> DEFINE new == [tx[c] EXCEPT !.wait = {[id |-> id, seq |-> 0]}]
    <3>1. /\ new \in Tx /\ new.n = tx[c].n /\ new.start = tx[c].start
          /\ new.ins = tx[c].ins /\ new.re = tx[c].re
          /\ new.wait = {[id |-> id, seq |-> 0]}
      BY <1>3 DEF Tx
    <3>2. tx' = [tx EXCEPT ![c] = new]
      BY <1>3, <2>2
    <3>3. \A w \in new.wait : w.seq = 0
      BY <3>1
    <3> HIDE DEF new
    <3> new \in Tx
      BY <3>1
    <3> WITNESS new \in Tx
    <3> QED BY <3>1, <3>2, <3>3
  <2> QED BY <2>1, <2>2 DEF TxRequeue
<1>6. tx'[c] = new
  BY <1>3, <1>5
<1>7. \A a \in Ids, n \in Nat : Drew(c, a, n)' => Drew(c, a, n) /\ n # seq + 1
  BY <1>4, <1>5, <1>6 DEF Drew
<1>8. \A a \in Ids : new.ins[a] # 0 \/ new.re[a] # 0 => HeldBy(c, a) \/ Free(a)
  BY <1>5 DEF HeldBy
<1>9. \A a \in Ids : new.ins[a] # 0 => ~Present(a)
  BY <1>5 DEF TxInv, HoldInv
<1>10. \A a \in Ids : new.re[a] # 0 => rows[a].status = "dead"
  BY <1>1, <1>5 DEF TxInv, HoldInv, ReplayKept
<1> QED BY <1>1, <1>5, <1>7, <1>8, <1>9, <1>10, StatementStep

\* The statement that waited goes on with the seq it had drawn.
LEMMA ResumeStep ==
  ASSUME TxInv, NEW c \in Callers, Resume(c)
  PROVE  TxInv'
<1>1. PICK w \in tx[c].wait :
        /\ Free(w.id)
        /\ tx' = [tx EXCEPT
             ![c].wait = {},
             ![c].ins[w.id] = IF w.seq # 0 /\ ~Present(w.id) THEN w.seq ELSE @,
             ![c].re[w.id] = IF w.seq = 0 /\ rows[w.id].status = "dead"
                             THEN clock ELSE @]
  BY DEF Resume
<1>2. /\ UNCHANGED <<rows, clock, token, wk, delivered, notBefore, txs, origin>>
      /\ seq' = seq
  BY DEF Resume, vars
<1>3. clock \in Nat /\ seq \in Nat
  BY DEF TxInv, InvOn, TypeOK
<1>4. /\ tx \in [Callers -> Tx] /\ tx[c] \in Tx /\ w.id \in Ids /\ w.seq \in Nat
      /\ \A a \in Ids : tx[c].ins[a] \in Nat /\ tx[c].re[a] \in Nat
  BY TxFacts DEF TxInv, TxTypes
<1> DEFINE i == IF w.seq # 0 /\ ~Present(w.id) THEN w.seq ELSE tx[c].ins[w.id]
           r == IF w.seq = 0 /\ rows[w.id].status = "dead"
                THEN clock ELSE tx[c].re[w.id]
           ins == [tx[c].ins EXCEPT ![w.id] = i]
           re == [tx[c].re EXCEPT ![w.id] = r]
           new == [tx[c] EXCEPT !.wait = {}, !.ins = ins, !.re = re]
<1>5. i \in Nat /\ r \in Nat
  BY <1>3, <1>4
<1>6. /\ i # 0 => tx[c].ins[w.id] = i \/ (i = w.seq /\ ~Present(w.id))
      /\ r # 0 => tx[c].re[w.id] # 0 \/ rows[w.id].status = "dead"
  OBVIOUS
<1>7. tx' = [tx EXCEPT ![c] = new]
  <2>1. tx' = [tx EXCEPT ![c].wait = {}, ![c].ins[w.id] = i, ![c].re[w.id] = r]
    BY <1>1, <1>4
  <2> HIDE DEF i, r
  <2> QED BY <1>4, <2>1 DEF Tx
<1> HIDE DEF i, r
<1>8. /\ new \in Tx /\ new.n = tx[c].n /\ new.start = tx[c].start /\ new.wait = {}
      /\ new.ins[w.id] = i /\ new.re[w.id] = r
      /\ \A a \in Ids \ {w.id} : new.ins[a] = tx[c].ins[a] /\ new.re[a] = tx[c].re[a]
  <2>1. tx[c].ins \in [Ids -> Nat] /\ tx[c].re \in [Ids -> Nat]
    BY <1>4 DEF Tx
  <2>2. /\ ins \in [Ids -> Nat] /\ ins[w.id] = i
        /\ re \in [Ids -> Nat] /\ re[w.id] = r
        /\ \A a \in Ids \ {w.id} : ins[a] = tx[c].ins[a] /\ re[a] = tx[c].re[a]
    BY <1>4, <1>5, <2>1
  <2> HIDE DEF ins, re
  <2>3. new \in Tx
    BY <1>4, <2>2 DEF Tx
  <2>4. /\ new.n = tx[c].n /\ new.start = tx[c].start
        /\ new.wait = {} /\ new.ins = ins /\ new.re = re
    BY <1>4 DEF Tx
  <2> QED BY <2>2, <2>3, <2>4
<1> HIDE DEF new
<1>9. tx'[c] = new
  BY <1>4, <1>7
<1>10. \A a \in Ids, n \in Nat : Drew(c, a, n)' => Drew(c, a, n)
  BY <1>6, <1>8, <1>9 DEF Drew
<1>11. \A a \in Ids, n \in Nat : n = seq + 1 => ~Drew(c, a, n)
  BY <1>3 DEF TxInv, DrawInv
<1>12. \A a \in Ids : new.ins[a] # 0 \/ new.re[a] # 0 => HeldBy(c, a) \/ Free(a)
  BY <1>1, <1>8 DEF HeldBy
<1>13. \A a \in Ids : new.ins[a] # 0 => ~Present(a)
  BY <1>4, <1>6, <1>8 DEF TxInv, HoldInv
<1>14. \A a \in Ids : new.re[a] # 0 => rows[a].status = "dead"
  BY <1>4, <1>6, <1>8 DEF TxInv, HoldInv, ReplayKept
<1> QED BY <1>2, <1>7, <1>8, <1>10, <1>11, <1>12, <1>13, <1>14, StatementStep

-----------------------------------------------------------------------------
(***************************************************************************)
(* Commit                                                                  *)
(***************************************************************************)

\* The row an insert yields.
LEMMA NewRowFacts ==
  ASSUME NEW start \in Nat, NEW n \in Nat
  PROVE  /\ NewRow(start, n) \in Row
         /\ NewRow(start, n).status = "pending" /\ NewRow(start, n).attempts = 0
         /\ NewRow(start, n).lease_token = 0 /\ NewRow(start, n).intact
         /\ NewRow(start, n).created_at = start /\ NewRow(start, n).seq = n
<1>1. "pending" \in Status
  BY DEF Status
<1>2. NewRow(start, n) \in Row
  BY <1>1, NoRowType DEF NewRow, Row
<1> QED BY <1>2 DEF NewRow, NoRow

\* The row a requeue yields.
LEMMA RequeuedFacts ==
  ASSUME NEW r \in Row, NEW at \in Nat
  PROVE  /\ Requeued(r, at) \in Row
         /\ Requeued(r, at).status = "pending" /\ Requeued(r, at).attempts = 0
         /\ Requeued(r, at).lease_token = 0 /\ (r.intact => Requeued(r, at).intact)
         /\ Requeued(r, at).created_at = r.created_at
         /\ Requeued(r, at).seq = r.seq
<1>1. "pending" \in Status
  BY DEF Status
<1>2. Requeued(r, at) \in Row
  BY <1>1 DEF Requeued, Row
<1> QED BY <1>2 DEF Requeued, Row

\* What a commit of c does to each row: a row is inserted, requeued or stays.
LEMMA CommitRows ==
  ASSUME TxInv, NEW c \in Callers, Commit(c), NEW id \in Ids
  PROVE  \/ /\ tx[c].ins[id] # 0 /\ ~Present(id) /\ rows'[id] \in Row
            /\ rows'[id].status = "pending" /\ rows'[id].attempts = 0
            /\ rows'[id].lease_token = 0 /\ rows'[id].intact
            /\ rows'[id].created_at = tx[c].start
            /\ rows'[id].seq = tx[c].ins[id]
            /\ notBefore'[id] = 0 /\ origin'[id] = tx[c].n
         \/ /\ tx[c].ins[id] = 0 /\ rows[id].status = "dead" /\ rows'[id] \in Row
            /\ rows'[id].status = "pending" /\ rows'[id].attempts = 0
            /\ rows'[id].lease_token = 0 /\ rows'[id].intact
            /\ rows'[id].created_at = rows[id].created_at
            /\ rows'[id].seq = rows[id].seq
            /\ notBefore'[id] = 0 /\ origin'[id] = origin[id]
         \/ /\ tx[c].ins[id] = 0 /\ tx[c].re[id] = 0
            /\ rows'[id] = rows[id] /\ notBefore'[id] = notBefore[id]
            /\ origin'[id] = origin[id]
<1>1. /\ rows'[id] = IF tx[c].ins[id] # 0 THEN NewRow(tx[c].start, tx[c].ins[id])
                     ELSE IF tx[c].re[id] # 0 THEN Requeued(rows[id], tx[c].re[id])
                     ELSE rows[id]
      /\ origin'[id] = IF tx[c].ins[id] # 0 THEN tx[c].n ELSE origin[id]
      /\ notBefore'[id] = IF tx[c].ins[id] # 0 \/ tx[c].re[id] # 0 THEN 0
                          ELSE notBefore[id]
  BY DEF Commit
<1>2. /\ rows[id] \in Row /\ tx[c].start \in Nat
      /\ tx[c].ins[id] \in Nat /\ tx[c].re[id] \in Nat
  BY TxFacts DEF TxInv, InvOn, TypeOK
<1>3. CASE tx[c].ins[id] # 0
  <2>1. rows'[id] = NewRow(tx[c].start, tx[c].ins[id])
    BY <1>1, <1>3
  <2>2. rows'[id] \in Row
    BY <1>2, <2>1, NewRowFacts
  <2>3. /\ rows'[id].status = "pending" /\ rows'[id].attempts = 0
        /\ rows'[id].lease_token = 0 /\ rows'[id].intact
        /\ rows'[id].created_at = tx[c].start
        /\ rows'[id].seq = tx[c].ins[id]
    BY <1>2, <2>1, NewRowFacts
  <2>4. ~Present(id)
    BY <1>3 DEF TxInv, HoldInv
  <2> QED BY <1>1, <1>3, <2>2, <2>3, <2>4
<1>4. CASE tx[c].ins[id] = 0 /\ tx[c].re[id] # 0
  <2>1. rows'[id] = Requeued(rows[id], tx[c].re[id])
    BY <1>1, <1>4
  <2>2. rows'[id] \in Row
    BY <1>2, <2>1, RequeuedFacts
  <2>3. rows[id].status = "dead"
    BY <1>4 DEF TxInv, HoldInv, ReplayKept
  <2>4. rows[id].intact
    BY <2>3 DEF TxInv, InvOn, DataUntilSettled
  <2>5. PICK r \in Row, at \in Nat : r = rows[id] /\ at = tx[c].re[id]
    BY <1>2
  <2>6. rows'[id] = Requeued(r, at)
    BY <2>1, <2>5
  <2>7. /\ rows'[id].status = "pending" /\ rows'[id].attempts = 0
        /\ rows'[id].lease_token = 0 /\ rows'[id].intact
        /\ rows'[id].created_at = r.created_at
        /\ rows'[id].seq = r.seq
    BY <2>4, <2>5, <2>6, RequeuedFacts
  <2> QED BY <1>1, <1>4, <2>2, <2>3, <2>5, <2>7
<1>5. CASE tx[c].ins[id] = 0 /\ tx[c].re[id] = 0
  BY <1>1, <1>5
<1> QED BY <1>3, <1>4, <1>5

\* A commit keeps the invariant: the seqs it brings in were nobody else's, its
\* rows are of no other transaction, and the rows it requeues are heads of
\* their keys.
LEMMA CommitStep ==
  ASSUME TxInv, NEW c \in Callers, Commit(c)
  PROVE  TxInv'
<1> USE DEF TxInv
<1>1. /\ UNCHANGED <<clock, seq, token, wk, delivered, txs>> /\ tx[c].n # 0
      /\ tx' = [tx EXCEPT ![c] = NoTx]
      /\ DOMAIN rows' = Ids /\ DOMAIN notBefore' = Ids /\ DOMAIN origin' = Ids
      /\ rows' = [id \in Ids |-> rows'[id]]
      /\ notBefore' = [id \in Ids |-> notBefore'[id]]
      /\ origin' = [id \in Ids |-> origin'[id]]
  BY DEF Commit, Ready
<1>2. tx'[c] = NoTx /\ \A d \in Callers \ {c} : tx'[d] = tx[d]
  BY <1>1 DEF TxTypes
<1>3. /\ seq \in Nat /\ clock \in Nat /\ token \in 0 .. MaxToken /\ MaxToken \in Nat
      /\ tx[c].start \in Nat /\ tx[c].start <= clock
  BY TxFacts, StoreAssumption DEF InvOn, TypeOK, TxTypes
<1>4. ASSUME NEW id \in Ids, tx[c].ins[id] # 0
      PROVE  /\ Drew(c, id, tx[c].ins[id]) /\ tx[c].ins[id] \in Nat
             /\ tx[c].ins[id] <= seq /\ ~Taken(tx[c].ins[id])
  <2>1. Drew(c, id, tx[c].ins[id]) /\ tx[c].ins[id] \in Nat
    BY <1>4, TxFacts DEF Drew
  <2> QED BY <2>1 DEF DrawInv
<1>5. RowsOK'
  <2>1. ASSUME NEW id \in Ids
        PROVE  /\ rows'[id] \in Row
               /\ rows'[id].seq <= seq
               /\ rows'[id].created_at <= clock
               /\ rows'[id].lease_token <= token
               /\ rows'[id].attempts <= token
    <3>1. /\ rows[id] \in Row
          /\ rows[id].seq <= seq /\ rows[id].created_at <= clock
          /\ rows[id].lease_token <= token /\ rows[id].attempts <= token
      BY DEF InvOn, TypeOK
    <3>2. 0 <= token
      BY <1>3
    <3> QED BY <1>3, <1>4, <3>1, <3>2, CommitRows
  <2> QED BY <1>1, <1>3, <2>1 DEF RowsOK, InvOn, TypeOK
<1>6. WorkersOK' /\ ClaimInv'
  <2>1. \A id \in Ids : rows'[id].lease_token = 0 \/ SameRow(id)
    BY CommitRows DEF SameRow
  <2>2. wk' \in [Workers -> Worker] /\ seq <= seq'
          /\ \A w \in Workers : wk'[w].batch \subseteq wk[w].batch
    BY <1>1, <1>3 DEF InvOn, TypeOK
  <2>3. PICK R : InvOn(R)
    OBVIOUS
  <2> QED BY <1>1, <1>5, <2>1, <2>2, <2>3, ClaimsStay
<1>7. TypeOK'
  <2>1. notBefore' \in [Ids -> Nat]
    <3>1. \A id \in Ids : notBefore'[id] \in {notBefore[id], 0}
      BY CommitRows
    <3> QED BY <1>1, <3>1 DEF InvOn, TypeOK
  <2> QED BY <1>1, <1>5, <1>6, <2>1 DEF InvOn, TypeOK, RowsOK, WorkersOK
<1>8. PlanInv'
  BY <1>1 DEF PlanInv, Plan, InTransport, InvOn
<1>9. PublishedWasDelivered' /\ DataUntilSettled'
  BY <1>1, CommitRows DEF PublishedWasDelivered, DataUntilSettled, InvOn
<1>10. RetryBelowCeiling'
  BY CommitRows DEF RetryBelowCeiling, LimitOf, InvOn
<1>11. DueInv'
  <2>1. \A id \in Ids : rows'[id].next_attempt_at \in Nat
    BY <1>5 DEF RowsOK, Row
  <2> QED BY <2>1, CommitRows DEF DueInv, InvOn
<1>12. SeqInv'
  <2> SUFFICES ASSUME NEW a \in Ids, NEW b \in Ids, Present(a)', Present(b)',
                      rows'[a].seq = rows'[b].seq
               PROVE  a = b
    BY <1>1 DEF SeqInv, InvOn
  <2>1. ASSUME NEW x \in Ids, Present(x)', tx[c].ins[x] = 0
        PROVE  Present(x) /\ rows'[x].seq = rows[x].seq /\ Taken(rows'[x].seq)
    <3>1. Present(x) /\ rows'[x].seq = rows[x].seq
      BY <2>1, CommitRows DEF Present
    <3> QED BY <3>1 DEF Taken
  <2>2. ASSUME NEW x \in Ids, tx[c].ins[x] # 0
        PROVE  /\ rows'[x].seq = tx[c].ins[x] /\ ~Taken(rows'[x].seq)
               /\ Drew(c, x, rows'[x].seq) /\ rows'[x].seq \in Nat
    BY <1>4, <2>2, CommitRows
  <2>3. CASE tx[c].ins[a] = 0 /\ tx[c].ins[b] = 0
    BY <2>1, <2>3 DEF SeqInv, InvOn
  <2>4. CASE tx[c].ins[a] # 0 /\ tx[c].ins[b] # 0
    BY <2>2, <2>4 DEF DrawInv
  <2> QED BY <2>1, <2>2, <2>3, <2>4
<1>13. HeadOn(SameTx)'
  <2> SUFFICES ASSUME Ordered, NEW a \in Ids, NEW b \in Ids,
                      origin'[a] = origin'[b], Present(a)', Present(b)',
                      SameKey(a, b), Before(a, b)', Touched(b)'
               PROVE  rows'[a].status \in {"published", "discarded"}
    BY DEF HeadOn, SameTx, SameKey
  <2>1. tx[c].ins[b] = 0
    <3> SUFFICES ASSUME tx[c].ins[b] # 0 PROVE FALSE
      OBVIOUS
    <3>1. rows'[b].status = "pending" /\ rows'[b].seq = tx[c].ins[b]
      BY CommitRows
    <3>2. ~Taken(rows'[b].seq)
      BY <1>4, <3>1
    <3>3. <<b, rows'[b].seq>>[2] = rows'[b].seq
      OBVIOUS
    <3> QED BY <1>1, <3>1, <3>2, <3>3 DEF Touched, Taken
  <2>2. /\ Present(b) /\ origin'[b] = origin[b] /\ rows'[b].seq = rows[b].seq
        /\ rows'[b].created_at = rows[b].created_at
        /\ Touched(b)
    <3>1. CASE rows[b].status = "dead"
      BY <2>1, <3>1, CommitRows DEF Present, Touched
    <3>2. CASE rows[b].status # "dead"
      BY <1>1, <2>1, <3>2, CommitRows DEF Present, Touched
    <3> QED BY <3>1, <3>2
  <2>3. tx[c].ins[a] = 0
    <3> SUFFICES ASSUME tx[c].ins[a] # 0 PROVE FALSE
      OBVIOUS
    <3>1. origin[b] = tx[c].n
      BY <2>2, CommitRows
    <3> QED BY <1>1, <2>2, <3>1 DEF OriginInv
  <2>4. /\ Present(a) /\ origin'[a] = origin[a] /\ rows'[a].seq = rows[a].seq
        /\ rows'[a].created_at = rows[a].created_at
        /\ rows[a].status = "dead" \/ rows'[a].status = rows[a].status
    BY <2>3, CommitRows DEF Present
  <2>5. Before(a, b) /\ <<a, b>> \in SameTx
    BY <2>2, <2>4 DEF Before, SameTx
  <2>6. rows[a].status \in {"published", "discarded"}
    BY <2>2, <2>4, <2>5 DEF InvOn, HeadOn
  <2> QED BY <2>4, <2>6
<1>14. InvOn(SameTx)'
  BY <1>6, <1>7, <1>8, <1>9, <1>10, <1>11, <1>12, <1>13 DEF InvOn
<1>15. TxTypes'
  <2>1. \A id \in Ids : origin'[id] \in {origin[id], tx[c].n}
    BY CommitRows
  <2>2. tx[c].n \in Nat
    BY TxFacts
  <2>3. origin' \in [Ids -> Nat]
    BY <1>1, <2>1, <2>2 DEF TxTypes
  <2>4. tx' \in [Callers -> Tx]
    BY <1>1, NoTxType DEF TxTypes
  <2> QED BY <1>1, <1>2, <1>3, <2>3, <2>4, NoTxType DEF TxTypes
<1>16. HoldInv'
  <2>1. \A id \in Ids : ~HeldBy(c, id)'
    BY <1>2, NoTxType DEF HeldBy
  <2>2. ASSUME NEW d \in Callers, NEW id \in Ids, HeldBy(d, id)'
        PROVE  d # c /\ HeldBy(d, id) /\ rows'[id] = rows[id]
    <3>1. d # c /\ HeldBy(d, id)
      BY <1>2, <2>1, <2>2 DEF HeldBy
    <3>2. ~HeldBy(c, id)
      BY <3>1 DEF HoldInv
    <3> QED BY <3>1, <3>2 DEF HeldBy, Commit
  <2> QED BY <1>2, <2>2 DEF HoldInv, ReplayKept, Present, HeldBy
<1>17. DrawInv'
  <2>1. ASSUME NEW d \in Callers, NEW id \in Ids, NEW n \in Nat, Drew(d, id, n)'
        PROVE  d # c /\ Drew(d, id, n)
    BY <1>2, <2>1, NoTxType DEF Drew
  <2>2. ASSUME NEW n, Taken(n)' PROVE Taken(n) \/ \E id \in Ids : Drew(c, id, n)
    <3>1. ASSUME NEW id \in Ids, Present(id)', rows'[id].seq = n
          PROVE  Taken(n) \/ Drew(c, id, n)
      BY <1>4, <3>1, CommitRows DEF Taken, Present
    <3> QED BY <1>1, <2>2, <3>1 DEF Taken
  <2> QED BY <1>1, <2>1, <2>2 DEF DrawInv
<1>18. OriginInv'
  <2>1. ASSUME NEW a \in Ids, Present(a)'
        PROVE  \/ /\ tx[c].ins[a] # 0 /\ origin'[a] = tx[c].n
                  /\ rows'[a].created_at = tx[c].start
               \/ /\ Present(a) /\ origin'[a] = origin[a]
                  /\ rows'[a].created_at = rows[a].created_at
                  /\ origin[a] # tx[c].n
    BY <1>1, <2>1, CommitRows DEF Present, OriginInv
  <2>2. /\ \A d \in Callers : tx'[d].n # 0 => d # c /\ tx'[d].n = tx[d].n
        /\ tx[c].n <= txs
    BY <1>2, NoTxType DEF TxTypes
  <2>3. \A a \in Ids : Present(a)' => origin'[a] <= txs'
    BY <1>1, <2>1, <2>2 DEF OriginInv
  <2>4. \A a \in Ids, d \in Callers : Present(a)' /\ tx'[d].n # 0 => origin'[a] # tx'[d].n
    BY <1>1, <2>1, <2>2 DEF OriginInv
  <2>5. \A a, b \in Ids :
          Present(a)' /\ Present(b)' /\ origin'[a] = origin'[b]
            => rows'[a].created_at = rows'[b].created_at
    BY <2>1 DEF OriginInv
  <2> QED BY <1>1, <2>2, <2>3, <2>4, <2>5 DEF OriginInv
<1> QED BY <1>14, <1>15, <1>16, <1>17, <1>18

-----------------------------------------------------------------------------
(***************************************************************************)
(* Invariance                                                              *)
(***************************************************************************)

\* Every step of every actor keeps the invariant.
LEMMA TxNextInv == TxInv /\ [TxNext]_txVars => TxInv'
<1> SUFFICES ASSUME TxInv, [TxNext]_txVars PROVE TxInv'
  OBVIOUS
<1>1. ASSUME NEW c \in Callers, Begin(c) \/ Rollback(c) \/ DeadlockAbort(c)
      PROVE  TxInv'
  BY <1>1, EndsStep
<1>2. CASE UNCHANGED txVars
  <2>1. UNCHANGED <<vars, tx, txs, origin>>
    BY <1>2 DEF txVars
  <2>2. UNCHANGED <<rows, clock, seq, token, wk, delivered, notBefore>>
    BY <2>1 DEF vars
  <2>3. NothingNew
    BY <2>2 DEF NothingNew, Present, Taken
  <2>4. \A R : InvOn(R) => InvOn(R)'
    BY <2>1, IdleStep
  <2> QED BY <2>1, <2>2, <2>3, <2>4, RelayStep
<1> QED BY <1>1, <1>2, ResumeStep, CommitStep, TxEnqueueStep, TxRequeueStep,
           TxClaimStep, TxBatchStep, TxCleanupStep, TxTimeStep DEF TxNext

\* Every reachable state satisfies the invariant.
LEMMA TxInvariance == TxSpec => []TxInv
  BY TxInitInv, TxNextInv, PTL DEF TxSpec

\* A replay reported to its caller takes effect if the caller commits: neither
\* worker, cleaner nor another caller touches the row that Requeue has updated
\* before its transaction ends.
THEOREM ReplaysKept == TxSpec => []ReplayKept
<1>1. TxInv => ReplayKept
  BY DEF TxInv, HoldInv
<1> QED BY <1>1, TxInvariance, PTL

\* In ordered mode the rows one transaction enqueued are delivered in their
\* order, whichever transactions start, commit or roll back around it.
THEOREM OrderOfTransaction == TxSpec => []InsertionOrder
<1>1. TxInv => InsertionOrder
  <2> SUFFICES ASSUME TxInv, Ordered, NEW a \in Ids, NEW b \in Ids,
                      Present(a), Present(b), SameKey(a, b), origin[a] = origin[b],
                      rows[a].seq < rows[b].seq, <<b, rows[b].seq>> \in delivered
               PROVE  \/ <<a, rows[a].seq>> \in delivered
                      \/ rows[a].status = "discarded"
    BY DEF InsertionOrder
  <2>1. rows[a].created_at = rows[b].created_at
    BY DEF TxInv, OriginInv
  <2>2. Before(a, b) /\ Touched(b) /\ <<a, b>> \in SameTx
    BY <2>1 DEF Before, Touched, SameTx
  <2>3. rows[a].status \in {"published", "discarded"}
    BY <2>2 DEF TxInv, InvOn, HeadOn
  <2> QED BY <2>3 DEF TxInv, InvOn, PublishedWasDelivered
<1> QED BY <1>1, TxInvariance, PTL

\* Callers' transactions take nothing from what the relay promises: published
\* rows were delivered, rows keep their data until they are settled, and none
\* waits at or above its attempt ceiling.
THEOREM RelayUnderTransactions ==
  TxSpec => [](PublishedWasDelivered /\ DataUntilSettled /\ RetryBelowCeiling)
<1>1. TxInv => PublishedWasDelivered /\ DataUntilSettled /\ RetryBelowCeiling
  BY DEF TxInv, InvOn
<1> QED BY <1>1, TxInvariance, PTL

\* A commit changes rows as an enqueue and a requeue do, whatever else happened
\* since the statements ran: rows it inserts were absent, rows it requeues dead.
LEMMA CommitChanges ==
  ASSUME TxInv, NEW c \in Callers, Commit(c), NEW id \in Ids, rows'[id] # rows[id]
  PROVE  RowChange(id)
<1>1. rows'[id] = IF tx[c].ins[id] # 0 THEN NewRow(tx[c].start, tx[c].ins[id])
                  ELSE IF tx[c].re[id] # 0 THEN Requeued(rows[id], tx[c].re[id])
                  ELSE rows[id]
  BY DEF Commit
<1>2. rows[id] \in Row
  BY DEF TxInv, InvOn, TypeOK
<1>3. CASE tx[c].ins[id] # 0
  <2>1. rows[id].status = "absent"
    BY <1>3 DEF TxInv, HoldInv, Present
  <2>2. rows'[id].status = "pending"
    BY <1>1, <1>3 DEF NewRow, NoRow
  <2> QED BY <2>1, <2>2 DEF RowChange
<1>4. CASE tx[c].ins[id] = 0 /\ tx[c].re[id] # 0
  <2>1. rows[id].status = "dead"
    BY <1>4 DEF TxInv, HoldInv, ReplayKept
  <2>2. rows'[id].status = "pending"
    BY <1>1, <1>2, <1>4 DEF Requeued, Row
  <2> QED BY <2>1, <2>2 DEF RowChange
<1> QED BY <1>1, <1>3, <1>4

\* With transactions too a row changes in no other way.
LEMMA TxRowChanges ==
  ASSUME TxInv, [TxNext]_txVars, NEW id \in Ids, rows'[id] # rows[id]
  PROVE  RowChange(id)
<1>1. TypeOK /\ PlanInv
  BY DEF TxInv, InvOn
<1>2. ASSUME NEW c \in Callers, Commit(c) PROVE RowChange(id)
  BY <1>2, CommitChanges
<1>3. ASSUME NEW w \in Workers, ClaimUnlocked(w, Locked) PROVE RowChange(id)
  BY <1>1, <1>3, ClaimChanges
<1>4. ASSUME NEW w \in Workers, BatchStep(w) PROVE RowChange(id)
  BY <1>1, <1>4, BatchChanges
<1>5. CASE TxCleanup
  BY <1>5, CleanupChanges DEF TxCleanup
<1>6. ASSUME NEW c \in Callers,
             \/ Begin(c) \/ Resume(c) \/ Rollback(c) \/ DeadlockAbort(c)
             \/ \E i \in Ids : TxEnqueue(c, i) \/ TxRequeue(c, i)
      PROVE  FALSE
  BY <1>6 DEF Begin, Resume, Rollback, DeadlockAbort, TxEnqueue, TxRequeue, vars
<1>7. CASE Time \/ UNCHANGED txVars
  BY <1>7 DEF Time, Tick, txVars, vars
<1> QED BY <1>2, <1>3, <1>4, <1>5, <1>6, <1>7 DEF TxNext

\* Leases fence attempts and expire for good, no attempt starts before a recorded
\* time or within another's lease, and the cleaner drops nothing, also while transactions insert and replay rows under
\* locks and commit them late.
THEOREM LeasesUnderTransactions ==
  TxSpec => LiveAttemptIsFenced /\ ExpiredIsFinal /\ RetryNotEarly /\ NothingDropped
<1>1. TxInv /\ [TxNext]_txVars =>
        \A id \in Ids :
          /\ /\ rows[id].status = "processing" /\ rows[id].locked_until > clock
             /\ \/ rows'[id].status # "processing"
                \/ rows'[id].lease_token # rows[id].lease_token
             => EndedByHolder(id)
          /\ /\ rows[id].status = "processing" /\ rows[id].locked_until <= clock
             /\ rows'[id] # rows[id]
             => token' # token /\ rows'[id].lease_token = token'
          /\ /\ rows'[id].status = "processing"
             /\ rows'[id].lease_token # rows[id].lease_token
             => /\ clock >= notBefore[id]
                /\ rows[id].status = "processing" => rows[id].locked_until < clock
          /\ Present(id) /\ rows'[id].status = "absent"
               => \/ /\ rows[id].status = "published" /\ Retention > 0
                     /\ <<id, rows[id].seq>> \in delivered
                  \/ rows[id].status = "discarded" /\ DiscardRetention > 0
                  \/ rows[id].status = "dead" /\ DeadRetention > 0
  BY TxRowChanges, ChangesAllowed DEF TxInv, InvOn
<1>2. TxInv /\ [TxNext]_txVars =>
        /\ [\A id \in Ids :
              /\ rows[id].status = "processing" /\ rows[id].locked_until > clock
              /\ \/ rows'[id].status # "processing"
                 \/ rows'[id].lease_token # rows[id].lease_token
              => \E w \in Workers : /\ Holds(w, id)
                                    /\ wk[w].pc = "settling"
                                    /\ wk'[w] # wk[w]]_vars
        /\ [\A id \in Ids :
              /\ rows[id].status = "processing" /\ rows[id].locked_until <= clock
              /\ rows'[id] # rows[id]
              => token' # token /\ rows'[id].lease_token = token']_vars
        /\ [\A id \in Ids :
              /\ rows'[id].status = "processing"
              /\ rows'[id].lease_token # rows[id].lease_token
              => /\ clock >= notBefore[id]
                 /\ rows[id].status = "processing" => rows[id].locked_until < clock]_vars
        /\ [\A id \in Ids :
              Present(id) /\ rows'[id].status = "absent"
                => \/ /\ rows[id].status = "published" /\ Retention > 0
                      /\ <<id, rows[id].seq>> \in delivered
                   \/ rows[id].status = "discarded" /\ DiscardRetention > 0
                   \/ rows[id].status = "dead" /\ DeadRetention > 0]_vars
  BY <1>1 DEF EndedByHolder
<1> QED BY <1>2, TxInvariance, PTL DEF TxSpec, LiveAttemptIsFenced, ExpiredIsFinal,
           RetryNotEarly, NothingDropped

-----------------------------------------------------------------------------
(***************************************************************************)
(* The queue                                                               *)
(***************************************************************************)

\* A row as the queue sees it.
Seen(status) == IF status \in {"pending", "processing"} THEN "queued" ELSE status

\* Steps that neither settle, insert nor delete a row, and hand nothing over.
LEMMA TxInvisible ==
  ASSUME \A id \in Ids : Seen(rows'[id].status) = Seen(rows[id].status)
                           /\ rows'[id].seq = rows[id].seq,
         delivered' = delivered
  PROVE  UNCHANGED TxQueue!vars
<1>1. QueueState' = QueueState
  BY DEF QueueState, Seen
<1>2. \A id \in Ids : Present(id)' <=> Present(id)
  BY DEF Present, Seen
<1>3. QueueReceived' = QueueReceived
  BY <1>2 DEF QueueReceived
<1> QED BY <1>1, <1>3 DEF TxQueue!vars

\* The empty table is the empty queue.
LEMMA TxQueueInit == TxInit => TxQueue!Init
<1> SUFFICES ASSUME TxInit PROVE TxQueue!Init
  OBVIOUS
<1>1. \A id \in Ids : rows[id].status = "absent"
  BY DEF TxInit, Init, StoreInit, NoRow
<1>2. QueueState = [id \in Ids |-> "absent"] /\ QueueReceived = {}
  BY <1>1 DEF QueueState, QueueReceived, Present
<1> QED BY <1>2 DEF TxQueue!Init

\* Claims and renewals leave a row queued.
LEMMA TxLeasesInvisible ==
  ASSUME TxInv, NEW w \in Workers,
         ClaimUnlocked(w, Locked) \/ Renew(w) \/ RenewLost(w)
  PROVE  UNCHANGED TxQueue!vars
<1>1. rows \in [Ids -> Row]
  BY DEF TxInv, InvOn, TypeOK
<1>2. delivered' = delivered
  BY DEF ClaimUnlocked, Renew, RenewLost
<1>3. CASE ClaimUnlocked(w, Locked)
  <2>1. PICK S \in SUBSET Ids : Selected(S, Locked) /\ claim(S)
    BY <1>3 DEF ClaimUnlocked
  <2>2. \A id \in S : rows[id].status \in {"pending", "processing"}
    BY <2>1 DEF Selected, Claimable
  <2>3. PICK until \in [S -> Deadline] :
          rows' = [id \in Ids |->
            IF id \in S
            THEN [rows[id] EXCEPT !.status = "processing",
                                  !.locked_until = until[id],
                                  !.lease_token = token + 1,
                                  !.attempts = rows[id].attempts + 1]
            ELSE rows[id]]
    BY <2>1 DEF claim
  <2>4. \A id \in S : rows'[id].status = "processing" /\ rows'[id].seq = rows[id].seq
    BY <1>1, <2>3 DEF Row
  <2>5. \A id \in Ids \ S : rows'[id] = rows[id]
    BY <2>3
  <2> QED BY <1>2, <2>2, <2>4, <2>5, TxInvisible DEF Seen
<1>4. CASE Renew(w) \/ RenewLost(w)
  <2>1. renew(wk[w].batch)
    BY <1>4 DEF Renew, RenewLost
  <2>2. \A id \in Ids : rows'[id].status = rows[id].status
                        /\ rows'[id].seq = rows[id].seq
    BY <1>1, <2>1 DEF renew, Row
  <2> QED BY <1>2, <2>2, TxInvisible
<1> QED BY <1>3, <1>4

\* Handing a message over is a receipt if its row is still the one claimed.
LEMMA TxDeliverReceives ==
  ASSUME TxInv, NEW w \in Workers, Deliver(w)
  PROVE  [TxQueue!Next]_(TxQueue!vars)
<1>1. PICK m \in wk[w].batch : delivered' = delivered \cup {<<m.id, m.row>>}
  BY DEF Deliver
<1>2. rows' = rows
  BY DEF Deliver
<1>3. m.id \in Ids
  BY MessageFacts DEF TxInv, InvOn
<1>4. QueueState' = QueueState
  BY <1>2 DEF QueueState
<1>5. CASE Present(m.id) /\ rows[m.id].seq = m.row
  <2>1. QueueReceived' = QueueReceived \cup {m.id}
    BY <1>1, <1>2, <1>3, <1>5 DEF QueueReceived, Present
  <2>2. QueueState[m.id] # "absent"
    BY <1>3, <1>5 DEF QueueState, Present
  <2>3. TxQueue!Receive(m.id)
    BY <1>3, <1>4, <2>1, <2>2 DEF TxQueue!Receive
  <2> QED BY <1>3, <2>3 DEF TxQueue!Next
<1>6. CASE ~(Present(m.id) /\ rows[m.id].seq = m.row)
  <2>1. QueueReceived' = QueueReceived
    BY <1>1, <1>2, <1>6 DEF QueueReceived, Present
  <2> QED BY <1>4, <2>1 DEF TxQueue!vars
<1> QED BY <1>5, <1>6

\* A finish statement settles the rows it still owns; a retry leaves them queued.
LEMMA TxCompleteSettles ==
  ASSUME TxInv, NEW w \in Workers, Complete(w)
  PROVE  [TxQueue!Next]_(TxQueue!vars)
<1>1. PICK g \in wk[w].todo : finish(g.msgs, g.status, g.delay)
  BY DEF Complete
<1>2. delivered' = delivered
  BY DEF Complete
<1>3. Plan(g, wk[w].batch)
  BY DEF TxInv, InvOn, PlanInv
<1>4. rows \in [Ids -> Row]
  BY DEF TxInv, InvOn, TypeOK
<1> DEFINE S == {id \in Ids : OwnedIn(id, g.msgs)}
<1>5. \A id \in Ids : /\ rows'[id].seq = rows[id].seq
                      /\ rows'[id].status = IF id \in S THEN g.status ELSE rows[id].status
  BY <1>1, <1>4 DEF finish, Finished, Row
<1>6. \A id \in S : rows[id].status = "processing"
  BY DEF OwnedIn, Owned
<1>7. CASE g.status = "pending"
  BY <1>2, <1>5, <1>6, <1>7, TxInvisible DEF Seen
<1>8. CASE g.status \in {"published", "dead", "discarded"}
  <2>1. QueueState' = [id \in Ids |-> IF id \in S THEN g.status ELSE QueueState[id]]
    BY <1>5, <1>8 DEF QueueState
  <2>2. \A id \in Ids : Present(id)' <=> Present(id)
    BY <1>5, <1>6, <1>8 DEF Present
  <2>3. QueueReceived' = QueueReceived
    BY <1>2, <1>5, <2>2 DEF QueueReceived
  <2>4. \A id \in S : QueueState[id] = "queued"
    BY <1>6 DEF QueueState
  <2>5. ASSUME g.status = "published", NEW id \in S PROVE id \in QueueReceived
    <3>1. PICK m \in g.msgs : m.id = id /\ Owned(m)
      BY DEF OwnedIn
    <3>2. m \in wk[w].batch /\ InTransport(m)
      BY <1>3, <2>5 DEF Plan
    <3>3. rows[id].seq = m.row
      BY <3>1, <3>2 DEF TxInv, InvOn, ClaimInv, Owned
    <3> QED BY <1>6, <3>1, <3>2, <3>3 DEF InTransport, QueueReceived, Present
  <2>6. TxQueue!Settle(S, g.status)
    BY <2>1, <2>3, <2>4, <2>5 DEF TxQueue!Settle
  <2> QED BY <1>8, <2>6 DEF TxQueue!Next, TxQueue!Settled
<1> QED BY <1>3, <1>7, <1>8 DEF Plan

\* A commit accepts the messages it inserts and the replays it makes, together.
LEMMA CommitAccepts ==
  ASSUME TxInv, NEW c \in Callers, Commit(c)
  PROVE  [TxQueue!Next]_(TxQueue!vars)
<1> DEFINE put == {id \in Ids : tx[c].ins[id] # 0}
           replay == {id \in Ids : tx[c].ins[id] = 0 /\ tx[c].re[id] # 0}
<1>1. \A id \in put : ~Present(id) /\ QueueState[id] = "absent"
  BY DEF TxInv, HoldInv, Present, QueueState
<1>2. \A id \in replay : rows[id].status = "dead" /\ QueueState[id] = "dead"
  BY DEF TxInv, HoldInv, ReplayKept, QueueState
<1>3. \A id \in Ids : rows'[id].status = IF id \in put \cup replay THEN "pending"
                                         ELSE rows[id].status
  <2> SUFFICES ASSUME NEW id \in Ids
               PROVE  rows'[id].status = IF id \in put \cup replay THEN "pending"
                                         ELSE rows[id].status
    OBVIOUS
  <2>1. CASE id \in put
    BY <2>1, CommitRows
  <2>2. CASE id \in replay
    <3>1. rows'[id] = Requeued(rows[id], tx[c].re[id])
      BY <2>2 DEF Commit
    <3>2. rows[id] \in Row
      BY DEF TxInv, InvOn, TypeOK
    <3> QED BY <2>2, <3>1, <3>2 DEF Requeued, Row
  <2>3. CASE id \notin put \cup replay
    BY <2>3 DEF Commit
  <2> QED BY <2>1, <2>2, <2>3
<1>4. QueueState' = [id \in Ids |-> IF id \in put \cup replay THEN "queued"
                                   ELSE QueueState[id]]
  BY <1>3 DEF QueueState
<1>5. QueueReceived' = QueueReceived
  <2>1. delivered' = delivered
    BY DEF Commit
  <2>2. ASSUME NEW id \in put PROVE id \notin QueueReceived /\ id \notin QueueReceived'
    <3>1. rows'[id].seq = tx[c].ins[id]
      BY CommitRows
    <3>2. Drew(c, id, tx[c].ins[id]) /\ tx[c].ins[id] \in Nat
      BY TxFacts DEF Drew, TxInv
    <3>3. ~Taken(tx[c].ins[id])
      BY <3>2 DEF TxInv, DrawInv
    <3>4. <<id, tx[c].ins[id]>> \notin delivered
      BY <3>3 DEF Taken
    <3> QED BY <1>1, <2>1, <3>1, <3>4 DEF QueueReceived
  <2>3. ASSUME NEW id \in Ids \ put
        PROVE  id \in QueueReceived' <=> id \in QueueReceived
    <3>1. rows'[id].seq = rows[id].seq /\ (Present(id)' <=> Present(id))
      BY CommitRows DEF Present
    <3> QED BY <2>1, <3>1 DEF QueueReceived
  <2>4. QueueReceived' \subseteq Ids /\ QueueReceived \subseteq Ids
    BY DEF QueueReceived
  <2> HIDE DEF put
  <2> QED BY <2>2, <2>3, <2>4
<1>6. put \in SUBSET Ids /\ replay \in SUBSET Ids
  OBVIOUS
<1> HIDE DEF put, replay
<1>7. [id \in Ids |-> {}] = [id \in Ids |->
        IF id \in put THEN {a \in Ids : QueueState[a] # "absent" /\ TxQueue!SameKey(a, id)}
                      ELSE [x \in Ids |-> {}][id]]
  BY <1>6 DEF TxQueue!SameKey
<1>8. TxQueue!Accept(put, replay)
  BY <1>1, <1>2, <1>4, <1>5, <1>7 DEF TxQueue!Accept
<1> QED BY <1>6, <1>8 DEF TxQueue!Next

\* The cleaner forgets settled messages whose retention is switched on.
LEMMA TxCleanupForgets ==
  ASSUME TxInv, TxCleanup
  PROVE  [TxQueue!Next]_(TxQueue!vars)
<1>1. PICK S \in SUBSET Ids : CleanupSet(S, Locked) /\ cleanup(S)
  BY DEF TxCleanup
<1>2. delivered' = delivered
  BY DEF TxCleanup
<1>3. \A id \in Ids : IF id \in S THEN rows'[id].status = "absent"
                                  ELSE rows'[id] = rows[id]
  BY <1>1 DEF cleanup, NoRow
<1>4. \A id \in S : Removable(id)
  BY <1>1 DEF CleanupSet
<1>5. \A id \in S : QueueState[id] \in QueueForgettable
  BY <1>4 DEF Removable, OlderThan, QueueForgettable, QueueState
<1>6. QueueState' = [id \in Ids |-> IF id \in S THEN "absent" ELSE QueueState[id]]
  BY <1>3 DEF QueueState
<1>7. QueueReceived' = QueueReceived \ S
  BY <1>2, <1>3 DEF QueueReceived, Present
<1>8. [id \in Ids |-> {}]
        = [id \in Ids |-> IF id \in S THEN {} ELSE [x \in Ids |-> {}][id] \ S]
  OBVIOUS
<1>9. TxQueue!Forget(S)
  BY <1>5, <1>6, <1>7, <1>8 DEF TxQueue!Forget
<1> QED BY <1>9 DEF TxQueue!Next

\* Every step is one of the queue or invisible to it.
LEMMA TxQueueStep == TxInv /\ [TxNext]_txVars => [TxQueue!Next]_(TxQueue!vars)
<1> SUFFICES ASSUME TxInv, [TxNext]_txVars PROVE [TxQueue!Next]_(TxQueue!vars)
  OBVIOUS
<1>1. ASSUME NEW w \in Workers,
             ClaimUnlocked(w, Locked) \/ Renew(w) \/ RenewLost(w)
      PROVE  UNCHANGED TxQueue!vars
  BY <1>1, TxLeasesInvisible
<1>2. ASSUME rows' = rows, delivered' = delivered
      PROVE  UNCHANGED TxQueue!vars
  BY <1>2, TxInvisible
<1>3. ASSUME NEW w \in Workers,
             \/ RenewError(w) \/ ContextDone(w) \/ PublishReturns(w)
             \/ PublishReturnsEach(w) \/ Abandon(w) \/ CompleteError(w) \/ Stop(w)
      PROVE  UNCHANGED TxQueue!vars
  <2>1. rows' = rows /\ delivered' = delivered
    BY <1>3 DEF RenewError, ContextDone, PublishReturns, PublishReturnsEach,
       Abandon, CompleteError, Stop, StartSettling
  <2> QED BY <1>2, <2>1
<1>4. ASSUME NEW c \in Callers,
             \/ Begin(c) \/ Resume(c) \/ Rollback(c) \/ DeadlockAbort(c)
             \/ \E id \in Ids : TxEnqueue(c, id) \/ TxRequeue(c, id)
      PROVE  UNCHANGED TxQueue!vars
  <2>1. rows' = rows /\ delivered' = delivered
    BY <1>4 DEF Begin, Resume, Rollback, DeadlockAbort, TxEnqueue, TxRequeue, vars
  <2> QED BY <1>2, <2>1
<1>5. ASSUME Time \/ UNCHANGED txVars PROVE UNCHANGED TxQueue!vars
  <2>1. rows' = rows /\ delivered' = delivered
    BY <1>5 DEF Time, Tick, txVars, vars
  <2> QED BY <1>2, <2>1
<1>6. ASSUME NEW w \in Workers, Deliver(w) PROVE [TxQueue!Next]_(TxQueue!vars)
  BY <1>6, TxDeliverReceives
<1>7. ASSUME NEW w \in Workers, Complete(w) PROVE [TxQueue!Next]_(TxQueue!vars)
  BY <1>7, TxCompleteSettles
<1>8. ASSUME NEW c \in Callers, Commit(c) PROVE [TxQueue!Next]_(TxQueue!vars)
  BY <1>8, CommitAccepts
<1> QED BY <1>1, <1>3, <1>4, <1>5, <1>6, <1>7, <1>8, TxCleanupForgets
           DEF TxNext, BatchStep

\* With callers' transactions the table still implements the queue, except for
\* its order: what a transaction enqueues and replays enters it together, when
\* it commits, or not at all, and no message is accepted twice under one id.
THEOREM TxRefinement == TxSpec => ImplementsTxQueue
  BY TxQueueInit, TxQueueStep, TxInvariance, PTL
     DEF TxSpec, ImplementsTxQueue, TxQueue!Spec

=============================================================================
