------------------------------ MODULE OutboxTx ------------------------------
(***************************************************************************)
(* Enqueue and Requeue inside the caller's transaction (outbox.go), run    *)
(* against the same relay workers and cleaner.                             *)
(*                                                                         *)
(* PostgreSQL is external and read committed: an insert is invisible until *)
(* its transaction commits, a requeued row is locked from the statement to *)
(* the end of the transaction, claim and cleanup skip locked rows, and     *)
(* now(), hence created_at, is the start of the transaction while seq is   *)
(* drawn by the insert statement.  A statement on an id or a row that      *)
(* another open transaction has written waits for that transaction to end, *)
(* and transactions that wait for each other are aborted.                  *)
(***************************************************************************)
EXTENDS Relay

CONSTANTS Callers, MaxTx   \* callers of the library; bound of begun transactions

ASSUME TxAssumption == MaxTx \in Nat

VARIABLES
  tx,      \* the transaction of each caller
  txs,     \* number of transactions begun
  origin   \* history: the transaction that inserted each row

txVars == <<vars, tx, txs, origin>>

\* n is 0 when the caller has no transaction.  ins is the seq of each message
\* inserted, re the time at which each dead row was requeued, 0 for the others.
\* wait is the statement, if any, that waits for another transaction: the id it
\* is about and the seq it has drawn, 0 for a requeue.
Tx == [n: Nat, start: Nat, ins: [Ids -> Nat], re: [Ids -> Nat],
       wait: SUBSET [id: Ids, seq: Nat]]

NoTx == [n |-> 0, start |-> 0, wait |-> {},
         ins |-> [id \in Ids |-> 0], re |-> [id \in Ids |-> 0]]

TxInit ==
  /\ Init
  /\ tx = [c \in Callers |-> NoTx]
  /\ txs = 0
  /\ origin = [id \in Ids |-> 0]

\* Rows an open transaction holds a lock on.
Locked == {id \in Ids : \E c \in Callers : tx[c].re[id] # 0}

\* The transaction of d has inserted or requeued id.
HeldBy(d, id) == tx[d].ins[id] # 0 \/ tx[d].re[id] # 0

\* Defect: an insert sees only what is committed.
Free_IgnoresOpen(id) == TRUE

\* No open transaction has written id.
Free(id) == \A d \in Callers : ~HeldBy(d, id)

\* The caller is in a transaction and not waiting for a statement.
Ready(c) == tx[c].n # 0 /\ tx[c].wait = {}

-----------------------------------------------------------------------------
Begin(c) ==
  /\ tx[c].n = 0
  /\ txs < MaxTx
  /\ txs' = txs + 1
  /\ tx' = [tx EXCEPT ![c] = [NoTx EXCEPT !.n = txs + 1, !.start = clock]]
  /\ UNCHANGED <<vars, origin>>

\* Enqueue, or one message of EnqueueBatch: an id that has a row, or that the
\* transaction itself has written, is skipped.  One that another transaction
\* has inserted, or whose row it is requeuing, is waited for.
TxEnqueue(c, id) ==
  /\ Ready(c) /\ seq < MaxSeq
  /\ seq' = seq + 1
  /\ \/ /\ Free(id) /\ ~Present(id)
        /\ tx' = [tx EXCEPT ![c].ins[id] = seq + 1]
     \/ /\ ~Free(id) /\ ~HeldBy(c, id)
        /\ tx' = [tx EXCEPT ![c].wait = {[id |-> id, seq |-> seq + 1]}]
  /\ UNCHANGED <<rows, clock, token, wk, delivered, notBefore, txs, origin>>

\* Requeue of a dead row, which is now locked.
TxRequeue(c, id) ==
  /\ Ready(c)
  /\ rows[id].status = "dead"
  /\ \/ Free(id) /\ tx' = [tx EXCEPT ![c].re[id] = clock]
     \/ /\ ~Free(id) /\ ~HeldBy(c, id)
        /\ tx' = [tx EXCEPT ![c].wait = {[id |-> id, seq |-> 0]}]
  /\ UNCHANGED <<vars, txs, origin>>

\* The transaction waited for has ended.  An insert whose id has a row now does
\* nothing, nor does a requeue whose row is no longer dead (it reports false).
Resume(c) ==
  /\ \E w \in tx[c].wait :
       /\ Free(w.id)
       /\ tx' = [tx EXCEPT
            ![c].wait = {},
            ![c].ins[w.id] = IF w.seq # 0 /\ ~Present(w.id) THEN w.seq ELSE @,
            ![c].re[w.id] = IF w.seq = 0 /\ rows[w.id].status = "dead"
                            THEN clock ELSE @]
  /\ UNCHANGED <<vars, txs, origin>>

Commit(c) ==
  /\ Ready(c)
  /\ rows' = [id \in Ids |->
       IF tx[c].ins[id] # 0 THEN NewRow(tx[c].start, tx[c].ins[id])
       ELSE IF tx[c].re[id] # 0 THEN Requeued(rows[id], tx[c].re[id])
       ELSE rows[id]]
  /\ origin' = [id \in Ids |-> IF tx[c].ins[id] # 0 THEN tx[c].n ELSE origin[id]]
  /\ notBefore' = [id \in Ids |->
       IF tx[c].ins[id] # 0 \/ tx[c].re[id] # 0 THEN 0 ELSE notBefore[id]]
  /\ tx' = [tx EXCEPT ![c] = NoTx]
  /\ UNCHANGED <<clock, seq, token, wk, delivered, txs>>

\* Each of a group of transactions waits for another of the group.
Deadlocked(c) ==
  \E G \in SUBSET Callers :
    /\ c \in G
    /\ \A d \in G : \E w \in tx[d].wait, e \in G \ {d} : HeldBy(e, w.id)

\* PostgreSQL fails the statement of one of them, and with it the transaction.
DeadlockAbort(c) ==
  /\ Deadlocked(c)
  /\ tx' = [tx EXCEPT ![c] = NoTx]
  /\ UNCHANGED <<vars, txs, origin>>

\* The caller gives up, or its process or connection ends.
Rollback(c) ==
  /\ tx[c].n # 0
  /\ tx' = [tx EXCEPT ![c] = NoTx]
  /\ UNCHANGED <<vars, txs, origin>>

\* Defect: cleanup deletes whatever is old enough, locked or not.
TxCleanup_IgnoresLocks ==
  /\ \E S \in (SUBSET Ids) \ {{}} : CleanupSet(S, {}) /\ cleanup(S)
  /\ UNCHANGED <<wk, delivered, notBefore, tx, txs, origin>>

TxCleanup ==
  /\ \E S \in (SUBSET Ids) \ {{}} : CleanupSet(S, Locked) /\ cleanup(S)
  /\ UNCHANGED <<wk, delivered, notBefore, tx, txs, origin>>

TxNext ==
  \/ \E c \in Callers :
       \/ Begin(c) \/ Resume(c) \/ Commit(c) \/ Rollback(c) \/ DeadlockAbort(c)
       \/ \E id \in Ids : TxEnqueue(c, id) \/ TxRequeue(c, id)
  \/ \E w \in Workers : ClaimUnlocked(w, Locked) /\ UNCHANGED <<tx, txs, origin>>
  \/ \E w \in Workers : BatchStep(w) /\ UNCHANGED <<tx, txs, origin>>
  \/ TxCleanup
  \/ Time /\ UNCHANGED <<tx, txs, origin>>

TxSpec == TxInit /\ [][TxNext]_txVars

-----------------------------------------------------------------------------
\* A replay that was reported to its caller takes effect if the caller commits:
\* until then nobody, the cleaner least of all, touches or deletes the row.
ReplayKept ==
  \A c \in Callers, id \in Ids : tx[c].re[id] # 0 => rows[id].status = "dead"

\* Rows written in one transaction keep their order in ordered mode, whichever
\* transactions start, commit or roll back around it.
InsertionOrder ==
  Ordered =>
    \A a, b \in Ids :
      /\ Present(a) /\ Present(b) /\ SameKey(a, b)
      /\ origin[a] = origin[b] /\ rows[a].seq < rows[b].seq
      /\ <<b, rows[b].seq>> \in delivered
      => \/ <<a, rows[a].seq>> \in delivered
         \/ rows[a].status = "discarded"

\* The comment on Store.Enqueue says that a duplicate never aborts the caller's
\* transaction: no caller is caught in a deadlock by ids others enqueue too.
DuplicateNeverAborts == \A c \in Callers : ~Deadlocked(c)

-----------------------------------------------------------------------------
\* The queue this implements: the one of Relay, but in no particular order, as
\* a transaction may commit rows older than those already received.
TxQueue == INSTANCE OutboxQueue
             WITH KeyOf <- [id \in Ids |-> NoKey],
                  Forgettable <- QueueForgettable, state <- QueueState,
                  ahead <- [id \in Ids |-> {}], received <- QueueReceived

\* A transaction's enqueues and replays enter the queue together when it
\* commits, or not at all, and no row is accepted twice under one id.
ImplementsTxQueue == TxQueue!Spec

=============================================================================
