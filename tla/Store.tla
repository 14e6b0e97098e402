------------------------------- MODULE Store -------------------------------
(***************************************************************************)
(* The outbox table and the statements engine/store.go runs on it.         *)
(*                                                                         *)
(* Each relay statement is one autocommitted SQL statement, so each is one *)
(* atomic step that reads `clock`; only lease deadlines, computed row by   *)
(* row with clock_timestamp(), may differ within a statement.  Columns no  *)
(* statement reads back (locked_by, last_error, topic, ...) are left out;  *)
(* payload and headers are the single flag `intact`.  A lease token is a   *)
(* number fresh for each claim statement: with the row's id it identifies  *)
(* one attempt, as the uuid drawn per row does in the code.                *)
(***************************************************************************)
EXTENDS Integers, FiniteSets

CONSTANTS
  Ids,                     \* message ids (the primary key)
  KeyOf, NoKey,            \* partition_key of each id; NoKey is SQL NULL
  BatchSize, LeaseDuration, Ordered, ClearPayloadOnComplete,
  Retention, DeadRetention, DiscardRetention,   \* 0 = disabled
  MaxSkew,                 \* bound of the clock's advance during a statement
  MaxClock, MaxSeq, MaxToken                    \* bounds of the three counters

ASSUME StoreAssumption ==
  /\ DOMAIN KeyOf = Ids
  /\ BatchSize \in Nat \ {0}
  /\ LeaseDuration \in Nat \ {0}
  /\ Ordered \in BOOLEAN
  /\ ClearPayloadOnComplete \in BOOLEAN
  /\ {Retention, DeadRetention, DiscardRetention} \subseteq Nat
  /\ {MaxSkew, MaxClock, MaxSeq, MaxToken} \subseteq Nat

VARIABLES
  rows,    \* the table: one row, possibly absent, per id
  clock,   \* the database clock
  seq,     \* last value of the bigserial sequence
  token    \* last lease token drawn

storeVars == <<rows, clock, seq, token>>

NULL == 0   \* SQL NULL; the clock and the tokens start at 1

Status == {"absent", "pending", "processing", "published", "dead", "discarded"}

Row == [status: Status, attempts: Nat, lease_token: Nat, locked_until: Nat,
        next_attempt_at: Nat, created_at: Nat, seq: Nat,
        published_at: Nat, finished_at: Nat, intact: BOOLEAN]

\* Marks an id that has no row in the table.
NoRow == [status |-> "absent", attempts |-> 0, lease_token |-> NULL,
          locked_until |-> NULL, next_attempt_at |-> NULL,
          created_at |-> NULL, seq |-> 0, published_at |-> NULL,
          finished_at |-> NULL, intact |-> FALSE]

\* The column defaults of a freshly inserted row; `start` is now(), the start
\* of the inserting transaction.
NewRow(start, n) ==
  [NoRow EXCEPT !.status = "pending", !.next_attempt_at = start,
                !.created_at = start, !.seq = n, !.intact = TRUE]

StoreInit ==
  /\ rows = [id \in Ids |-> NoRow]
  /\ clock = 1
  /\ seq = 0
  /\ token = NULL

Present(id) == rows[id].status # "absent"

\* Defect: rows of one transaction are not told apart by their seq.
Before_NoSeq(e, o) == rows[e].created_at < rows[o].created_at

\* (e.created_at, e.seq) < (o.created_at, o.seq)
Before(e, o) ==
  \/ rows[e].created_at < rows[o].created_at
  \/ rows[e].created_at = rows[o].created_at /\ rows[e].seq < rows[o].seq

SameKey(e, o) == KeyOf[o] # NoKey /\ KeyOf[e] = KeyOf[o]

-----------------------------------------------------------------------------
(***************************************************************************)
(* Enqueue: INSERT ... ON CONFLICT (id) DO NOTHING.  An id that has a row   *)
(* is skipped, which is a stuttering step here.                            *)
(***************************************************************************)
enqueue(id) ==
  /\ seq < MaxSeq
  /\ ~Present(id)
  /\ rows' = [rows EXCEPT ![id] = NewRow(clock, seq + 1)]
  /\ seq' = seq + 1
  /\ UNCHANGED <<clock, token>>

-----------------------------------------------------------------------------
(***************************************************************************)
(* claim                                                                   *)
(***************************************************************************)

\* Defect: a dead head no longer holds back its key.
Blocked_DeadPasses(id) ==
  \E e \in Ids : /\ SameKey(e, id)
                 /\ Before(e, id)
                 /\ rows[e].status \in {"pending", "processing"}

\* Defect: an earlier row being published no longer holds back its key.
Blocked_ProcessingPasses(id) ==
  \E e \in Ids : /\ SameKey(e, id)
                 /\ Before(e, id)
                 /\ rows[e].status \in {"pending", "dead"}

\* The NOT EXISTS of ordered mode: an unfinished earlier row of the same key.
Blocked(id) ==
  \E e \in Ids : /\ SameKey(e, id)
                 /\ Before(e, id)
                 /\ rows[e].status \notin {"absent", "published", "discarded"}

Expired(r) == r.locked_until # NULL /\ r.locked_until < clock

\* Defect: processing rows are claimed whether or not their lease is over.
Claimable_IgnoresLease(id) ==
  /\ rows[id].next_attempt_at <= clock
  /\ rows[id].status \in {"pending", "processing"}
  /\ Ordered => ~Blocked(id)

Claimable(id) ==
  /\ rows[id].next_attempt_at <= clock
  /\ \/ rows[id].status = "pending"
     \/ rows[id].status = "processing" /\ Expired(rows[id])
  /\ Ordered => ~Blocked(id)

\* ORDER BY created_at, seq FOR UPDATE SKIP LOCKED LIMIT BatchSize: S is the
\* first BatchSize claimable rows that no open transaction has locked.
Selected(S, locked) ==
  LET C == {id \in Ids \ locked : Claimable(id)}
  IN  /\ S \subseteq C
      /\ Cardinality(S) <= BatchSize
      /\ \A o \in C \ S : /\ Cardinality(S) = BatchSize
                          /\ \A e \in S : Before(e, o)

\* The deadlines clock_timestamp() gives the rows of one statement.
Deadline == clock + LeaseDuration .. clock + LeaseDuration + MaxSkew

\* Defect: the lease token is not drawn afresh for each claim.
claim_SameToken(S) ==
  /\ token < MaxToken
  /\ \E until \in [S -> Deadline] : rows' = [id \in Ids |->
       IF id \in S
       THEN [rows[id] EXCEPT !.status = "processing",
                             !.locked_until = until[id],
                             !.lease_token = token + 1,
                             !.attempts = rows[id].attempts + 1]
       ELSE rows[id]]
  /\ UNCHANGED <<clock, seq, token>>

claim(S) ==
  /\ token < MaxToken
  /\ \E until \in [S -> Deadline] : rows' = [id \in Ids |->
       IF id \in S
       THEN [rows[id] EXCEPT !.status = "processing",
                             !.locked_until = until[id],
                             !.lease_token = token + 1,
                             !.attempts = rows[id].attempts + 1]
       ELSE rows[id]]
  /\ token' = token + 1
  /\ UNCHANGED <<clock, seq>>

-----------------------------------------------------------------------------
(***************************************************************************)
(* renew and finish.  m is a claimed message: its id and its lease token.  *)
(***************************************************************************)

\* Defect: an expired lease still counts as owned.
Owned_Expired(m) ==
  /\ rows[m.id].lease_token = m.token
  /\ rows[m.id].status = "processing"

\* Defect: completion is fenced by the id alone.
Owned_NoToken(m) ==
  /\ rows[m.id].status = "processing"
  /\ rows[m.id].locked_until > clock

\* (id, lease_token) matches, status = 'processing' and the lease is unexpired.
Owned(m) ==
  /\ rows[m.id].lease_token = m.token
  /\ rows[m.id].status = "processing"
  /\ rows[m.id].locked_until > clock

OwnedIn(id, msgs) == \E m \in msgs : m.id = id /\ Owned(m)

renew(msgs) ==
  /\ \E until \in [{m.id : m \in msgs} -> Deadline] : rows' = [id \in Ids |->
       IF OwnedIn(id, msgs)
       THEN [rows[id] EXCEPT !.locked_until = until[id]]
       ELSE rows[id]]
  /\ UNCHANGED <<clock, seq, token>>

\* Defect: every completion clears the data, dead and retried rows included.
Finished_ClearsAll(r, status, delay) ==
  [r EXCEPT
     !.status = status,
     !.next_attempt_at = IF status = "pending" THEN clock + delay ELSE r.next_attempt_at,
     !.published_at = IF status = "published" THEN clock ELSE NULL,
     !.finished_at = IF status = "pending" THEN NULL ELSE clock,
     !.intact = r.intact /\ ~ClearPayloadOnComplete,
     !.locked_until = NULL,
     !.lease_token = NULL]

\* The SET list of finish.
Finished(r, status, delay) ==
  [r EXCEPT
     !.status = status,
     !.next_attempt_at = IF status = "pending" THEN clock + delay ELSE r.next_attempt_at,
     !.published_at = IF status = "published" THEN clock ELSE NULL,
     !.finished_at = IF status = "pending" THEN NULL ELSE clock,
     !.intact = r.intact /\ ~(ClearPayloadOnComplete
                        /\ status \in {"published", "discarded"}),
     !.locked_until = NULL,
     !.lease_token = NULL]

finish(msgs, status, delay) ==
  /\ rows' = [id \in Ids |-> IF OwnedIn(id, msgs)
                             THEN Finished(rows[id], status, delay)
                             ELSE rows[id]]
  /\ UNCHANGED <<clock, seq, token>>

-----------------------------------------------------------------------------
(***************************************************************************)
(* Requeue and cleanup                                                     *)
(***************************************************************************)

\* The SET list of Requeue, executed at time `at`.
Requeued(r, at) ==
  [r EXCEPT !.status = "pending", !.attempts = 0, !.next_attempt_at = at,
            !.finished_at = NULL, !.published_at = NULL,
            !.locked_until = NULL, !.lease_token = NULL]

\* A row that is not dead is left alone: a stuttering step.
requeue(id) ==
  /\ rows[id].status = "dead"
  /\ rows' = [rows EXCEPT ![id] = Requeued(rows[id], clock)]
  /\ UNCHANGED <<clock, seq, token>>

OlderThan(t, ttl) == ttl > 0 /\ t # NULL /\ t < clock - ttl

\* Defect: every finished row is under the retention of published rows, the
\* opt-in of its own status ignored.
Removable_AnyTerminal(id) ==
  /\ rows[id].status \in {"published", "dead", "discarded"}
  /\ OlderThan(rows[id].finished_at, Retention)

Removable(id) ==
  \/ rows[id].status = "published" /\ OlderThan(rows[id].published_at, Retention)
  \/ rows[id].status = "dead" /\ OlderThan(rows[id].finished_at, DeadRetention)
  \/ rows[id].status = "discarded"
       /\ OlderThan(rows[id].finished_at, DiscardRetention)

\* ORDER BY finished_at LIMIT BatchSize FOR UPDATE SKIP LOCKED.
CleanupSet(S, locked) ==
  LET C == {id \in Ids \ locked : Removable(id)}
  IN  /\ S \subseteq C
      /\ Cardinality(S) <= BatchSize
      /\ \A o \in C \ S :
           /\ Cardinality(S) = BatchSize
           /\ \A e \in S : rows[e].finished_at <= rows[o].finished_at

cleanup(S) ==
  /\ rows' = [id \in Ids |-> IF id \in S THEN NoRow ELSE rows[id]]
  /\ UNCHANGED <<clock, seq, token>>

-----------------------------------------------------------------------------
Tick ==
  /\ clock < MaxClock
  /\ clock' = clock + 1
  /\ UNCHANGED <<rows, seq, token>>

=============================================================================
