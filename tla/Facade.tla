------------------------------- MODULE Facade -------------------------------
(***************************************************************************)
(* The enqueue calls of outbox.go, down to the row that is written and the *)
(* message that scanMessages (engine/store.go) later reads back from it.   *)
(*                                                                         *)
(* Of a message only what the conversions treat specially is kept: empty   *)
(* or nil fields, an id that is written differently from how PostgreSQL    *)
(* prints it, and values the columns do not take.  PartitionKey stands for *)
(* Topic, ContentType and MessageType as well: text columns, all.  A call  *)
(* that returns no error commits.                                          *)
(***************************************************************************)
EXTENDS Naturals, Sequences

CONSTANTS
  Generated,   \* ids gen_random_uuid() draws
  MaxCalls     \* bound of the number of calls

ASSUME FacadeAssumption ==
  MaxCalls \in Nat /\ Generated \cap {"", "a", "A", "bad"} = {}

VARIABLES
  codec,   \* whether a codec is configured
  table,   \* the rows, by id
  call,    \* the last call: its messages, the ids they got, the error returned
  calls,   \* number of calls
  first    \* history: the message each row was written for

facadeVars == <<codec, table, call, calls, first>>

Message(id, topic, key, payload, headers, max) ==
  [ID |-> id, Topic |-> topic, PartitionKey |-> key, Payload |-> payload,
   Headers |-> headers, MaxAttempts |-> max]

\* Messages as callers build them: with and without an id, a key, headers and a
\* limit, one with an empty payload, and two that are not valid.  "A" is another
\* spelling of the uuid "a", "bad" no uuid or no text PostgreSQL can hold, and
\* "big" beyond its int; headers are "invalid" if they are not UTF-8, and "nul" if
\* they contain U+0000.
Messages ==
  {Message(id, "t", key, "data", "nil", "nil") : id \in {"", "a"}, key \in {"", "k"}}
  \cup {Message(id, "t", key, "data", "h", "0") : id \in {"", "a"}, key \in {"", "k"}}
  \cup {Message("A", "t", "k", "data", "invalid", "nil"),
        Message("", "t", "", "data", "nul", "nil"),
        Message("bad", "t", "", "data", "nil", "nil"),
        Message("", "t", "bad", "data", "nil", "nil"),
        Message("", "t", "", "data", "nil", "big"),
        Message("a", "t", "", "empty", "nil", "nil"),
        Message("", "", "", "data", "nil", "nil"),
        Message("", "t", "", "nil", "nil", "nil")}

NoRow == [topic |-> ""]

RowIds == {"a"} \cup Generated

Validate(m) ==
  IF m.Topic = "" THEN "ErrEmptyTopic"
  ELSE IF m.Payload = "nil" THEN "ErrNilPayload" ELSE "none"

\* The first error of a batch.
ValidateAll(ms) ==
  LET bad == {i \in DOMAIN ms : Validate(ms[i]) # "none"}
  IN  IF bad = {} THEN "none"
      ELSE Validate(ms[CHOOSE i \in bad : \A j \in bad : i <= j])

-----------------------------------------------------------------------------
\* Defect: an empty string is written as one.
nullStr_Empty(s) == s

nullStr(s) == IF s = "" THEN "NULL" ELSE s

derefStr(c) == IF c = "NULL" THEN "" ELSE c

nullInt(p) == IF p = "nil" THEN "NULL" ELSE p

\* json.Marshal of the headers, nil made an empty map before: text that is not
\* UTF-8 gets replacement characters, and U+0000 is written \u0000.
Marshal(headers) ==
  CASE headers = "nil" -> "empty"
    [] headers = "invalid" -> "replaced"
    [] headers = "nul" -> "escaped"
    [] OTHER -> headers

\* json.Unmarshal into a map of strings.
Unmarshal(text) == IF text \in {"empty", "h", "replaced"} THEN text ELSE "error"

\* $1::uuid: one uuid, however it is written.
uuid(id) == IF id = "A" THEN "a" ELSE id

\* Whether the columns take the message: a uuid, text, an int, and JSON without
\* \u0000, which jsonb refuses.
Acceptable(m) ==
  /\ m.ID # "bad" /\ m.PartitionKey # "bad" /\ m.MaxAttempts # "big"
  /\ Marshal(m.Headers) # "escaped"

\* The row of a message.
RowOf(m) ==
  [topic |-> m.Topic, partition_key |-> nullStr(m.PartitionKey),
   payload |-> m.Payload, headers |-> Marshal(m.Headers),
   max_attempts |-> nullInt(m.MaxAttempts)]

\* The message read back from a row, unless its headers cannot be.
scanMessages(id, r) ==
  [err |-> IF Unmarshal(r.headers) = "error" THEN "unmarshal" ELSE "none",
   msg |-> Message(id, r.topic, derefStr(r.partition_key), r.payload,
                   Unmarshal(r.headers),
                   IF r.max_attempts = "NULL" THEN "nil" ELSE r.max_attempts)]

\* The ids a list of messages gets: a fresh one each where there is none.
Assigned(ms) ==
  {ids \in [DOMAIN ms -> RowIds] :
     /\ \A i \in DOMAIN ms :
          IF ms[i].ID # "" THEN ids[i] = uuid(ms[i].ID)
          ELSE ids[i] \in Generated /\ table[ids[i]] = NoRow
     /\ \A i, j \in DOMAIN ms : i # j /\ ms[i].ID = "" => ids[i] # ids[j]}

\* Of the messages of one INSERT under the same id the first is kept.
Kept(ms, ids, id) ==
  CHOOSE i \in DOMAIN ms : ids[i] = id /\ \A j \in DOMAIN ms : ids[j] = id => i <= j

\* Store.Enqueue: one INSERT ... ON CONFLICT (id) DO NOTHING.
Inserted(ms, ids) ==
  [id \in RowIds |->
     IF table[id] = NoRow /\ \E i \in DOMAIN ms : ids[i] = id
     THEN RowOf(ms[Kept(ms, ids, id)]) ELSE table[id]]

\* The call returns err without having written anything.
Refused(ms, err) ==
  /\ call' = [msgs |-> ms, ids |-> <<>>, err |-> err]
  /\ UNCHANGED <<table, first>>

\* The messages are written; `first` keeps the first of those without a row.
Written(ms) ==
  \E ids \in Assigned(ms) :
    /\ table' = Inserted(ms, ids)
    /\ call' = [msgs |-> ms, ids |-> ids, err |-> "none"]
    /\ first' = [id \in RowIds |->
         IF table[id] = NoRow /\ \E i \in DOMAIN ms : ids[i] = id
         THEN [ms[CHOOSE i \in DOMAIN ms :
                    ids[i] = id /\ \A j \in 1 .. i - 1 : ids[j] # id]
                 EXCEPT !.ID = id]
         ELSE first[id]]

-----------------------------------------------------------------------------
FacadeInit ==
  /\ codec \in BOOLEAN
  /\ table = [id \in RowIds |-> NoRow]
  /\ call = [msgs |-> <<>>, ids |-> <<>>, err |-> "none"]
  /\ calls = 0
  /\ first = [id \in RowIds |-> NoRow]

Call == calls < MaxCalls /\ calls' = calls + 1 /\ UNCHANGED codec

\* Defect: the messages before the invalid one are written.
EnqueueBatch_Prefix(ms) ==
  LET valid == {i \in DOMAIN ms : \A j \in 1 .. i : Validate(ms[j]) = "none"}
  IN  /\ Call
      /\ IF valid = DOMAIN ms THEN Written(ms)
         ELSE \E ids \in Assigned([i \in valid |-> ms[i]]) :
                /\ table' = Inserted([i \in valid |-> ms[i]], ids)
                /\ call' = [msgs |-> ms, ids |-> <<>>, err |-> ValidateAll(ms)]
                /\ UNCHANGED first

\* Every message is validated before any is written.  The one INSERT for all of
\* them may fail whatever they are (a lost connection, a cancelled context), and
\* fails if a column does not take its value; without messages there is none.
EnqueueBatch(ms) ==
  /\ Call
  /\ \/ ValidateAll(ms) # "none" /\ Refused(ms, ValidateAll(ms))
     \/ ValidateAll(ms) = "none" /\ ms # <<>> /\ Refused(ms, "sql")
     \/ /\ ValidateAll(ms) = "none" /\ \A i \in DOMAIN ms : Acceptable(ms[i])
        /\ Written(ms)

\* Enqueue is the same for one message.
Enqueue(m) == EnqueueBatch(<<m>>)

\* EnqueueValue: the codec may fail, or give a nil payload.
EnqueueValue(key, payload) ==
  IF ~codec \/ payload = "error"
  THEN Call /\ Refused(<<>>, IF ~codec THEN "ErrNoCodec" ELSE "marshal")
  ELSE Enqueue(Message("", "t", key, payload, "nil", "nil"))

\* The cleaner deletes a finished row.
Delete ==
  \E id \in RowIds : /\ table[id] # NoRow
                  /\ table' = [table EXCEPT ![id] = NoRow]
                  /\ first' = [first EXCEPT ![id] = NoRow]
                  /\ UNCHANGED <<codec, call, calls>>

FacadeNext ==
  \/ \E m \in Messages : Enqueue(m)
  \/ EnqueueBatch(<<>>)
  \/ \E m, n \in Messages : EnqueueBatch(<<m, n>>)
  \/ \E key \in {"", "k"}, payload \in {"error", "nil", "data"} : EnqueueValue(key, payload)
  \/ Delete

FacadeSpec == FacadeInit /\ [][FacadeNext]_facadeVars

-----------------------------------------------------------------------------
\* The relay reads the first message enqueued under an id back without an error,
\* however the id was written and whatever duplicates came later: no limit stays
\* no limit, and every key is kept; a message without one has NULL in the table
\* (which equals nothing, so ordered mode holds it back for no other).  Only the
\* headers change: nil ones come back empty, and in those that are not UTF-8 the
\* offending bytes are replaced without anyone being told.
ReadsBackFirst ==
  \A id \in RowIds : table[id] # NoRow =>
    /\ scanMessages(id, table[id]).err = "none"
    /\ \A f \in {"ID", "Topic", "PartitionKey", "Payload", "MaxAttempts"} :
         scanMessages(id, table[id]).msg[f] = first[id][f]
    /\ LET sent == first[id].Headers
           read == scanMessages(id, table[id]).msg.Headers
       IN  \/ sent = "h" /\ read = "h"
           \/ sent = "nil" /\ read = "empty"
           \/ sent = "invalid" /\ read = "replaced"
    /\ first[id].PartitionKey = "" <=> table[id].partition_key = "NULL"

\* A call that returns an error has written nothing, be it a batch with one
\* invalid message, one whose value a column does not take, an INSERT that failed
\* otherwise, or a codec that fails; one that succeeds leaves a row for each of
\* its messages, and a row of its own for each without an id.
AllOrNothing ==
  [][calls' # calls =>
       IF call'.err # "none" THEN table' = table
       ELSE /\ \A k \in DOMAIN call'.msgs : table'[call'.ids[k]] # NoRow
            /\ \A k \in DOMAIN call'.msgs :
                 call'.msgs[k].ID = "" => /\ table[call'.ids[k]] = NoRow
                                          /\ \A j \in DOMAIN call'.msgs \ {k} :
                                               call'.ids[k] # call'.ids[j]]_facadeVars

=============================================================================
