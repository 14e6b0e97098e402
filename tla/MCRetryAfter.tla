---------------------------- MODULE MCRetryAfter ----------------------------
(***************************************************************************)
(* Relay with the memory of what publishers asked for, recorded or not: the *)
(* time is remembered when Publish returns, not when its outcome reaches   *)
(* the table.                                                              *)
(***************************************************************************)
EXTENDS MCRelay

VARIABLES
  asked,   \* history: when the last attempt of each row may have a successor
  early    \* history: the ids whose row was attempted again before then

\* Publish has returned to w, which holds the row of id, and wants it retried.
WantsRetry(w, id, g) ==
  /\ wk[w].pc = "publishing" /\ Holds(w, id)
  /\ g \in wk'[w].todo /\ g.status = "pending"
  /\ \E m \in g.msgs : m.id = id

NewAttempt(id) ==
  /\ rows'[id].status = "processing"
  /\ rows'[id].lease_token # rows[id].lease_token

\* A row that is settled or requeued has no time to wait for.
Remember ==
  /\ asked' = [id \in Ids |->
       IF rows[id].status \notin {"pending", "processing"} THEN 0
       ELSE LET times == {clock + g.after : g \in
                  {h \in UNION {wk'[w].todo : w \in Workers} :
                     \E w \in Workers : WantsRetry(w, id, h)}}
            IN  IF times = {} THEN asked[id] ELSE CHOOSE t \in times : TRUE]
  /\ early' = early \cup {id \in Ids : NewAttempt(id) /\ clock < asked[id]}

AskSpec ==
  /\ Init /\ asked = [id \in Ids |-> 0] /\ early = {}
  /\ [][Next /\ Remember]_<<vars, asked, early>>

\* The comment on port.RetryAfter says that it requests a minimum delay before
\* another attempt: no row is attempted again before the time the publisher of
\* its latest attempt asked for.
RetryAfterIsMinimum == early = {}

=============================================================================
