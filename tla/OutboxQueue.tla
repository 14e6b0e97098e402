----------------------------- MODULE OutboxQueue -----------------------------
(***************************************************************************)
(* What the outbox promises its users, with nothing of how it keeps it: a  *)
(* queue of messages that transports receive at least once, in the order   *)
(* of their key, and that are settled once and for all unless replayed.    *)
(* There are no workers, leases, attempts, clocks or retries here.         *)
(***************************************************************************)
CONSTANTS
  Ids,
  KeyOf, NoKey,   \* the key in whose order an id is received, if it has one
  Forgettable     \* settled states that may be deleted

VARIABLES
  state,      \* of each id: "absent", "queued" or how it was settled
  ahead,      \* of each id: the ids queued before it under the same key
  received    \* the ids, of those present, that the transport has received

vars == <<state, ahead, received>>

Settled == {"published", "dead", "discarded"}

SameKey(a, b) == KeyOf[b] # NoKey /\ KeyOf[a] = KeyOf[b]

Init ==
  /\ state = [id \in Ids |-> "absent"]
  /\ ahead = [id \in Ids |-> {}]
  /\ received = {}

\* Messages are queued behind those present; dead ones are replayed in place.
Accept(put, replay) ==
  /\ \A id \in put : state[id] = "absent"
  /\ \A id \in replay : state[id] = "dead"
  /\ state' = [id \in Ids |-> IF id \in put \cup replay THEN "queued" ELSE state[id]]
  /\ ahead' = [id \in Ids |->
       IF id \in put THEN {a \in Ids : state[a] # "absent" /\ SameKey(a, id)}
                     ELSE ahead[id]]
  /\ UNCHANGED received

\* The transport receives a message, possibly again, possibly after it was
\* settled, but never ahead of one that is queued or dead.
Receive(id) ==
  /\ state[id] # "absent"
  /\ \A a \in ahead[id] : state[a] \in {"published", "discarded"}
  /\ received' = received \cup {id}
  /\ UNCHANGED <<state, ahead>>

\* Queued messages are settled together; published are only received ones.
Settle(S, how) ==
  /\ \A id \in S : state[id] = "queued"
  /\ how = "published" => S \subseteq received
  /\ state' = [id \in Ids |-> IF id \in S THEN how ELSE state[id]]
  /\ UNCHANGED <<ahead, received>>

\* Settled messages are deleted.
Forget(S) ==
  /\ \A id \in S : state[id] \in Forgettable
  /\ state' = [id \in Ids |-> IF id \in S THEN "absent" ELSE state[id]]
  /\ ahead' = [id \in Ids |-> IF id \in S THEN {} ELSE ahead[id] \ S]
  /\ received' = received \ S

Next ==
  \/ \E put, replay \in SUBSET Ids : Accept(put, replay)
  \/ \E id \in Ids : Receive(id)
  \/ \E S \in SUBSET Ids, how \in Settled : Settle(S, how)
  \/ \E S \in SUBSET Ids : Forget(S)

Spec == Init /\ [][Next]_vars

=============================================================================
