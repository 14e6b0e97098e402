-------------------------- MODULE PublisherContract --------------------------
(***************************************************************************)
(* What the relay relies on in one call of port.Publisher: Publish may     *)
(* fail at any point, with any part of the batch handed over, but returns  *)
(* nil only for a batch the transport has.                                 *)
(***************************************************************************)
CONSTANT Batch

VARIABLES
  received,   \* messages the transport has
  returned    \* "no", "nil" or "error"

vars == <<received, returned>>

Init == received = {} /\ returned = "no"

Receive(m) == received' = received \cup {m} /\ UNCHANGED returned

ReceiveSome == \E S \in SUBSET Batch : received' = received \cup S

ReturnNil ==
  /\ returned = "no" /\ returned' = "nil"
  /\ ReceiveSome /\ received' = Batch

ReturnError == returned = "no" /\ returned' = "error" /\ ReceiveSome

Next == (\E m \in Batch : Receive(m)) \/ ReturnNil \/ ReturnError

Spec == Init /\ [][Next]_vars

=============================================================================
