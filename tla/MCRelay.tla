------------------------------ MODULE MCRelay ------------------------------
(* Values for the constants of Relay. *)
EXTENDS Relay, TLC

\* Every message in one partition, or none in any.
MCOneKey == [id \in Ids |-> "k"]
MCNoKeys == [id \in Ids |-> NoKey]

\* No message brings its own limit, or every one is allowed a single attempt.
MCNoLimits  == [id \in Ids |-> Unset]
MCOneAttempt == [id \in Ids |-> 1]

\* A source that said Stop is an immediate retry; a negative delay counts as 0.
MCBackoff(n) == IF n = 1 THEN -1 ELSE 0

\* Ids are interchangeable where none has a key or a limit of its own; workers
\* always are.
MCSymmetry == Permutations(Ids) \cup Permutations(Workers)

=============================================================================
