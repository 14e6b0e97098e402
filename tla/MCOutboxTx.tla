----------------------------- MODULE MCOutboxTx -----------------------------
(* Values for the constants of OutboxTx. *)
EXTENDS OutboxTx, TLC

\* Every message in one partition.
MCOneKey == [id \in Ids |-> "k"]

\* No message brings its own limit.
MCNoLimits == [id \in Ids |-> Unset]

MCBackoff(n) == 0

MCSymmetry == Permutations(Ids) \cup Permutations(Workers) \cup Permutations(Callers)

=============================================================================
