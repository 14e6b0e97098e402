------------------------------ MODULE Outcomes ------------------------------
(***************************************************************************)
(* The error values of port/outcome.go and how engine/relay.go reads them. *)
(*                                                                         *)
(* A publisher makes its error by wrapping, joining and collecting errors  *)
(* it has already; `errors` lists them as they are made, and an error is   *)
(* its position there.  Two errors may share a third.  Any of them may be  *)
(* what Publish returns, so the properties speak of all.                   *)
(*                                                                         *)
(* The relay looks for markers with errors.As, which searches depth first; *)
(* the outcomes of a BatchError are kept in a Go map and come in any       *)
(* order, so a search has a set of possible results.                       *)
(***************************************************************************)
EXTENDS Naturals, Sequences

CONSTANTS
  Ids,        \* messages of the batch
  Delays,     \* delays of RetryAfter
  MaxErrors   \* bound of the errors made

ASSUME OutcomesAssumption == Delays \subseteq Nat /\ MaxErrors \in Nat

VARIABLE errors

Nil == 0
Made == 1 .. Len(errors)
Values == {Nil} \cup Made

\* An error: its type, the delay of a RetryAfterError, the errors it wraps (a
\* BatchError's Err) in the order Unwrap lists them, and the outcomes by id.
Error(kind, after, wraps, outcomes) ==
  [kind |-> kind, after |-> after, wraps |-> wraps, outcomes |-> outcomes]

\* Permanent, Discard and RetryAfter of e, which may be nil: nil causes still
\* produce the requested outcome.
Marked(e) ==
  {Error(kind, 0, <<e>>, << >>) : kind \in {"permanent", "discard"}}
  \cup {Error("retry", d, <<e>>, << >>) : d \in Delays}

\* Abort of e, and a panic with e.
Fatal(e) == {Error(kind, 0, <<e>>, << >>) : kind \in {"abort", "panic"}}

\* The markers, and an ordinary error around e (fmt.Errorf with %w).
Wrappers(e) == {Error("plain", 0, <<e>>, << >>)} \cup Marked(e) \cup Fatal(e)

PerMessage(outcomes, others) == Error("batch", 0, <<others>>, outcomes)

-----------------------------------------------------------------------------
\* The first of a list of errors in which something was found.
FirstFound(found, wraps) ==
  UNION {found[wraps[i]] : i \in {i \in 1 .. Len(wraps) :
                                    \A j \in 1 .. i - 1 : found[wraps[j]] = {}}}

\* Defect: BatchError.Unwrap returns Err alone.
Found_OthersOnly(kind) ==
  LET found[e \in Values] ==
        IF e = Nil THEN {}
        ELSE IF errors[e].kind = kind THEN {e}
        ELSE FirstFound(found, errors[e].wraps)
  IN  found

\* errors.As: the errors of this type the search may stop at, by where it starts.
Found(kind) ==
  LET found[e \in Values] ==
        IF e = Nil THEN {}
        ELSE IF errors[e].kind = kind THEN {e}
        ELSE IF FirstFound(found, errors[e].wraps) # {}
             THEN FirstFound(found, errors[e].wraps)
        ELSE UNION {found[errors[e].outcomes[id]] : id \in DOMAIN errors[e].outcomes}
  IN  found

Has(e, kind) == Found(kind)[e] # {}

\* `accepted` is what the caller's classifier says of the error, if the context
\* is live.
isFatal(e, accepted) == Has(e, "abort") \/ Has(e, "panic") \/ accepted

Verdict(status, after) == [status |-> status, after |-> after]

\* Defect: the first marker met decides, whatever its type.
settle_FirstMarker(e) ==
  IF e = Nil THEN {Verdict("published", 0)}
  ELSE LET first == UNION {Found(k)[e] : k \in {"permanent", "discard", "retry"}}
       IN  IF first = {} THEN {Verdict("retry", 0)}
           ELSE {Verdict(CASE errors[f].kind = "permanent" -> "dead"
                           [] errors[f].kind = "discard" -> "discarded"
                           [] OTHER -> "retry", errors[f].after) : f \in first}

\* settle: what one outcome means for a message.  A retry may still turn out
\* dead for its attempt count.
settle(e) ==
  IF e = Nil THEN {Verdict("published", 0)}
  ELSE IF Has(e, "permanent") THEN {Verdict("dead", 0)}
  ELSE IF Has(e, "discard") THEN {Verdict("discarded", 0)}
  ELSE IF Has(e, "retry") THEN {Verdict("retry", errors[r].after) : r \in Found("retry")[e]}
  ELSE {Verdict("retry", 0)}

\* Defect: messages without an entry count as published.
OutcomeOf_AbsentNil(b, id) ==
  IF id \in DOMAIN errors[b].outcomes THEN errors[b].outcomes[id] ELSE Nil

\* settleEach: the outcome a BatchError gives a message.
OutcomeOf(b, id) ==
  IF id \in DOMAIN errors[b].outcomes THEN errors[b].outcomes[id] ELSE errors[b].wraps[1]

\* processBatch: what Publish's error e means for message id.
processBatch(e, id, accepted, leaseLost) ==
  IF e # Nil /\ isFatal(e, accepted) THEN {Verdict("stop", 0)}
  ELSE IF leaseLost THEN {Verdict("claimed", 0)}
  ELSE IF Has(e, "batch")
  THEN UNION {settle(OutcomeOf(b, id)) : b \in Found("batch")[e]}
  ELSE settle(e)

-----------------------------------------------------------------------------
OutcomesInit == errors = << >>

Make(e) == Len(errors) < MaxErrors /\ errors' = Append(errors, e)

Wrap == \E e \in Values : \E w \in Wrappers(e) : Make(w)

\* errors.Join; a nil error leaves no trace.
Join == \E e, f \in Made : Make(Error("join", 0, <<e, f>>, << >>))

\* PerMessage with outcomes for some of the messages.
Collect ==
  \E D \in SUBSET Ids : \E outcomes \in [D -> Values], others \in Values :
    Make(PerMessage(outcomes, others))

OutcomesNext == Wrap \/ Join \/ Collect

OutcomesSpec == OutcomesInit /\ [][OutcomesNext]_errors

-----------------------------------------------------------------------------
\* The errors an error holds.
Held(e) ==
  {errors[e].wraps[i] : i \in 1 .. Len(errors[e].wraps)}
  \cup {errors[e].outcomes[id] : id \in DOMAIN errors[e].outcomes}

\* With an error, what it holds, unless it is of one of these types.
Closed(S, opaque) == \A y \in S \ {Nil} : errors[y].kind \notin opaque => Held(y) \subseteq S

\* The error and all inside it, but what is inside an opaque one only.
Within(e, opaque) ==
  {x \in Values : \A S \in SUBSET Values : e \in S /\ Closed(S, opaque) => x \in S}

Inside(e) == Within(e, {})

Kinds(e) == {errors[x].kind : x \in Inside(e) \ {Nil}}

\* The order of markers the README gives under "Delivery control".
Documented(e) ==
  IF e = Nil THEN "published"
  ELSE IF "permanent" \in Kinds(e) THEN "dead"
  ELSE IF "discard" \in Kinds(e) THEN "discarded" ELSE "retry"

\* The BatchErrors of an error that are not reached through another one.
Outermost(e) == {b \in Within(e, {"batch"}) \ {Nil} : errors[b].kind = "batch"}

\* What e means when the lease is kept and nothing but e itself is fatal.
Verdicts(e, id) == processBatch(e, id, FALSE, FALSE)
Statuses(e, id) == {v.status : v \in Verdicts(e, id)}

\* Once an error stops the relay no wrapping, joining or collecting hides that:
\* whatever has it inside stops the relay too, and neither is a message settled
\* nor a lost lease reported instead.
AbortSticks ==
  \A e \in Values, id \in Ids, lost \in BOOLEAN : \A x \in Inside(e) :
    processBatch(x, id, FALSE, lost) = {Verdict("stop", 0)}
      => processBatch(e, id, FALSE, lost) = {Verdict("stop", 0)}

\* Nested or joined, Abort goes before PerMessage, then Permanent, then Discard,
\* then RetryAfter, wherever in the error the markers are; a message without an
\* outcome of its own has that of the others.
DocumentedPrecedence ==
  \A e \in Values, id \in Ids :
    CASE Kinds(e) \cap {"abort", "panic"} # {} -> Statuses(e, id) = {"stop"}
      [] Kinds(e) \cap {"abort", "panic", "batch"} = {} -> Statuses(e, id) = {Documented(e)}
      [] OTHER -> \E b \in Outermost(e) :
           LET own == id \in DOMAIN errors[b].outcomes
           IN  Statuses(e, id)
                 = {Documented(IF own THEN errors[b].outcomes[id] ELSE errors[b].wraps[1])}

\* The order in which Go happens to walk the outcomes map decides nothing about
\* how a message is settled; a delay is one the publisher asked for somewhere in
\* the error.
MapOrderDecidesNothing ==
  \A e \in Values, id \in Ids :
    /\ \A v, w \in Verdicts(e, id) : v.status = w.status
    /\ \A v \in Verdicts(e, id) :
         v.after > 0 => \E x \in Inside(e) \ {Nil} :
                          errors[x].kind = "retry" /\ errors[x].after = v.after

=============================================================================
