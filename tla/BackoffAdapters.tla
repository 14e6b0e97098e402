--------------------------- MODULE BackoffAdapters ---------------------------
(***************************************************************************)
(* FromNextBackOff and FromNexter (backoff/backoff.go): a Backoff, which   *)
(* the workers of a relay call concurrently and in any order of attempts,  *)
(* made from a stateful source of delays.  Each call takes a source from   *)
(* the factory and advances it attempt times.  The two differ in how a     *)
(* source says it stops (a sentinel, a flag), which is abstracted to Stop. *)
(***************************************************************************)
EXTENDS Integers

CONSTANTS
  Callers,   \* workers of the relay
  MaxDelays   \* the longest run of delays of a source, and the largest attempt

ASSUME AdaptersAssumption == 0 \notin Callers /\ MaxDelays \in Nat \ {0}

Stop == -1
SourceDelays == {Stop, 0, 2}

VARIABLES
  source,       \* what a fresh source yields, call by call
  pos,          \* calls made of each source: one per caller; 0 is one kept for all
  inst,         \* the source each caller has
  at,           \* "idle", "loop" or "done"
  attempt, i,   \* argument and loop counter of each caller
  d             \* its delay so far, its result when done

adapterVars == <<source, pos, inst, at, attempt, i, d>>

AdaptersInit ==
  /\ source \in [1 .. MaxDelays -> SourceDelays]
  /\ pos = [s \in Callers \cup {0} |-> 0]
  /\ inst = [c \in Callers |-> c]
  /\ at = [c \in Callers |-> "idle"]
  /\ attempt = [c \in Callers |-> 1]
  /\ i = [c \in Callers |-> 0]
  /\ d = [c \in Callers |-> 0]

AtLeastOne(a) == IF a < 1 THEN 1 ELSE a

\* Defect: the factory was called once, when the Backoff was made.
NewB_Once(c) ==
  /\ inst' = [inst EXCEPT ![c] = 0]
  /\ UNCHANGED pos

NewB(c) ==
  /\ inst' = [inst EXCEPT ![c] = c]
  /\ pos' = [pos EXCEPT ![c] = 0]

Ask(c) ==
  /\ at[c] \in {"idle", "done"}
  /\ \E a \in 0 .. MaxDelays : attempt' = [attempt EXCEPT ![c] = AtLeastOne(a)]
  /\ NewB(c)
  /\ at' = [at EXCEPT ![c] = "loop"]
  /\ i' = [i EXCEPT ![c] = 0] /\ d' = [d EXCEPT ![c] = 0]
  /\ UNCHANGED source

\* One turn of the loop: the source is asked once; Stop ends the call with 0.
\* A source goes on with its last delay.
Advance(c) ==
  LET p == IF pos[inst[c]] < MaxDelays THEN pos[inst[c]] + 1 ELSE MaxDelays
      v == source[p]
  IN  /\ at[c] = "loop" /\ i[c] < attempt[c]
      /\ pos' = [pos EXCEPT ![inst[c]] = p]
      /\ i' = [i EXCEPT ![c] = @ + 1]
      /\ d' = [d EXCEPT ![c] = IF v = Stop THEN 0 ELSE v]
      /\ at' = [at EXCEPT ![c] = IF v = Stop THEN "done" ELSE "loop"]
      /\ UNCHANGED <<source, inst, attempt>>

Answer(c) ==
  /\ at[c] = "loop" /\ i[c] = attempt[c]
  /\ at' = [at EXCEPT ![c] = "done"]
  /\ UNCHANGED <<source, pos, inst, attempt, i, d>>

AdaptersNext == \E c \in Callers : Ask(c) \/ Advance(c) \/ Answer(c)

AdaptersSpec == AdaptersInit /\ [][AdaptersNext]_adapterVars

-----------------------------------------------------------------------------
\* The delay is that of the attempt alone, whatever other calls run meanwhile or
\* came before: the source's delay for it, and 0 once the source has stopped.
DelayOfAttempt ==
  \A c \in Callers :
    at[c] = "done" =>
      d[c] = IF \E k \in 1 .. attempt[c] : source[k] = Stop
             THEN 0 ELSE source[attempt[c]]

=============================================================================
