----------------------------- MODULE MCLibrary -----------------------------
(***************************************************************************)
(* The parts of the project that are modelled without the relay's workers: *)
(* they share no state, so a behaviour exercises one of them, and the      *)
(* others stay as they are.                                                *)
(***************************************************************************)
EXTENDS Config, Facade, Outcomes, ExpBackoff, BackoffAdapters, Publishers, Migrations

CONSTANT Parts   \* the parts a run is about

VARIABLE part    \* the one exercised

libraryVars == <<opts, facadeVars, errors, expVars, adapterVars>>

vars == <<part, libraryVars, publisherVars, migrationVars>>

\* A part that is not exercised has one of its initial states.
Init ==
  /\ part \in Parts
  /\ ConfigInit
  /\ \/ part = "facade" /\ FacadeInit
     \/ part # "facade" /\ codec = TRUE /\ FacadeInit
  /\ OutcomesInit
  /\ \/ part = "backoff" /\ ExpInit
     \/ part # "backoff" /\ base = 1 /\ maxDelay = 1 /\ jitter = FALSE /\ ExpInit
  /\ \/ part = "adapters" /\ AdaptersInit
     \/ /\ part # "adapters"
        /\ source = [k \in 1 .. MaxDelays |-> 0]
        /\ AdaptersInit
  /\ \/ part = "publishers" /\ PublishersInit
     \/ part # "publishers" /\ adapter = "kafka" /\ row = Plain /\ headers = << >>
        /\ PublishersInit
  /\ \/ part = "migrations" /\ MigrationsInit
     \/ part # "migrations" /\ objects = {} /\ MigrationsInit

UseConfig ==
  /\ part = "config" /\ AddOption
  /\ UNCHANGED <<part, facadeVars, errors, expVars, adapterVars, publisherVars, migrationVars>>

UseFacade ==
  /\ part = "facade" /\ FacadeNext
  /\ UNCHANGED <<part, opts, errors, expVars, adapterVars, publisherVars, migrationVars>>

UseOutcomes ==
  /\ part = "outcomes" /\ OutcomesNext
  /\ UNCHANGED <<part, opts, facadeVars, expVars, adapterVars, publisherVars, migrationVars>>

UseBackoff ==
  /\ part = "backoff" /\ Fail
  /\ UNCHANGED <<part, opts, facadeVars, errors, adapterVars, publisherVars, migrationVars>>

UseAdapters ==
  /\ part = "adapters" /\ AdaptersNext
  /\ UNCHANGED <<part, opts, facadeVars, errors, expVars, publisherVars, migrationVars>>

UsePublishers ==
  /\ part = "publishers" /\ PublishersNext
  /\ UNCHANGED <<part, libraryVars, migrationVars>>

UseMigrations ==
  /\ part = "migrations" /\ MigrationsNext
  /\ UNCHANGED <<part, libraryVars, publisherVars>>

Next ==
  \/ UseConfig \/ UseFacade \/ UseOutcomes \/ UseBackoff \/ UseAdapters
  \/ UsePublishers \/ UseMigrations

Spec == Init /\ [][Next]_vars

=============================================================================
