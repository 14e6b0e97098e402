----------------------------- MODULE Migrations -----------------------------
(***************************************************************************)
(* Applying migrations.Up() to a live queue: every instance applies all    *)
(* files in order when it starts, also when another has done so or is at   *)
(* it, and starts over when it fails.  Each file is one Exec, hence one    *)
(* transaction.  A table of v1.0 holds rows that v1.0 relays finished,     *)
(* which knew no finished_at; they run until the first new relay starts.   *)
(*                                                                         *)
(* The schema is the set of its columns, constraints, indexes and triggers *)
(* that a file adds or drops.                                              *)
(***************************************************************************)
EXTENDS Integers

CONSTANTS
  Instances, Rows,
  Retention,      \* of published, dead and discarded rows alike
  MaxClock        \* bound on the clock
NULL == -1

ASSUME MigrationsAssumption == Retention \in Nat \ {0} /\ MaxClock \in Nat

VARIABLES
  objects,        \* the schema
  file,           \* of each instance: the next file, 4 when its relay runs
  upgraded,       \* a new relay has run
  status, created_at, published_at, finished_at,
  ended,          \* history: when the row was really finished
  clock

rowVars == <<status, created_at, published_at, finished_at, ended>>
migrationVars == <<objects, file, upgraded, rowVars, clock>>

Terminal == {"published", "dead", "discarded"}

-----------------------------------------------------------------------------
\* Defect: the CHECK is added again to a table that exists.
File1_AddsCheck(o) ==
  o \cup {"table", "check_v10", "claim_idx", "cleanup_idx", "partition_idx", "trigger"}

\* CREATE TABLE IF NOT EXISTS: the CHECK comes with a new table only.
File1(o) ==
  o \cup {"table", "claim_idx", "cleanup_idx", "partition_idx", "trigger"}
    \cup (IF "table" \in o THEN {} ELSE {"check_v10"})

File2(o) ==
  (o \ {"check_v10"})
    \cup {"lease_token", "finished_at", "check_v11", "finished_idx"}

File3(o) == (o \cup {"seq", "partition_seq_idx"}) \ {"partition_idx"}

V10 == File1({})

\* Defect: retention counts from the creation of a row without a terminal time.
Backfill_Creation(r) ==
  IF status[r] \in Terminal /\ finished_at[r] = NULL
  THEN IF published_at[r] # NULL THEN published_at[r] ELSE created_at[r]
  ELSE finished_at[r]

\* Defect: every terminal row is backfilled, again and again.
Backfill_Again(r) ==
  IF status[r] \in Terminal
  THEN IF published_at[r] # NULL THEN published_at[r] ELSE clock
  ELSE finished_at[r]

\* The UPDATE of file 2: COALESCE(published_at, now()) where finished_at is null.
Backfill(r) ==
  IF status[r] \in Terminal /\ finished_at[r] = NULL
  THEN IF published_at[r] # NULL THEN published_at[r] ELSE clock
  ELSE finished_at[r]

-----------------------------------------------------------------------------
MigrationsInit ==
  /\ objects \in {{}, V10}
  /\ file = [p \in Instances |-> 1] /\ upgraded = FALSE
  /\ status = [r \in Rows |-> "absent"]
  /\ created_at = [r \in Rows |-> NULL] /\ published_at = [r \in Rows |-> NULL]
  /\ finished_at = [r \in Rows |-> NULL] /\ ended = [r \in Rows |-> NULL]
  /\ clock = 0

\* One file of Up().
ApplyFile(p) ==
  /\ file[p] \in 1 .. 3
  /\ objects' = CASE file[p] = 1 -> File1(objects)
                  [] file[p] = 2 -> File2(objects)
                  [] file[p] = 3 -> File3(objects)
  /\ finished_at' = IF file[p] = 2 THEN [r \in Rows |-> Backfill(r)] ELSE finished_at
  /\ file' = [file EXCEPT ![p] = @ + 1]
  /\ upgraded' = (upgraded \/ file[p] = 3)
  /\ UNCHANGED <<status, created_at, published_at, ended, clock>>

\* A file fails (another instance's DDL, a lost connection), or the instance is
\* restarted: its next start applies everything again.
Restart(p) ==
  /\ file[p] # 1
  /\ file' = [file EXCEPT ![p] = 1]
  /\ UNCHANGED <<objects, upgraded, rowVars, clock>>

-----------------------------------------------------------------------------
Insert(r) ==
  /\ "table" \in objects /\ status[r] = "absent"
  /\ status' = [status EXCEPT ![r] = "pending"]
  /\ created_at' = [created_at EXCEPT ![r] = clock]
  /\ UNCHANGED <<objects, file, upgraded, published_at, finished_at, ended, clock>>

\* A row is finished; v1.0 relays do not know finished_at.
Finish(r, s, stamp) ==
  /\ status[r] = "pending"
  /\ status' = [status EXCEPT ![r] = s]
  /\ published_at' = [published_at EXCEPT ![r] = IF s = "published" THEN clock ELSE NULL]
  /\ finished_at' = [finished_at EXCEPT ![r] = stamp]
  /\ ended' = [ended EXCEPT ![r] = clock]
  /\ UNCHANGED <<objects, file, upgraded, created_at, clock>>

OldFinish(r) == ~upgraded /\ \E s \in {"published", "dead"} : Finish(r, s, NULL)

NewFinish(r) ==
  /\ \E p \in Instances : file[p] = 4
  /\ \E s \in Terminal : Finish(r, s, clock)

Requeue(r) ==
  /\ status[r] = "dead" /\ "finished_at" \in objects
  /\ status' = [status EXCEPT ![r] = "pending"]
  /\ published_at' = [published_at EXCEPT ![r] = NULL]
  /\ finished_at' = [finished_at EXCEPT ![r] = NULL]
  /\ ended' = [ended EXCEPT ![r] = NULL]
  /\ UNCHANGED <<objects, file, upgraded, created_at, clock>>

\* A comparison with NULL holds for no row.
Expired(t) == t # NULL /\ t < clock - Retention

Cleanup(r) ==
  /\ \E p \in Instances : file[p] = 4
  /\ \/ status[r] = "published" /\ Expired(published_at[r])
     \/ status[r] \in {"dead", "discarded"} /\ Expired(finished_at[r])
  /\ status' = [status EXCEPT ![r] = "absent"]
  /\ created_at' = [created_at EXCEPT ![r] = NULL]
  /\ published_at' = [published_at EXCEPT ![r] = NULL]
  /\ finished_at' = [finished_at EXCEPT ![r] = NULL]
  /\ ended' = [ended EXCEPT ![r] = NULL]
  /\ UNCHANGED <<objects, file, upgraded, clock>>

Tick ==
  /\ clock < MaxClock
  /\ clock' = clock + 1
  /\ UNCHANGED <<objects, file, upgraded, rowVars>>

MigrationsNext ==
  \/ \E p \in Instances : ApplyFile(p) \/ Restart(p)
  \/ \E r \in Rows : Insert(r) \/ OldFinish(r) \/ NewFinish(r) \/ Requeue(r) \/ Cleanup(r)
  \/ Tick

MigrationsSpec == MigrationsInit /\ [][MigrationsNext]_migrationVars

-----------------------------------------------------------------------------
\* The schema of this version.
Target ==
  {"table", "lease_token", "finished_at", "seq", "check_v11", "trigger", "claim_idx",
   "cleanup_idx", "finished_idx", "partition_seq_idx"}

\* A relay that runs finds the schema it needs, whoever else is migrating,
\* failing or starting over: "discarded" is allowed, no column is missing.
RelayFindsSchema ==
  (\E p \in Instances : file[p] = 4)
    => Target \subseteq objects /\ "check_v10" \notin objects

\* No finished row, those of v1.0 included, is removed before it has been
\* finished for the whole retention.
RetentionRespected ==
  [][\A r \in Rows : (status[r] # "absent" /\ status'[r] = "absent")
                       => ended[r] < clock - Retention]_migrationVars

\* Applying the files again does not move the terminal time of a row, which
\* would keep it for ever.
TerminalTimeKept ==
  [][\A r \in Rows : (finished_at[r] # NULL /\ status'[r] = status[r])
                       => finished_at'[r] = finished_at[r]]_migrationVars

=============================================================================
