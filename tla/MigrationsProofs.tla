-------------------------- MODULE MigrationsProofs --------------------------
(***************************************************************************)
(* Proofs about Migrations, for any number of instances and rows and any   *)
(* retention: what a relay finds when it starts, and what applying the     *)
(* files to a live table does to its rows.                                 *)
(***************************************************************************)
EXTENDS Migrations, TLAPS

\* What each file leaves behind, whichever files are applied after it.
AfterFile1 == {"table", "claim_idx", "cleanup_idx", "trigger"}
AfterFile2 == {"lease_token", "finished_at", "check_v11", "finished_idx"}
AfterFile3 == {"seq", "partition_seq_idx"}

\* Files that an instance has applied stay applied.  The old CHECK does not come
\* back with file 1, as the table is there by then.
SchemaInv ==
  /\ file \in [Instances -> 1 .. 4]
  /\ \A p \in Instances :
       /\ file[p] >= 2 => AfterFile1 \subseteq objects
       /\ file[p] >= 3 => AfterFile2 \subseteq objects /\ "check_v10" \notin objects
       /\ file[p] >= 4 => AfterFile3 \subseteq objects

\* No file is applied by any instance at the start.
LEMMA SchemaInit == MigrationsInit => SchemaInv
  BY DEF MigrationsInit, SchemaInv

\* The files commute with what is there: none removes what SchemaInv promises.
LEMMA FilesKeep ==
  ASSUME NEW o
  PROVE  /\ o \ {"partition_idx"} \subseteq File1(o)
         /\ AfterFile1 \subseteq File1(o)
         /\ "table" \in o /\ "check_v10" \notin o => "check_v10" \notin File1(o)
         /\ o \ {"check_v10"} \subseteq File2(o)
         /\ AfterFile2 \subseteq File2(o) /\ "check_v10" \notin File2(o)
         /\ o \ {"partition_idx"} \subseteq File3(o)
         /\ AfterFile3 \subseteq File3(o)
         /\ "check_v10" \notin o => "check_v10" \notin File3(o)
  BY DEF File1, File2, File3, AfterFile1, AfterFile2, AfterFile3

\* Every step of a migration, a failure and a restart.
LEMMA SchemaStep == SchemaInv /\ [MigrationsNext]_migrationVars => SchemaInv'
<1> SUFFICES ASSUME SchemaInv, [MigrationsNext]_migrationVars PROVE SchemaInv'
  OBVIOUS
<1>1. ASSUME NEW p \in Instances, ApplyFile(p) PROVE SchemaInv'
  <2>1. file' = [file EXCEPT ![p] = file[p] + 1] /\ file[p] \in 1 .. 3
    BY <1>1 DEF ApplyFile
  <2>2. file' \in [Instances -> 1 .. 4] /\ file'[p] = file[p] + 1
        /\ \A q \in Instances \ {p} : file'[q] = file[q]
    BY <2>1 DEF SchemaInv
  <2>3. \/ file[p] = 1 /\ objects' = File1(objects)
        \/ file[p] = 2 /\ objects' = File2(objects)
        \/ file[p] = 3 /\ objects' = File3(objects)
    BY <1>1, <2>1 DEF ApplyFile
  <2>4. /\ AfterFile1 \subseteq objects => AfterFile1 \subseteq objects'
        /\ AfterFile2 \subseteq objects => AfterFile2 \subseteq objects'
        /\ AfterFile3 \subseteq objects => AfterFile3 \subseteq objects'
    BY <2>3, FilesKeep DEF AfterFile1, AfterFile2, AfterFile3
  <2>5. AfterFile1 \subseteq objects /\ "check_v10" \notin objects
          => "check_v10" \notin objects'
    BY <2>3, FilesKeep DEF AfterFile1
  <2>6. /\ file[p] = 1 => AfterFile1 \subseteq objects'
        /\ file[p] = 2 => AfterFile2 \subseteq objects' /\ "check_v10" \notin objects'
        /\ file[p] = 3 => AfterFile3 \subseteq objects'
    BY <2>3, FilesKeep
  <2>7. ASSUME NEW q \in Instances
        PROVE  /\ file'[q] >= 2 => AfterFile1 \subseteq objects'
               /\ file'[q] >= 3 => AfterFile2 \subseteq objects' /\ "check_v10" \notin objects'
               /\ file'[q] >= 4 => AfterFile3 \subseteq objects'
    BY <2>1, <2>2, <2>4, <2>5, <2>6 DEF SchemaInv
  <2> QED BY <2>2, <2>7 DEF SchemaInv
<1>2. ASSUME NEW p \in Instances, Restart(p) PROVE SchemaInv'
  BY <1>2 DEF Restart, SchemaInv
<1>3. CASE objects' = objects /\ file' = file
  BY <1>3 DEF SchemaInv
<1> QED BY <1>1, <1>2, <1>3
    DEF MigrationsNext, migrationVars, Insert, OldFinish, NewFinish, Finish,
           Requeue, Cleanup, Tick

\* A relay that runs finds the schema it needs, however many instances apply
\* the files, in whatever order their files interleave, and however often one
\* fails or is restarted meanwhile.
THEOREM SchemaReady == MigrationsSpec => []RelayFindsSchema
<1>1. SchemaInv => RelayFindsSchema
  BY DEF SchemaInv, RelayFindsSchema, Target, AfterFile1, AfterFile2, AfterFile3
<1> QED BY <1>1, SchemaInit, SchemaStep, PTL DEF MigrationsSpec

-----------------------------------------------------------------------------
RowsOK ==
  /\ clock \in Nat
  /\ status \in [Rows -> Terminal \cup {"absent", "pending"}]
  /\ published_at \in [Rows -> Int]
  /\ finished_at \in [Rows -> Int]
  /\ ended \in [Rows -> Int]

\* A terminal time, where there is one, is not before the row was finished; the
\* backfill may only put it later.
TimesInv ==
  \A r \in Rows :
    /\ ended[r] <= clock
    /\ published_at[r] # NULL => status[r] = "published" /\ published_at[r] = ended[r]
    /\ finished_at[r] # NULL => status[r] \in Terminal /\ finished_at[r] >= ended[r]

RowInv == RowsOK /\ TimesInv

\* No row is there, let alone finished, at the start.
LEMMA RowInit == MigrationsInit => RowInv
  BY DEF MigrationsInit, RowInv, RowsOK, TimesInv, NULL, Terminal

\* A row is finished now, with or without a time, by either version.
LEMMA FinishRow ==
  ASSUME RowInv, NEW r \in Rows, NEW s \in Terminal, NEW stamp \in {NULL, clock},
         Finish(r, s, stamp)
  PROVE  RowInv'
  BY DEF RowInv, RowsOK, TimesInv, NULL, Terminal, Finish

\* The backfill gives no row a time before its end, and keeps a time there is.
LEMMA BackfillRow ==
  ASSUME RowInv, NEW r \in Rows
  PROVE  /\ Backfill(r) \in Int
         /\ Backfill(r) # NULL => status[r] \in Terminal /\ Backfill(r) >= ended[r]
         /\ finished_at[r] # NULL => Backfill(r) = finished_at[r]
  BY DEF RowInv, RowsOK, TimesInv, NULL, Terminal, Backfill

\* Every step of rows, migrations and the cleaner.
LEMMA RowStep == RowInv /\ [MigrationsNext]_migrationVars => RowInv'
<1> SUFFICES ASSUME RowInv, [MigrationsNext]_migrationVars PROVE RowInv'
  OBVIOUS
<1> USE DEF RowInv, RowsOK, TimesInv, NULL
<1>1. ASSUME NEW p \in Instances, ApplyFile(p) PROVE RowInv'
  <2>1. CASE file[p] = 2
    <3>1. finished_at' = [r \in Rows |-> Backfill(r)]
      BY <1>1, <2>1 DEF ApplyFile
    <3> QED BY <1>1, <3>1, BackfillRow DEF ApplyFile
  <2>2. CASE file[p] # 2
    BY <1>1, <2>2 DEF ApplyFile
  <2> QED BY <2>1, <2>2
<1>2. ASSUME NEW p \in Instances, Restart(p) PROVE RowInv'
  BY <1>2 DEF Restart, rowVars
<1>3. ASSUME NEW r \in Rows, Insert(r) PROVE RowInv'
  BY <1>3 DEF Insert, Terminal
<1>4. ASSUME NEW r \in Rows, OldFinish(r) PROVE RowInv'
  BY <1>4, FinishRow DEF OldFinish, Terminal
<1>5. ASSUME NEW r \in Rows, NewFinish(r) PROVE RowInv'
  BY <1>5, FinishRow DEF NewFinish
<1>6. ASSUME NEW r \in Rows, Requeue(r) PROVE RowInv'
  BY <1>6 DEF Requeue, Terminal
<1>7. ASSUME NEW r \in Rows, Cleanup(r) PROVE RowInv'
  BY <1>7 DEF Cleanup, Terminal
<1>8. CASE Tick
  BY <1>8 DEF Tick, rowVars
<1>9. CASE UNCHANGED migrationVars
  BY <1>9 DEF migrationVars, rowVars
<1> QED BY <1>1, <1>2, <1>3, <1>4, <1>5, <1>6, <1>7, <1>8, <1>9 DEF MigrationsNext

\* No finished row leaves the table before the whole retention has passed since
\* it was finished, also when a relay of v1.0 finished it and never said when.
THEOREM RetentionKept == MigrationsSpec => RetentionRespected
<1> DEFINE Kept == \A r \in Rows : (status[r] # "absent" /\ status'[r] = "absent")
                                     => ended[r] < clock - Retention
<1>1. RowInv /\ [MigrationsNext]_migrationVars => [Kept]_migrationVars
  <2> SUFFICES ASSUME RowInv, MigrationsNext, NEW r \in Rows,
                      status[r] # "absent", status'[r] = "absent"
               PROVE  ended[r] < clock - Retention
    OBVIOUS
  <2>1. Cleanup(r)
    BY DEF RowInv, RowsOK, MigrationsNext, ApplyFile, Restart, Insert, OldFinish,
           NewFinish, Finish,
       Requeue, Cleanup, Tick, rowVars, Terminal
  <2> QED BY <2>1, MigrationsAssumption DEF Cleanup, Expired, RowInv, RowsOK, TimesInv, NULL
<1> QED BY <1>1, RowInit, RowStep, PTL DEF MigrationsSpec, RetentionRespected

\* Applying the files once more, in the middle of anything, moves no terminal
\* time: only what ends or replays the row does.
THEOREM TimeKept == MigrationsSpec => TerminalTimeKept
<1> DEFINE Kept == \A r \in Rows : (finished_at[r] # NULL /\ status'[r] = status[r])
                                     => finished_at'[r] = finished_at[r]
<1>1. RowInv /\ [MigrationsNext]_migrationVars => [Kept]_migrationVars
  <2> SUFFICES ASSUME RowInv, MigrationsNext, NEW r \in Rows,
                      finished_at[r] # NULL, status'[r] = status[r]
               PROVE  finished_at'[r] = finished_at[r]
    OBVIOUS
  <2>1. ASSUME NEW p \in Instances, ApplyFile(p) PROVE finished_at'[r] = finished_at[r]
    BY <2>1, BackfillRow DEF ApplyFile
  <2>2. ASSUME NEW q \in Rows, NEW s \in Terminal, NEW stamp, Finish(q, s, stamp)
        PROVE  finished_at'[r] = finished_at[r]
    BY <2>2 DEF Finish, RowInv, RowsOK, Terminal
  <2>3. ASSUME NEW q \in Rows, Requeue(q) \/ Cleanup(q)
        PROVE  finished_at'[r] = finished_at[r]
    BY <2>3 DEF Requeue, Cleanup, RowInv, RowsOK, Terminal
  <2> QED BY <2>1, <2>2, <2>3 DEF MigrationsNext, Restart, Insert, OldFinish, NewFinish, Tick,
             rowVars, Terminal
<1> QED BY <1>1, RowInit, RowStep, PTL DEF MigrationsSpec, TerminalTimeKept

=============================================================================
