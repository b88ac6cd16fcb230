------------------------------ MODULE Migration ------------------------------
(* migration-shim: several shims over one migration directory and one      *)
(* database.  The lock file is read, removed, created and written in       *)
(* separate system calls; the SQL of a migration and its tracking record   *)
(* are separate statements; what a shim applied is remembered only in its  *)
(* memory, so a restart starts again from version 0.                       *)
EXTENDS Naturals, Sequences, FiniteSets

CONSTANTS
  Migrator,          \* shims that share the migration directory
  MigrationFiles,    \* versions of the *.up.sql files, sorted
  MaxRestarts,       \* bound on crashes and restarts
  TargetDbs,         \* how many targets orchestrate_multi_db is given
  NoOne              \* not a member of Migrator

ASSUME MigrationAssumption ==
  /\ NoOne \notin Migrator
  /\ MigrationFiles \in Seq(Nat \ {0})
  /\ MaxRestarts \in Nat /\ TargetDbs \in Nat

VARIABLES
  lockFile,     \* .migration.lock: its text, who made it, whether it has aged
  migPc,        \* where each shim is in start() or rollback_last_db()
  migrator,     \* applied_records, current_version, counters, loop position
  schema,       \* versions whose SQL is in force
  recorded,     \* rows of schema_migrations
  lockStolen,   \* history: a lock was removed as stale while its maker used it
  restarts
migrationVars ==
  <<lockFile, migPc, migrator, schema, recorded, lockStolen, restarts>>

NoFile == [text |-> "none", by |-> NoOne, old |-> FALSE]
Fresh == [applied |-> {}, current |-> 0, done |-> 0, undone |-> 0, next |-> 1]

MigrationTypeOK ==
  /\ lockFile \in [text : {"none", "empty", "info"}, by : Migrator \cup {NoOne},
                   old : BOOLEAN]
  /\ migPc \in [Migrator -> {"down", "exists", "stale", "remove", "create", "write",
                             "scan", "apply", "record", "release", "unrecord",
                             "up", "failed"}]
  /\ schema \cup recorded \subseteq {MigrationFiles[i] : i \in DOMAIN MigrationFiles}

MigrationInit ==
  /\ lockFile = NoFile
  /\ migPc = [p \in Migrator |-> "down"]
  /\ migrator = [p \in Migrator |-> Fresh]
  /\ schema = {} /\ recorded = {}
  /\ lockStolen = FALSE
  /\ restarts = 0

Goto(p, label) == migPc' = [migPc EXCEPT ![p] = label]
\* Between the creation of its lock file and its release.
Migrating(p) == migPc[p] \in {"write", "scan", "apply", "record", "release"}

\* start(): the tracking table is ensured (a failure is only logged).
MigStart(p) ==
  /\ migPc[p] = "down"
  /\ \E auto_migrate \in BOOLEAN : Goto(p, IF auto_migrate THEN "exists" ELSE "up")
  /\ UNCHANGED <<lockFile, migrator, schema, recorded, lockStolen, restarts>>
----------------------------------------------------------------------------
(* acquire_lock: exists, is_stale, remove, create_new, write               *)

LockExists(p) ==
  /\ migPc[p] = "exists"
  /\ Goto(p, IF lockFile.text = "none" THEN "create" ELSE "stale")
  /\ UNCHANGED <<lockFile, migrator, schema, recorded, lockStolen, restarts>>

\* An unreadable, empty or unparsable file counts as stale, an old one too.
\* A clock that is behind the maker's gives a negative age, which as u64 is
\* large: the lock looks old at once (LockAges may happen at any time).
is_stale == lockFile.text # "info" \/ lockFile.old

LockIsStale(p) ==
  /\ migPc[p] = "stale"
  /\ Goto(p, IF is_stale THEN "remove" ELSE "failed")
  /\ UNCHANGED <<lockFile, migrator, schema, recorded, lockStolen, restarts>>

\* Whatever file is there now is removed, not the one that was judged.
RemoveStale(p) ==
  /\ migPc[p] = "remove"
  /\ IF lockFile.text = "none"
     THEN Goto(p, "failed") /\ UNCHANGED <<lockFile, lockStolen>>
     ELSE /\ Goto(p, "create")
          /\ lockStolen' = (lockStolen \/ \E q \in Migrator : lockFile.by = q /\ Migrating(q))
          /\ lockFile' = NoFile
  /\ UNCHANGED <<migrator, schema, recorded, restarts>>

LockCreateTruncating(p) ==
  /\ migPc[p] = "create"
  /\ Goto(p, "write")
  /\ lockFile' = [text |-> "empty", by |-> p, old |-> FALSE]
  /\ UNCHANGED <<migrator, schema, recorded, lockStolen, restarts>>
LockCreate(p) ==
  /\ migPc[p] = "create"
  /\ IF lockFile.text # "none"
     THEN Goto(p, "failed") /\ UNCHANGED lockFile
     ELSE /\ Goto(p, "write")
          /\ lockFile' = [text |-> "empty", by |-> p, old |-> FALSE]
  /\ UNCHANGED <<migrator, schema, recorded, lockStolen, restarts>>

\* fs::write opens by path: it creates the file again if it is gone, and
\* overwrites it if it is somebody else's by now.
LockWrite(p) ==
  /\ migPc[p] = "write"
  /\ Goto(p, "scan")
  /\ lockFile' = [text |-> "info", by |-> p, old |-> FALSE]
  /\ UNCHANGED <<migrator, schema, recorded, lockStolen, restarts>>

LockAges ==
  /\ lockFile.text = "info" /\ ~lockFile.old
  /\ lockFile' = [lockFile EXCEPT !.old = TRUE]
  /\ UNCHANGED <<migPc, migrator, schema, recorded, lockStolen, restarts>>
----------------------------------------------------------------------------
(* start(): scan, then read and apply each file, then release              *)

\* An error leaves start() by `?`, with the lock file still there.
ScanMigrations(p) ==
  /\ migPc[p] = "scan"
  /\ \/ Goto(p, "failed") /\ UNCHANGED migrator
     \/ Goto(p, "apply") /\ migrator' = [migrator EXCEPT ![p].next = 1]
  /\ UNCHANGED <<lockFile, schema, recorded, lockStolen, restarts>>

\* execute_sql, against PostgreSQL or MySQL: the statement takes effect, or the
\* caller sees the error.
ExecuteSql(after) == schema' = after
\* Errors of these two are logged by their callers and otherwise ignored.
InsertRecord(v) == recorded' \in {recorded, recorded \cup {v}}
DeleteRecord(v) == recorded' \in {recorded, recorded \ {v}}

\* The checks of apply_migration_db before it runs any SQL.
MayApplyAnyNewer(p, v) == v \notin migrator[p].applied /\ v > migrator[p].current
MayApply(p, v) ==
  /\ v \notin migrator[p].applied
  /\ v = migrator[p].current + 1 \/ migrator[p].current = 0

\* dry_run_migration of a file with SQL in it.
WouldApply(p, v) ==
  ~ (v \in migrator[p].applied \/ (v # migrator[p].current + 1 /\ migrator[p].current > 0))

\* A refused or failed migration is logged, and the loop goes on.
ApplyMigration(p) ==
  LET v == MigrationFiles[migrator[p].next] IN
  /\ migPc[p] = "apply" /\ migrator[p].next <= Len(MigrationFiles)
  /\ \/ Goto(p, "failed") /\ UNCHANGED <<migrator, schema>>     \* unreadable file
     \/ /\ ~MayApply(p, v)
        /\ migrator' = [migrator EXCEPT ![p].next = @ + 1]
        /\ UNCHANGED <<migPc, schema>>
     \/ /\ MayApply(p, v)                                        \* the SQL fails
        /\ migrator' = [migrator EXCEPT ![p].next = @ + 1]
        /\ UNCHANGED <<migPc, schema>>
     \/ /\ MayApply(p, v)
        /\ ExecuteSql(schema \cup {v})
        /\ Goto(p, "record") /\ UNCHANGED migrator
  /\ UNCHANGED <<lockFile, recorded, lockStolen, restarts>>

\* A failed insert is logged only: the version is applied all the same.
RecordMigration(p) ==
  LET v == MigrationFiles[migrator[p].next] IN
  /\ migPc[p] = "record"
  /\ InsertRecord(v)
  /\ migrator' = [migrator EXCEPT ![p].applied = @ \cup {v}, ![p].current = v,
                                  ![p].done = @ + 1, ![p].next = @ + 1]
  /\ Goto(p, "apply")
  /\ UNCHANGED <<lockFile, schema, lockStolen, restarts>>

ApplyEnds(p) ==
  /\ migPc[p] = "apply" /\ migrator[p].next > Len(MigrationFiles)
  /\ Goto(p, "release")
  /\ UNCHANGED <<lockFile, migrator, schema, recorded, lockStolen, restarts>>

\* Removes the lock file, whoever made it.
ReleaseLock(p) ==
  /\ migPc[p] = "release"
  /\ lockFile' = NoFile
  /\ Goto(p, "up")
  /\ UNCHANGED <<migrator, schema, recorded, lockStolen, restarts>>
----------------------------------------------------------------------------
(* rollback_last_db, in a running shim, without the lock                   *)

RollbackSql(p) ==
  /\ migPc[p] = "up" /\ migrator[p].current > 0
  /\ \/ UNCHANGED <<migPc, schema>>                              \* down SQL fails
     \/ Goto(p, "unrecord") /\ UNCHANGED schema                  \* no down SQL
     \/ Goto(p, "unrecord") /\ ExecuteSql(schema \ {migrator[p].current})
  /\ UNCHANGED <<lockFile, migrator, recorded, lockStolen, restarts>>

Highest(S) == IF S = {} THEN 0 ELSE CHOOSE v \in S : \A w \in S : w <= v

RollbackRecord(p) ==
  LET left == migrator[p].applied \ {migrator[p].current} IN
  /\ migPc[p] = "unrecord"
  /\ DeleteRecord(migrator[p].current)
  /\ migrator' = [migrator EXCEPT ![p].applied = left, ![p].current = Highest(left),
                                  ![p].undone = @ + 1]
  /\ Goto(p, "up")
  /\ UNCHANGED <<lockFile, schema, lockStolen, restarts>>

\* A crash, a failed start or a stop, and a new process: new() knows nothing
\* of the versions in schema_migrations.
MigRestart(p) ==
  /\ migPc[p] # "down" /\ restarts < MaxRestarts
  /\ Goto(p, "down")
  /\ migrator' = [migrator EXCEPT ![p] = Fresh]
  /\ restarts' = restarts + 1
  /\ UNCHANGED <<lockFile, schema, recorded, lockStolen>>

MigrationNext ==
  \/ LockAges
  \/ \E p \in Migrator :
       \/ MigStart(p) \/ LockExists(p) \/ LockIsStale(p) \/ RemoveStale(p)
       \/ LockCreate(p) \/ LockWrite(p) \/ ScanMigrations(p) \/ ApplyMigration(p)
       \/ RecordMigration(p) \/ ApplyEnds(p) \/ ReleaseLock(p)
       \/ RollbackSql(p) \/ RollbackRecord(p) \/ MigRestart(p)
----------------------------------------------------------------------------
(* orchestrate_multi_db: the targets one after the other, with neither lock *)
(* nor ledger; a target that fails stops nothing.                           *)

VARIABLES
  target,          \* the target, its next file (0: not connected), applied, errors
  targetSchema,    \* per target: the files whose SQL is in force
  target_results   \* per finished target: success, migrations_applied
targetVars == <<target, targetSchema, target_results>>

BeginTarget(t) == [at |-> t, file |-> 0, applied |-> 0, errors |-> 0]

TargetInit ==
  /\ target = BeginTarget(1)
  /\ targetSchema = [t \in 1..TargetDbs |-> {}]
  /\ target_results = << >>

TargetEnded(errors) ==
  /\ target_results' = Append(target_results,
                              [success |-> errors = 0, applied |-> target.applied])
  /\ target' = BeginTarget(target.at + 1)
  /\ UNCHANGED targetSchema

\* The connection fails, or the database type is not supported.
TargetConnect ==
  /\ target.at <= TargetDbs /\ target.file = 0
  /\ \/ TargetEnded(1)
     \/ target' = [target EXCEPT !.file = 1] /\ UNCHANGED <<targetSchema, target_results>>

\* Each file is read and given a connection of its own.
TargetFile ==
  LET next == [target EXCEPT !.file = @ + 1] IN
  /\ target.file \in DOMAIN MigrationFiles
  /\ \/ target' = [next EXCEPT !.errors = @ + 1] /\ UNCHANGED targetSchema
     \/ target' = next /\ UNCHANGED targetSchema      \* this connection fails: no error
     \/ /\ target' = [next EXCEPT !.applied = @ + 1]
        /\ targetSchema' = [targetSchema EXCEPT ![target.at] = @ \cup {target.file}]
  /\ UNCHANGED target_results

TargetDone == target.file > Len(MigrationFiles) /\ TargetEnded(target.errors)

TargetNext == TargetConnect \/ TargetFile \/ TargetDone
----------------------------------------------------------------------------
(* Two shims migrate at the same time only after a lock in use was removed *)
(* as stale: create_new keeps everyone else out.                           *)
OverlapNeedsTheft ==
  (\E p, q \in Migrator : p # q /\ Migrating(p) /\ Migrating(q)) => lockStolen

(* What README.md says of the lock file: no two shims migrate at the same  *)
(* time.  The empty file between create_new and write, a clock that is     *)
(* behind, and the gap between is_stale and remove each break it.          *)
LockExcludes == \A p, q \in Migrator : Migrating(p) /\ Migrating(q) => p = q

(* A shim's records: the applied versions are an interval that ends at     *)
(* current_version, the counters account for each of them, and the dry run *)
(* predicts the checks of the real one.                                    *)
LedgerIsAnInterval ==
  \A p \in Migrator :
    LET m == migrator[p] IN
    /\ m.current = Highest(m.applied)
    /\ \A v \in 1..m.current : v \in m.applied \/ \A w \in m.applied : w > v
    /\ m.done = m.undone + Cardinality(m.applied)
    /\ \A v \in schema : MayApply(p, v) <=> WouldApply(p, v)

(* The report of orchestrate_multi_db has every target up to the one at    *)
(* work, whichever failed, and counts what is in force there.              *)
ResultsMatchTargets ==
  /\ Len(target_results) = target.at - 1
  /\ \A t \in DOMAIN target_results :
       target_results[t].applied = Cardinality(targetSchema[t])
=============================================================================
