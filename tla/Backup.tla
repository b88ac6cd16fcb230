------------------------------- MODULE Backup -------------------------------
(***************************************************************************)
(* backup-shim: start() runs one backup and spawns the loop that sleeps    *)
(* until the next scheduled time and backs up again.  A backup dumps the   *)
(* database into a file named after the current second, retrying failed    *)
(* dumps, reads the file back for its checksum, uploads it to S3 and       *)
(* records it.  Time is counted in half seconds: the schedule and the file *)
(* names know whole seconds only.  A dump's content is its run's number.   *)
(***************************************************************************)
EXTENDS Naturals, Sequences, FiniteSets

CONSTANTS
  Every,           \* the schedule fires at the multiples of Every
  RetryAttempts,   \* BACKUP_RETRY_MAX_ATTEMPTS
  Retention,       \* BACKUP_RETENTION_DAYS
  MaxBackups,      \* bound: runs of backup() in a behaviour
  MaxNow           \* bound: the clock

ASSUME BackupAssumption ==
  /\ {Every, RetryAttempts, Retention, MaxBackups, MaxNow} \subseteq Nat
  /\ Every > 0 /\ MaxBackups > 0

VARIABLES
  backupSetup,     \* storage "s3" or "local", BACKUP_S3_REMOVE_LOCAL, database
  wallClock,       \* in half seconds
  job,             \* the running backup() and the loop around it
  started,         \* history: the file names of all runs of backup()
  disk, bucket,    \* file name -> content, in output_dir and in S3
  backupState      \* BackupState: history and counters

backupVars == <<backupSetup, wallClock, job, started, disk, bucket, backupState>>

Truncated == 0     \* the content a failed write leaves
JobPcs == {"asleep", "dump", "read", "upload", "record", "off"}

BackupInit ==
  /\ backupSetup \in [storage: {"local", "s3"}, remove: BOOLEAN,
                      db_type: {"sql", "mongo"}]
  /\ wallClock = 0 /\ started = <<0>>
  /\ job = [pc |-> "dump", name |-> 0, attempt |-> 0, sum |-> Truncated,
            wake |-> 0, stopping |-> FALSE]
  /\ disk = << >> /\ bucket = << >>
  /\ backupState = [history |-> {}, success |-> 0, failure |-> 0, expired |-> 0]

Second(t) == t \div 2

Put(files, name, content) ==
  [n \in DOMAIN files \cup {name} |-> IF n = name THEN content ELSE files[n]]

BackupTick ==
  /\ wallClock < MaxNow /\ wallClock' = wallClock + 1
  /\ UNCHANGED <<backupSetup, job, started, disk, bucket, backupState>>

(* The loop turns to the next scheduled time and sleeps the whole seconds  *)
(* until then; what is left of a second is lost, so it wakes early.        *)
NextScheduled(t) == CHOOSE u \in (t + 1)..(t + Every) : u % Every = 0

Slept(j) ==
  [j EXCEPT !.pc = "asleep", !.wake = wallClock + 2 * ((NextScheduled(wallClock) - wallClock) \div 2)]

(* backup() names its file after the second it starts in. *)
Wake ==
  /\ job.pc = "asleep" /\ ~job.stopping /\ wallClock >= job.wake
  /\ Len(started) < MaxBackups
  /\ started' = Append(started, Second(wallClock))
  /\ job' = [job EXCEPT !.pc = "dump", !.name = Second(wallClock), !.attempt = 0]
  /\ UNCHANGED <<backupSetup, wallClock, disk, bucket, backupState>>

StopBackups ==
  /\ ~job.stopping /\ (job.pc = "asleep" \/ Len(started) > 1)
  /\ job' = [job EXCEPT !.stopping = TRUE]
  /\ UNCHANGED <<backupSetup, wallClock, started, disk, bucket, backupState>>

(* The shutdown signal is seen only between backups. *)
BackupLoopEnds ==
  /\ job.pc = "asleep" /\ job.stopping
  /\ job' = [job EXCEPT !.pc = "off"]
  /\ UNCHANGED <<backupSetup, wallClock, started, disk, bucket, backupState>>

(* The dump command succeeds and its output is written to the file. *)
DumpWritten ==
  /\ job.pc = "dump" /\ backupSetup.db_type = "sql"
  /\ disk' = Put(disk, job.name, Len(started))
  /\ job' = [job EXCEPT !.pc = "read"]
  /\ UNCHANGED <<backupSetup, wallClock, started, bucket, backupState>>

(* The command fails, or the write breaks off and leaves a truncated file. *)
DumpFails ==
  /\ job.pc = "dump" /\ backupSetup.db_type = "sql"
  /\ \/ UNCHANGED disk
     \/ disk' = Put(disk, job.name, Truncated)
  /\ IF job.attempt < RetryAttempts
     THEN /\ job' = [job EXCEPT !.attempt = @ + 1]
          /\ UNCHANGED backupState
     ELSE /\ job' = Slept(job)
          /\ backupState' = [backupState EXCEPT !.failure = @ + 1]
  /\ UNCHANGED <<backupSetup, wallClock, started, bucket>>

(* mongodump's status is not looked at, and what it leaves at the path is  *)
(* a directory: reading it back fails and backup() returns without         *)
(* recording a failure.                                                    *)
DumpMongo ==
  /\ job.pc = "dump" /\ backupSetup.db_type = "mongo"
  /\ job' = Slept(job)
  /\ UNCHANGED <<backupSetup, wallClock, started, disk, bucket, backupState>>

(* The file is read back for its size and checksum. *)
ReadBack ==
  /\ job.pc = "read"
  /\ job' = [job EXCEPT !.sum = disk[job.name],
                        !.pc = IF backupSetup.storage = "s3"
                               THEN "upload" ELSE "record"]
  /\ UNCHANGED <<backupSetup, wallClock, started, disk, bucket, backupState>>

UploadedOrNot(ok) ==
  /\ bucket' = IF ok THEN Put(bucket, job.name, disk[job.name]) ELSE bucket
  /\ disk' = IF backupSetup.remove
             THEN [n \in DOMAIN disk \ {job.name} |-> disk[n]] ELSE disk

(* The upload reads the file again; the local copy may be dropped, but     *)
(* only after an upload that succeeded.                                    *)
Uploaded(ok) ==
  /\ bucket' = IF ok THEN Put(bucket, job.name, disk[job.name]) ELSE bucket
  /\ disk' = IF ok /\ backupSetup.remove
             THEN [n \in DOMAIN disk \ {job.name} |-> disk[n]] ELSE disk

UploadToS3(ok) ==
  /\ job.pc = "upload"
  /\ Uploaded(ok)
  /\ job' = [job EXCEPT !.pc = "record"]
  /\ UNCHANGED <<backupSetup, wallClock, started, backupState>>

(* record_backup() ends the backup, whether or not the upload succeeded.    *)
(* The order of the entries shows in e.run.                                *)
RecordBackup ==
  /\ job.pc = "record"
  /\ backupState' =
       [backupState EXCEPT
          !.history = @ \cup {[name |-> job.name, sum |-> job.sum, at |-> wallClock,
                                run |-> Len(started)]},
          !.success = @ + 1]
  /\ job' = Slept(job)
  /\ UNCHANGED <<backupSetup, wallClock, started, disk, bucket>>

(* cleanup_retention() forgets the entries past retention and returns      *)
(* their names; the files are the caller's business.                       *)
CleanupRetention ==
  LET kept == {e \in backupState.history : e.at + Retention >= wallClock}
  IN  /\ kept # backupState.history
      /\ backupState' =
           [backupState EXCEPT !.history = kept,
              !.expired = @ + Cardinality(backupState.history \ kept)]
      /\ UNCHANGED <<backupSetup, wallClock, job, started, disk, bucket>>

BackupNext ==
  \/ BackupTick \/ Wake \/ StopBackups \/ BackupLoopEnds
  \/ DumpWritten \/ DumpFails \/ DumpMongo \/ ReadBack
  \/ \E ok \in BOOLEAN : UploadToS3(ok)
  \/ RecordBackup \/ CleanupRetention

(* BackupVerifier::verify on a file and an expected checksum. *)
verify(files, name, sum) ==
  /\ name \in DOMAIN files
  /\ files[name] # Truncated
  /\ files[name] = sum

-----------------------------------------------------------------------------
BackupTypeOK ==
  /\ wallClock \in 0..MaxNow /\ started \in Seq(0..Second(MaxNow))
  /\ job.pc \in JobPcs /\ job.attempt \in 0..RetryAttempts
  /\ job.sum \in 0..MaxBackups
  /\ \A n \in DOMAIN disk : disk[n] \in 0..MaxBackups
  /\ \A n \in DOMAIN bucket : bucket[n] \in 1..MaxBackups

(* A recorded backup can be restored: it passes BackupVerifier::verify on  *)
(* disk or in S3, unless a backup of the same second has taken its file    *)
(* name since (backup(): retries, upload errors, BACKUP_S3_REMOVE_LOCAL    *)
(* and the early wake-ups of the loop).                                    *)
LastBackupIsRestorable ==
  \A e \in backupState.history :
    LET reused == \E k \in (e.run + 1)..Len(started) : started[k] = e.name
    IN  reused \/ verify(disk, e.name, e.sum) \/ verify(bucket, e.name, e.sum)
=============================================================================
