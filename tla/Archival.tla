------------------------------ MODULE Archival ------------------------------
(***************************************************************************)
(* archival-shim: archive_batch copies a source file to a numbered file of *)
(* its table and logs a record; purge_expired drops the records past their *)
(* retention and apply_lifecycle moves hot records to a colder tier.  The  *)
(* log and the counter that numbers the files live in memory, the files on *)
(* disk.  A batch's data is the day it was archived and the serial number  *)
(* of the source.                                                          *)
(***************************************************************************)
EXTENDS Naturals, Sequences, SequencesExt, FiniteSets

CONSTANTS
  Table,           \* tables with a retention rule, and tables without
  RuleTier,        \* the tier a table's rule gives, Table -> tier
  RuleDays,        \* the retention a table's rule gives, in days
  Lifecycles,      \* settings of ARCHIVAL_{HOT,WARM,LIFECYCLE}_DAYS to try
  MaxArchives,     \* bound: batches archived
  MaxDay           \* bound: days that pass

ASSUME ArchivalAssumption ==
  /\ RuleTier \in [Table -> {"Hot", "Warm", "Cold"}]
  /\ RuleDays \in [Table -> Nat]
  /\ Lifecycles \subseteq [hot: Nat, warm: Nat, lifecycle: Nat]
  /\ {MaxArchives, MaxDay} \subseteq Nat

VARIABLES
  lifecycle,       \* the setting this shim runs with
  today,
  sources,         \* source files handed to archive_batch so far
  counter,         \* record_counter
  archive_log,     \* the logged records, oldest first
  archived         \* <<table, number>> -> the source the file holds

archivalVars == <<lifecycle, today, sources, counter, archive_log, archived>>

NoData == 0        \* a record without a source, a copy that broke off

ArchivalInit ==
  /\ lifecycle \in Lifecycles
  /\ today = 0 /\ sources = 0 /\ counter = 0
  /\ archive_log = <<>>
  /\ archived = << >>

DayPasses ==
  /\ today < MaxDay /\ today' = today + 1
  /\ UNCHANGED <<lifecycle, sources, counter, archive_log, archived>>

(* The number of the next file: the counter is advanced first. *)
NextNumber == counter + 1

Record(t, data) ==
  [table |-> t, number |-> NextNumber, data |-> data, at |-> today,
   tier |-> RuleTier[t], until |-> today + RuleDays[t]]

WriteArchive(t, data) ==
  archived' = [f \in DOMAIN archived \cup {<<t, NextNumber>>} |->
                 IF f = <<t, NextNumber>> THEN data ELSE archived[f]]

(* archive_batch with a source: the copy is logged, the source stays. *)
ArchiveSource(t) ==
  /\ sources < MaxArchives
  /\ sources' = sources + 1
  /\ counter' = counter + 1
  /\ WriteArchive(t, sources')
  /\ archive_log' = Append(archive_log, Record(t, sources'))
  /\ UNCHANGED <<lifecycle, today>>

(* The copy fails: the number is used up and nothing is logged. *)
ArchiveFails(t) ==
  /\ sources < MaxArchives
  /\ sources' = sources + 1
  /\ counter' = counter + 1
  /\ WriteArchive(t, NoData)
  /\ UNCHANGED <<lifecycle, today, archive_log>>

(* archive_batch without a source: a record of data that is not moved. *)
ArchiveMetadata(t) ==
  /\ sources < MaxArchives
  /\ sources' = sources + 1
  /\ counter' = counter + 1
  /\ archive_log' = Append(archive_log, Record(t, NoData))
  /\ UNCHANGED <<lifecycle, today, archived>>

is_retention_expired(r) == today > r.until

(* purge_expired: the records go, their files stay. *)
PurgeExpired ==
  /\ archive_log' = FlattenSeq([i \in DOMAIN archive_log |->
                       IF is_retention_expired(archive_log[i]) THEN <<>>
                       ELSE <<archive_log[i]>>])
  /\ archive_log' # archive_log
  /\ UNCHANGED <<lifecycle, today, sources, counter, archived>>

(* The tier apply_lifecycle gives a hot record of this age.  Warm records  *)
(* are not looked at again.                                                *)
TierAt(age) ==
  CASE lifecycle.hot > 0 /\ age >= lifecycle.hot -> "Cold"
    [] ~(lifecycle.hot > 0 /\ age >= lifecycle.hot)
         /\ lifecycle.warm > 0 /\ age >= lifecycle.warm -> "Warm"
    [] lifecycle.hot = 0 /\ lifecycle.warm = 0 /\ lifecycle.lifecycle > 0
         /\ age >= lifecycle.lifecycle -> "Cold"
    [] lifecycle.hot = 0 /\ lifecycle.warm = 0 /\ lifecycle.lifecycle > 0
         /\ age < lifecycle.lifecycle
         /\ age >= lifecycle.lifecycle \div 2 -> "Warm"
    [] OTHER -> "Hot"

ApplyLifecycle ==
  /\ archive_log' = [i \in DOMAIN archive_log |->
       LET r == archive_log[i]
       IN  IF r.tier = "Hot" THEN [r EXCEPT !.tier = TierAt(today - r.at)] ELSE r]
  /\ archive_log' # archive_log
  /\ UNCHANGED <<lifecycle, today, sources, counter, archived>>

(* A new process: counter and log start again, the files are still there. *)
ArchivalRestart ==
  /\ counter > 0
  /\ counter' = 0 /\ archive_log' = <<>>
  /\ UNCHANGED <<lifecycle, today, sources, archived>>

ArchivalNext ==
  \/ DayPasses \/ PurgeExpired \/ ApplyLifecycle \/ ArchivalRestart
  \/ \E t \in Table : ArchiveSource(t) \/ ArchiveFails(t) \/ ArchiveMetadata(t)

-----------------------------------------------------------------------------
(* Every logged record's file holds the data the record was made of, and   *)
(* no two logged records share a file: purging and failed copies never     *)
(* make archive_batch write over an archive that is still logged, and a    *)
(* restart, which numbers the files from one again, has forgotten the      *)
(* records whose files it overwrites.                                      *)
LoggedIsArchived ==
  \A i \in DOMAIN archive_log :
    LET r == archive_log[i]
    IN  /\ r.data # NoData => archived[<<r.table, r.number>>] = r.data
        /\ \A k \in DOMAIN archive_log :
             k # i => <<archive_log[k].table, archive_log[k].number>>
                        # <<r.table, r.number>>
=============================================================================
