------------------------------- MODULE Audit --------------------------------
(***************************************************************************)
(* audit-shim: every entry is appended to a daily file as a JSON text and, *)
(* by a second write, a newline; the entries in memory are written again   *)
(* to a rotation file when there are too many of them; start reads every   *)
(* file back.  The file is a tokio::fs::File that is never flushed: a      *)
(* write_all hands its bytes to a thread and reports the error of the      *)
(* write before it.  So the text is in the file when log_entry answers,    *)
(* but its newline is still to be written, may be overtaken by the next    *)
(* text, may fail unseen, and is lost when the process ends.               *)
(***************************************************************************)
EXTENDS Naturals, Sequences, FiniteSets, FiniteSetsExt

CONSTANTS
  MaxAuditEntries,                    \* AUDIT_MAX_ENTRIES
  MaxAudited, MaxAuditRestarts   \* bounds

VARIABLES
  entry_counter,
  auditLog,       \* the entries in memory, without their order and copies
  dailyFile,      \* lines, each a sequence of the texts written to it
  newline,        \* the daily file ends with a newline
  queued,         \* newlines handed to a thread and not written yet
  rotated,        \* entries that can be read in the rotation files
  auditSerial,    \* history: entries created
  acknowledged,   \* history: entries log_entry returned Ok(true) for
  joined,         \* history: texts that were written to an open line
  blindStart,     \* history: a start could not read the files
  auditRestarts

fileVars == <<dailyFile, newline, queued, joined>>
auditVars == <<entry_counter, auditLog, fileVars, rotated, auditSerial, acknowledged,
               blindStart, auditRestarts>>

AuditInit ==
  /\ entry_counter = 0 /\ auditLog = {}
  /\ dailyFile = <<>> /\ newline = TRUE /\ queued = 0 /\ joined = 0
  /\ rotated = {}
  /\ auditSerial = 0 /\ acknowledged = {} /\ blindStart = FALSE
  /\ auditRestarts = 0

(* An entry is its id and, to tell entries apart, the time it was made. *)
NewEntry == [id |-> entry_counter + 1, made |-> auditSerial + 1]

Half == [id |-> 0, made |-> 0]     \* a text that was cut off

(* A line is parsed when it holds exactly one whole text. *)
Parsed(line) == IF Len(line) = 1 /\ line[1] # Half THEN {line[1]} ELSE {}
Read(files, daily) == files \cup UNION {Parsed(daily[i]) : i \in DOMAIN daily}
Readable == Read(rotated, dailyFile)

(* Text goes to the end of the daily file: to its last line, if that has   *)
(* no newline yet.                                                         *)
AppendedTruncating(text) == <<<<text>>>>

Appended(text) ==
  IF newline THEN Append(dailyFile, <<text>>)
  ELSE [dailyFile EXCEPT ![Len(dailyFile)] = Append(@, text)]

WriteText(text) ==
  /\ dailyFile' = Appended(text) /\ newline' = FALSE
  /\ joined' = IF newline THEN joined ELSE joined + 1

WriteToDisk(entry) == WriteText(entry) /\ queued' = queued + 1

(* A newline reaches the file, or fails with nobody left to see the error. *)
NewlineEnds ==
  /\ queued > 0 /\ queued' = queued - 1
  /\ newline' \in {TRUE, newline}
  /\ UNCHANGED <<entry_counter, auditLog, dailyFile, joined, rotated, auditSerial,
                 acknowledged, blindStart, auditRestarts>>

CreateEntry ==
  /\ auditSerial < MaxAudited
  /\ entry_counter' = entry_counter + 1 /\ auditSerial' = auditSerial + 1

(* An entry faster than AUDIT_MIN_DURATION_MS is filtered; one whose file  *)
(* cannot be opened is reported to the caller; both have used up their id. *)
LogNothing ==
  /\ CreateEntry
  /\ UNCHANGED <<auditLog, fileVars, rotated, acknowledged, blindStart, auditRestarts>>

(* The write fails, or the caller drops the future, after some or all of   *)
(* the text was written: no newline is handed over.                        *)
LogWriteFails ==
  /\ CreateEntry
  /\ \E text \in {Half, NewEntry} : WriteText(text)
  /\ UNCHANGED <<queued, auditLog, rotated, acknowledged, blindStart, auditRestarts>>

(* The webhook fails after the entry was written. *)
LogWebhookFails ==
  /\ CreateEntry /\ WriteToDisk(NewEntry)
  /\ UNCHANGED <<auditLog, rotated, acknowledged, blindStart, auditRestarts>>

(* Texts that go to a rotation file of their own or, within the second of  *)
(* the last rotation, to the end of that one's file, whose last line may   *)
(* be open: the first text joins it, and what stood there, if it was       *)
(* whole, cannot be read either.                                           *)
RotateLog(texts) ==
  \/ rotated' = rotated \cup texts
  \/ \E first \in texts, spoilt \in {{}} \cup {{e} : e \in rotated} :
        rotated' = (rotated \ spoilt) \cup (texts \ {first})

(* log.len() > max_entries.  A log that was read back from several files   *)
(* may hold an entry several times: it is longer than auditLog tells.      *)
TooLong(log) == Cardinality(log) > MaxAuditEntries
MayBeTooLong(log) == TooLong(log) \/ auditRestarts > 0

(* The rotation writes all of the log and then clears it. *)
LogEntry ==
  LET log == auditLog \cup {NewEntry}
  IN  /\ CreateEntry /\ WriteToDisk(NewEntry)
      /\ \/ MayBeTooLong(log) /\ RotateLog(log) /\ auditLog' = {}
         \/ ~TooLong(log) /\ auditLog' = log /\ UNCHANGED rotated
      /\ acknowledged' = acknowledged \cup {NewEntry}
      /\ UNCHANGED <<blindStart, auditRestarts>>

(* A rotation that fails has written a part of the log and keeps it; the   *)
(* entry that was just logged is then reported as an error.                *)
LogRotateFails ==
  LET log == auditLog \cup {NewEntry}
  IN  /\ CreateEntry /\ WriteToDisk(NewEntry)
      /\ MayBeTooLong(log) /\ \E texts \in SUBSET log : RotateLog(texts)
      /\ auditLog' = log
      /\ UNCHANGED <<acknowledged, blindStart, auditRestarts>>

ForceRotate ==
  /\ auditLog # {}
  /\ \/ RotateLog(auditLog) /\ auditLog' = {}
     \/ (\E texts \in SUBSET auditLog : RotateLog(texts)) /\ UNCHANGED auditLog
  /\ UNCHANGED <<entry_counter, fileVars, auditSerial, acknowledged, blindStart,
                 auditRestarts>>

ClearLogBefore(t) ==
  /\ auditLog' = {e \in auditLog : e.made >= t}
  /\ UNCHANGED <<entry_counter, fileVars, rotated, auditSerial, acknowledged,
                 blindStart, auditRestarts>>

(* The ids go on from the highest one that could be read. *)
LoadedCounter(readable) == Max({0} \cup {e.id : e \in readable})

(* The process ends, possibly within write_to_disk, and starts again: the  *)
(* newlines that were handed over and not written are lost.                *)
AuditRestart ==
  /\ auditRestarts < MaxAuditRestarts /\ auditRestarts' = auditRestarts + 1
  /\ queued' = 0
  /\ \/ UNCHANGED <<dailyFile, newline, joined, auditSerial>>
     \/ /\ auditSerial < MaxAudited /\ auditSerial' = auditSerial + 1
        /\ \E text \in {Half, NewEntry} : WriteText(text)
  /\ \/ /\ auditLog' = Read(rotated, dailyFile')
        /\ entry_counter' = LoadedCounter(auditLog')
        /\ UNCHANGED blindStart
     \/ /\ auditLog' = {} /\ entry_counter' = 0   \* a file could not be read
        /\ blindStart' = TRUE
  /\ UNCHANGED <<rotated, acknowledged>>

AuditNext ==
  \/ LogNothing \/ LogWriteFails \/ LogWebhookFails \/ LogEntry \/ LogRotateFails
  \/ NewlineEnds \/ ForceRotate \/ AuditRestart
  \/ \E t \in 1..MaxAudited : ClearLogBefore(t)

-----------------------------------------------------------------------------
(* An id names one entry in all of the files, rotated copies included, as  *)
(* long as every start could read them (load_from_disk, create_entry).     *)
IdsNameOneEntry ==
  ~blindStart =>
    \A e, f \in Readable : e.id = f.id => e = f

(* An acknowledged entry stays readable unless its line was joined: each   *)
(* text that is written to a line without a newline, after a crash, a      *)
(* failed write or a newline that is late or lost, costs at most itself    *)
(* and the entry that stood there, whatever is rotated, cleared and read   *)
(* back (write_to_disk, rotate_log, load_from_disk).                       *)
JoinedLinesCostTwo ==
  Cardinality(acknowledged \ Readable) <= 2 * joined
=============================================================================
