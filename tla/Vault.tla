-------------------------------- MODULE Vault --------------------------------
(***************************************************************************)
(* vault-shim: start() rotates once, then the loop rotates on every tick   *)
(* of an interval.  A rotation asks Vault for credentials with a lease and *)
(* writes them over the output file, which truncates it first.  A failed   *)
(* rotation is tried again at the next tick only.  Credentials are the     *)
(* time they were issued at.                                               *)
(***************************************************************************)
EXTENDS Naturals

CONSTANTS
  Rotation,        \* VAULT_ROTATION_SECS
  Lease,           \* lease_duration of the credentials
  Latency,         \* the longest a request to Vault takes
  MaxTime          \* bound: the clock

ASSUME VaultAssumption ==
  /\ {Rotation, Lease, Latency, MaxTime} \subseteq Nat /\ Rotation > 0

VARIABLES
  clock,
  rotating,        \* the rotation in progress: its step, when it began
  output_file,     \* what a database client reads there
  due,             \* the interval's next tick
  rotations        \* failed since the last success; still the initial one

vaultVars == <<clock, rotating, output_file, due, rotations>>

Absent == [state |-> "absent", issued |-> 0]
Empty  == [state |-> "empty", issued |-> 0]

VaultInit ==
  /\ clock = 0 /\ due = 0
  /\ rotating = [pc |-> "asking", since |-> 0, issued |-> 0, stop |-> FALSE]
  /\ output_file = Absent
  /\ rotations = [failedSince |-> FALSE, initial |-> TRUE]

(* Time passes while the loop sleeps or Vault is asked, but the timer and  *)
(* the request are not late.                                               *)
VaultTick ==
  /\ clock < MaxTime
  /\ rotating.pc = "asleep" => clock < due
  /\ rotating.pc = "asking" => clock < rotating.since + Latency
  /\ rotating.pc # "writing"
  /\ clock' = clock + 1
  /\ UNCHANGED <<rotating, output_file, due, rotations>>

RotationBegins ==
  /\ rotating.pc = "asleep" /\ clock >= due
  /\ rotating' = [rotating EXCEPT !.pc = "asking", !.since = clock]
  /\ due' = due + Rotation
  /\ UNCHANGED <<clock, output_file, rotations>>

(* generate_dynamic or read_secret answers; fs::write truncates the file   *)
(* before it writes.                                                       *)
VaultAnswers ==
  /\ rotating.pc = "asking"
  /\ rotating' = [rotating EXCEPT !.pc = "writing", !.issued = clock]
  /\ output_file' = Empty
  /\ UNCHANGED <<clock, due, rotations>>

(* The interval is created when the initial rotation is over, and its      *)
(* first tick is at once.                                                  *)
DueNext == due' = IF rotations.initial THEN clock ELSE due

CredentialsWritten ==
  /\ rotating.pc = "writing"
  /\ output_file' = [state |-> "written", issued |-> rotating.issued]
  /\ rotating' = [rotating EXCEPT !.pc = "asleep"]
  /\ rotations' = [failedSince |-> FALSE, initial |-> FALSE]
  /\ DueNext /\ UNCHANGED clock

RotationErrorIgnored ==
  /\ rotating.pc \in {"asking", "writing"}
  /\ rotating' = [rotating EXCEPT !.pc = "asleep"]
  /\ rotations' = [rotations EXCEPT !.initial = FALSE]
  /\ DueNext /\ UNCHANGED <<clock, output_file>>

(* Vault refuses or the write breaks off: counted, and left at that. *)
RotationFails ==
  /\ rotating.pc \in {"asking", "writing"}
  /\ rotating' = [rotating EXCEPT !.pc = "asleep"]
  /\ rotations' = [failedSince |-> TRUE, initial |-> FALSE]
  /\ DueNext /\ UNCHANGED <<clock, output_file>>

VaultStop ==
  /\ ~rotations.initial /\ ~rotating.stop
  /\ rotating' = [rotating EXCEPT !.stop = TRUE]
  /\ UNCHANGED <<clock, output_file, due, rotations>>

(* The shutdown signal is seen between rotations. *)
VaultLoopEnds ==
  /\ rotating.pc = "asleep" /\ rotating.stop
  /\ rotating' = [rotating EXCEPT !.pc = "off"]
  /\ UNCHANGED <<clock, output_file, due, rotations>>

VaultNext ==
  \/ VaultTick \/ RotationBegins \/ VaultAnswers \/ CredentialsWritten
  \/ RotationFails \/ VaultStop \/ VaultLoopEnds

-----------------------------------------------------------------------------
(* While the loop runs, the file holds credentials whose lease has not run *)
(* out, unless a rotation has failed since they were written, one is being *)
(* written this moment, or the interval leaves no room for the request     *)
(* (rotate() and the loop of VaultShim::start; with the defaults interval  *)
(* and lease are both 3600 s).                                             *)
CredentialsAreFresh ==
  \/ rotations.failedSince \/ rotations.initial
  \/ rotating.pc \in {"writing", "off"}
  \/ Lease < Rotation + Latency
  \/ output_file.state = "written" /\ clock <= output_file.issued + Lease
=============================================================================
