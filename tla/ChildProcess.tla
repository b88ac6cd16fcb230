---------------------------- MODULE ChildProcess ----------------------------
(***************************************************************************)
(* The child process manager of shim-core (process.rs) with the shutdown   *)
(* sequences it runs (shutdown.rs) and the background task that reaps      *)
(* zombies. The kernel's view of the child's pid (os) changes under the    *)
(* manager's feet: the child exits, the reaper collects it, and its pid    *)
(* may be given to another process while the manager still holds it.       *)
(***************************************************************************)
EXTENDS Integers

CONSTANTS
  DbTypes,     \* the database types to consider
  Entries,     \* the ways of stopping a child to consider
  MaxStarts,   \* bound on the number of spawned processes
  MayRecycle   \* may the kernel reuse the pid of a reaped child

ASSUME StartsAssumption == MaxStarts \in Nat \ {0}
ASSUME RecycleAssumption == MayRecycle \in BOOLEAN
ASSUME EntriesAssumption == Entries \subseteq {"stop", "graceful_shutdown"}
ASSUME DbTypesAssumption == DbTypes \subseteq {"Postgres", "Redis", "Generic"}

VARIABLES
  db_type,      \* selects the shutdown sequence
  entry,        \* ChildProcess::stop or the free function graceful_shutdown
  starts,       \* processes spawned so far
  os,           \* what the kernel knows about the last pid spawned
  pid,          \* ChildProcess.pid is Some
  state,        \* ChildProcess.state
  term_sent,    \* SIGTERM was delivered to the child
  kill_sent,    \* SIGKILL was delivered to the child
  stop_pc,      \* where the shutdown sequence is suspended
  clean_exit    \* ShutdownResult.clean_exit of the last sequence

child == <<starts, os, pid, state, term_sent, kill_sent, stop_pc, clean_exit>>
procVars == <<db_type, entry, child>>

\* "none": never started; "zombie": exited, not reaped; "gone": reaped;
\* "recycled": reaped and the pid now names another process.
OsState == {"none", "running", "zombie", "gone", "recycled"}
ProcessState == {"Stopped", "Running", "Stopping"}
StopPC == {"idle", "sleep1", "sleep2", "wait", "kill", "result", "forced"}

\* Types, and: a pid is kept exactly while the manager is not Stopped, and a
\* shutdown sequence is under way only in Stopping.
ProcTypeOK ==
  /\ db_type \in DbTypes
  /\ entry \in Entries
  /\ starts \in 0..MaxStarts
  /\ os \in OsState
  /\ pid \in BOOLEAN
  /\ state \in ProcessState
  /\ term_sent \in BOOLEAN /\ kill_sent \in BOOLEAN
  /\ stop_pc \in StopPC
  /\ clean_exit \in BOOLEAN
  /\ pid = (state # "Stopped")
  /\ stop_pc # "idle" => state = "Stopping"

ProcInit ==
  /\ db_type \in DbTypes
  /\ entry \in Entries
  /\ starts = 0
  /\ os = "none"
  /\ pid = FALSE
  /\ state = "Stopped"
  /\ term_sent = FALSE /\ kill_sent = FALSE
  /\ stop_pc = "idle"
  /\ clean_exit = FALSE

-----------------------------------------------------------------------------
\* The kernel and the child.

\* The child exits by itself, on SIGTERM or on SIGKILL.
ChildExits ==
  /\ os = "running"
  /\ os' = "zombie"
  /\ UNCHANGED <<db_type, entry, starts, pid, state, term_sent, kill_sent,
                 stop_pc, clean_exit>>

\* The task spawned by start(): waitpid(-1, WNOHANG) every 100 ms.
Reap ==
  /\ os = "zombie"
  /\ os' = "gone"
  /\ UNCHANGED <<db_type, entry, starts, pid, state, term_sent, kill_sent,
                 stop_pc, clean_exit>>

Recycle ==
  /\ MayRecycle
  /\ os = "gone"
  /\ os' = "recycled"
  /\ UNCHANGED <<db_type, entry, starts, pid, state, term_sent, kill_sent,
                 stop_pc, clean_exit>>

-----------------------------------------------------------------------------
\* kill(pid, 0) succeeds for any process of that pid, zombies included.
IsProcessAlive == os \in {"running", "zombie", "recycled"}

\* is_running(): /proc/<pid>/status, zombies excluded.
IsRunning == pid /\ os \in {"running", "recycled"}

\* start(): spawn fails, or yields a fresh process.
StartChild ==
  /\ starts < MaxStarts
  /\ starts' = starts + 1
  /\ os' = "running"
  /\ pid' = TRUE
  /\ state' = "Running"
  /\ term_sent' = FALSE /\ kill_sent' = FALSE
  /\ UNCHANGED <<db_type, entry, stop_pc, clean_exit>>

\* The shutdown sequence starts with SIGTERM; where it goes from there
\* depends on the database type.
AfterTerm ==
  IF entry = "graceful_shutdown" \/ db_type = "Generic" THEN "wait" ELSE "sleep1"

\* stop() with a pid: Stopping, then SIGTERM. When kill() fails the sequence
\* ends at once with clean_exit = false.
BeginStop ==
  /\ pid /\ stop_pc = "idle"
  /\ state' = "Stopping"
  /\ IF IsProcessAlive
       THEN /\ term_sent' = TRUE
            /\ stop_pc' = AfterTerm
            /\ UNCHANGED clean_exit
       ELSE /\ clean_exit' = FALSE
            /\ stop_pc' = "result"
            /\ UNCHANGED term_sent
  /\ UNCHANGED <<db_type, entry, starts, os, pid, kill_sent>>

\* Postgres and Redis sleep a fixed time after SIGTERM and then look; only
\* Postgres sleeps a second time.
FirstSleepEnds ==
  /\ stop_pc = "sleep1"
  /\ IF IsProcessAlive
       THEN /\ stop_pc' = IF db_type = "Postgres" THEN "sleep2" ELSE "wait"
            /\ UNCHANGED clean_exit
       ELSE /\ clean_exit' = TRUE
            /\ stop_pc' = "result"
  /\ UNCHANGED <<db_type, entry, starts, os, pid, state, term_sent, kill_sent>>

SecondSleepEnds ==
  /\ stop_pc = "sleep2"
  /\ stop_pc' = "wait"
  /\ UNCHANGED <<db_type, entry, starts, os, pid, state, term_sent, kill_sent,
                 clean_exit>>

\* The 100 ms polling loop sees the process gone.
WaitSeesExit ==
  /\ stop_pc = "wait"
  /\ ~IsProcessAlive
  /\ clean_exit' = TRUE
  /\ stop_pc' = "result"
  /\ UNCHANGED <<db_type, entry, starts, os, pid, state, term_sent, kill_sent>>

\* The timeout expires first: the generic sequence and graceful_shutdown
\* send SIGKILL, the other two report failure. graceful_shutdown also waits
\* for the child through its handle, which reaps it.
WaitTimesOut ==
  /\ stop_pc = "wait"
  /\ IsProcessAlive
  /\ IF entry = "graceful_shutdown" \/ db_type = "Generic"
       THEN /\ kill_sent' = TRUE
            /\ stop_pc' = "kill"
            /\ UNCHANGED clean_exit
       ELSE /\ clean_exit' = FALSE
            /\ stop_pc' = "result"
            /\ UNCHANGED kill_sent
  /\ UNCHANGED <<db_type, entry, starts, os, pid, state, term_sent>>

\* 500 ms after SIGKILL. Generic reports false whatever happened, the free
\* function reports whether the process is gone; so does the mutant, always.
GoneIsClean == ~IsProcessAlive
KillVerdict == entry = "graceful_shutdown" /\ ~IsProcessAlive

KillSleepEnds ==
  /\ stop_pc = "kill"
  /\ entry = "graceful_shutdown" => os \in {"gone", "recycled"}
  /\ clean_exit' = KillVerdict
  /\ stop_pc' = "result"
  /\ UNCHANGED <<db_type, entry, starts, os, pid, state, term_sent, kill_sent>>

\* Mutant: stop() trusts the sequence to have ended the process.
NeverForce == FALSE
\* Back in stop(): force-kill a child that is still running.
MustForce == ~clean_exit /\ IsRunning

ForceKill ==
  /\ stop_pc = "result" /\ entry = "stop"
  /\ MustForce
  /\ kill_sent' = TRUE
  /\ stop_pc' = "forced"
  /\ UNCHANGED <<db_type, entry, starts, os, pid, state, term_sent, clean_exit>>

\* The pid after stop(): taken out of the Option.
PidAfterStop == FALSE

\* The tail of stop(): drop the handle, forget the pid, close the pidfd.
\* graceful_shutdown works on a borrowed handle; its caller drops it.
EndStop ==
  /\ \/ stop_pc = "forced"
     \/ stop_pc = "result" /\ (entry = "stop" => ~MustForce)
  /\ stop_pc' = "idle"
  /\ pid' = PidAfterStop
  /\ state' = "Stopped"
  /\ UNCHANGED <<db_type, entry, starts, os, term_sent, kill_sent, clean_exit>>

-----------------------------------------------------------------------------
Kernel == ChildExits \/ Reap \/ Recycle

StopStep ==
  \/ FirstSleepEnds \/ SecondSleepEnds \/ WaitSeesExit \/ WaitTimesOut
  \/ KillSleepEnds \/ ForceKill \/ EndStop

ProcNext ==
  \/ Kernel
  \/ ~pid /\ StartChild
  \/ BeginStop
  \/ StopStep

-----------------------------------------------------------------------------
\* stop() forgets a pid only when the child has exited or has been sent
\* SIGKILL: no database type leaves an unsupervised process behind.
NoProcessLeftBehind == ~pid => os # "running" \/ kill_sent

\* "Whether the process exited cleanly without SIGKILL": so it is for every
\* sequence that stop() runs.
CleanMeansWithoutKill ==
  entry = "stop" /\ stop_pc = "result" /\ clean_exit => ~kill_sent

\* A clean shutdown is reported only for a child that is gone: a zombie or a
\* process that outlived the wait is never called clean.
CleanMeansGone ==
  stop_pc = "result" /\ clean_exit => os \in {"gone", "recycled"}

\* A stop that has begun ends, whatever the child does with SIGTERM.
StopTerminates == state = "Stopping" ~> state = "Stopped"
=============================================================================
