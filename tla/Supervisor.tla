----------------------------- MODULE Supervisor -----------------------------
(***************************************************************************)
(* run_shim of the evergreen-shim binary (main.rs), the PID 1 of the       *)
(* container: capabilities are started in order with graceful degradation, *)
(* the child is spawned, the main loop waits for a signal or the child's   *)
(* exit (restarting it once in the startup grace period), then the child   *)
(* and the capabilities are stopped. Composed with ChildProcess, whose     *)
(* actions run underneath; a program other than run_shim that embeds       *)
(* ChildProcess on its own is the "embedded" phase.                        *)
(***************************************************************************)
EXTENDS ChildProcess, Sequences

CONSTANTS
  Caps,        \* the compiled-in capabilities, in order
  Critical     \* CRITICAL_CAPABILITIES

ASSUME CapsAssumption == Caps \in Seq(STRING)

VARIABLES
  phase,          \* where run_shim is
  next_cap,       \* the capability to initialise next
  successful,     \* the capabilities that started, in order
  stopped_caps,   \* the capabilities that were stopped, in order
  handlers,       \* the signal handlers are installed
  shutdown_flag,  \* SignalHandler.shutdown
  inbox,          \* signals in the broadcast receiver
  in_grace,       \* child_started is less than startup_grace_secs ago
  grace_retried,
  pidfd,          \* what the fd captured before the loop refers to
  child_died,
  child_code,     \* history: how the last child ended
  healthy,        \* the shim_capabilities_healthy gauge
  exit            \* how the shim itself ended

supVars == <<phase, next_cap, successful, stopped_caps, handlers,
             shutdown_flag, inbox, in_grace, grace_retried, pidfd, child_died,
             child_code, healthy, exit>>
vars == <<procVars, supVars>>

Phase == {"embedded", "startup", "spawn", "top", "select", "restart", "respawn",
          "stop_child", "stop_caps", "exited"}

TypeOK ==
  /\ ProcTypeOK
  /\ phase \in Phase
  /\ next_cap \in 1..(Len(Caps) + 1)
  /\ \A i \in DOMAIN successful : successful[i] \in 1..Len(Caps)
  /\ \A i \in DOMAIN stopped_caps : stopped_caps[i] \in 1..Len(Caps)
  /\ handlers \in BOOLEAN /\ shutdown_flag \in BOOLEAN
  /\ inbox \subseteq {"SigTerm", "SigInt", "SigHup"}
  /\ in_grace \in BOOLEAN /\ grace_retried \in BOOLEAN
  /\ pidfd \in {"none", "child", "closed", "other"}
  /\ child_died \in BOOLEAN
  /\ child_code \in {"none", "zero", "nonzero"}
  /\ healthy \in BOOLEAN
  /\ exit \in {"running", "zero", "nonzero"}

Init ==
  /\ ProcInit
  /\ \/ phase = "startup" /\ db_type = "Generic" /\ entry = "stop"
     \/ phase = "embedded"
  /\ next_cap = 1
  /\ successful = << >>
  /\ stopped_caps = << >>
  /\ handlers = FALSE /\ shutdown_flag = FALSE
  /\ inbox = {}
  /\ in_grace = TRUE /\ grace_retried = FALSE
  /\ pidfd = "none"
  /\ child_died = FALSE
  /\ child_code = "none"
  /\ healthy = FALSE
  /\ exit = "running"

-----------------------------------------------------------------------------
\* Capability startup.

\* init() and start() both succeed.
CapabilityStarts ==
  /\ phase = "startup" /\ next_cap <= Len(Caps)
  /\ successful' = Append(successful, next_cap)
  /\ next_cap' = next_cap + 1
  /\ UNCHANGED <<procVars, phase, stopped_caps, handlers, shutdown_flag, inbox,
                 in_grace, grace_retried, pidfd, child_died, child_code,
                 healthy, exit>>

\* Is the failure of capability i fatal.
Fatal(i) == Caps[i] \in Critical

\* init() or start() fails: a critical capability ends the process with an
\* error, leaving the ones already started as they are.
CapabilityFails ==
  /\ phase = "startup" /\ next_cap <= Len(Caps)
  /\ IF Fatal(next_cap)
       THEN /\ phase' = "exited" /\ exit' = "nonzero"
            /\ UNCHANGED next_cap
       ELSE /\ next_cap' = next_cap + 1
            /\ UNCHANGED <<phase, exit>>
  /\ UNCHANGED <<procVars, successful, stopped_caps, handlers, shutdown_flag,
                 inbox, in_grace, grace_retried, pidfd, child_died, child_code,
                 healthy>>

StartupDone ==
  /\ phase = "startup" /\ next_cap > Len(Caps)
  /\ phase' = "spawn"
  /\ UNCHANGED <<procVars, next_cap, successful, stopped_caps, handlers,
                 shutdown_flag, inbox, in_grace, grace_retried, pidfd,
                 child_died, child_code, healthy, exit>>

\* The fd that child.pidfd() yields: none on kernels without pidfd_open.
FirstPidfd == {"none", "child"}

\* child.start(), set_healthy(true), SignalHandler::new, child.pidfd().
SpawnChild ==
  /\ phase = "spawn"
  /\ StartChild
  /\ phase' = "top"
  /\ healthy' = TRUE
  /\ handlers' = TRUE
  /\ pidfd' \in FirstPidfd
  /\ UNCHANGED <<next_cap, successful, stopped_caps, shutdown_flag, inbox,
                 in_grace, grace_retried, child_died, child_code, exit>>

SpawnFails ==
  /\ phase = "spawn"
  /\ phase' = "exited" /\ exit' = "nonzero"
  /\ UNCHANGED <<procVars, next_cap, successful, stopped_caps, handlers,
                 shutdown_flag, inbox, in_grace, grace_retried, pidfd,
                 child_died, child_code, healthy>>

-----------------------------------------------------------------------------
\* The environment: signals, the clock, the child.

\* A signal before the handlers are installed does nothing to PID 1. SIGTERM
\* and SIGINT set the flag, all three are broadcast.
Signal(s) ==
  /\ handlers /\ phase # "exited"
  /\ s \notin inbox
  /\ inbox' = inbox \cup {s}
  /\ shutdown_flag' = (shutdown_flag \/ s # "SigHup")
  /\ UNCHANGED <<procVars, phase, next_cap, successful, stopped_caps, handlers,
                 in_grace, grace_retried, pidfd, child_died, child_code,
                 healthy, exit>>

GraceEnds ==
  /\ in_grace /\ handlers
  /\ in_grace' = FALSE
  /\ UNCHANGED <<procVars, phase, next_cap, successful, stopped_caps, handlers,
                 shutdown_flag, inbox, grace_retried, pidfd, child_died,
                 child_code, healthy, exit>>

ChildEnds ==
  /\ phase \notin {"embedded", "exited"}
  /\ ChildExits
  /\ child_code' \in {"zero", "nonzero"}
  /\ UNCHANGED <<phase, next_cap, successful, stopped_caps, handlers,
                 shutdown_flag, inbox, in_grace, grace_retried, pidfd,
                 child_died, healthy, exit>>

KernelReaps ==
  /\ phase \notin {"embedded", "exited"}
  /\ Reap
  /\ UNCHANGED supVars

PidRecycled ==
  /\ phase \notin {"embedded", "exited"}
  /\ Recycle
  /\ UNCHANGED supVars

\* ChildProcess without run_shim.
Embedded ==
  /\ phase = "embedded"
  /\ ProcNext
  /\ UNCHANGED supVars

-----------------------------------------------------------------------------
\* The main loop.

\* A dead child is restarted once inside the grace period, otherwise it ends
\* the loop.
MayRetry == in_grace /\ ~grace_retried

ChildIsDown ==
  IF MayRetry
    THEN /\ grace_retried' = TRUE
         /\ phase' = "restart"
         /\ UNCHANGED child_died
    ELSE /\ child_died' = TRUE
         /\ phase' = "stop_child"
         /\ UNCHANGED grace_retried

\* The two tests at the top of the loop: the shutdown flag, then is_running().
\* Mutants: the flag is not looked at, /proc is trusted only without a pidfd.
FlagIgnored == FALSE
ShutdownSeen == shutdown_flag
SeenDownWithoutPidfd == pidfd = "none" /\ ~IsRunning
SeenDown == ~IsRunning

LoopTop ==
  /\ phase = "top"
  /\ \/ /\ ShutdownSeen
        /\ phase' = "stop_child"
        /\ UNCHANGED <<grace_retried, child_died>>
     \/ /\ ~ShutdownSeen /\ SeenDown
        /\ ChildIsDown
     \/ /\ ~ShutdownSeen /\ ~SeenDown
        /\ phase' = "select"
        /\ UNCHANGED <<grace_retried, child_died>>
  /\ UNCHANGED <<procVars, next_cap, successful, stopped_caps, handlers,
                 shutdown_flag, inbox, in_grace, pidfd, child_code, healthy,
                 exit>>

\* select: any broadcast signal ends the loop, SIGHUP included.
SelectSignal ==
  /\ phase = "select" /\ inbox # {}
  /\ phase' = "stop_child"
  /\ UNCHANGED <<procVars, next_cap, successful, stopped_caps, handlers,
                 shutdown_flag, inbox, in_grace, grace_retried, pidfd,
                 child_died, child_code, healthy, exit>>

\* pidfd_readable(fd): an fd that names the child is readable once it has
\* exited; one that was closed and reused says nothing about the child.
PidfdReadable ==
  \/ pidfd = "child" /\ os # "running"
  \/ pidfd = "other"

SelectPidfd ==
  /\ phase = "select" /\ PidfdReadable
  /\ ChildIsDown
  /\ UNCHANGED <<procVars, next_cap, successful, stopped_caps, handlers,
                 shutdown_flag, inbox, in_grace, pidfd, child_code, healthy,
                 exit>>

\* The 500 ms poll, or the poll of a closed fd, ends without news.
SelectTimeout ==
  /\ phase = "select"
  /\ phase' = "top"
  /\ UNCHANGED <<procVars, next_cap, successful, stopped_caps, handlers,
                 shutdown_flag, inbox, in_grace, grace_retried, pidfd,
                 child_died, child_code, healthy, exit>>

\* child.stop() inside the restart: it closes the fd the loop still holds.
RestartStop ==
  /\ phase = "restart"
  /\ BeginStop \/ StopStep
  /\ IF stop_pc' = "idle"
       THEN /\ phase' = "respawn"
            /\ pidfd' = IF pidfd = "child" THEN "closed" ELSE pidfd
       ELSE UNCHANGED <<phase, pidfd>>
  /\ UNCHANGED <<next_cap, successful, stopped_caps, handlers, shutdown_flag,
                 inbox, in_grace, grace_retried, child_died, child_code,
                 healthy, exit>>

\* child.start() of the restart. The kernel hands out the lowest free fd: the
\* closed number may name the new child, some other file, or nothing.
ReusedPidfd == IF pidfd = "closed" THEN {"child", "closed", "other"} ELSE {pidfd}

Respawn ==
  /\ phase = "respawn"
  /\ StartChild
  /\ phase' = "top"
  /\ child_code' = "none"
  /\ pidfd' \in ReusedPidfd
  /\ UNCHANGED <<next_cap, successful, stopped_caps, handlers, shutdown_flag,
                 inbox, in_grace, grace_retried, child_died, healthy, exit>>

RespawnFails ==
  /\ phase = "respawn"
  /\ child_died' = TRUE
  /\ phase' = "stop_child"
  /\ UNCHANGED <<procVars, next_cap, successful, stopped_caps, handlers,
                 shutdown_flag, inbox, in_grace, grace_retried, pidfd,
                 child_code, healthy, exit>>

-----------------------------------------------------------------------------
\* Shutdown. stop() does nothing when there is no pid.

StopChild ==
  /\ phase = "stop_child"
  /\ \/ (BeginStop \/ StopStep)
        /\ phase' = IF stop_pc' = "idle" THEN "stop_caps" ELSE phase
     \/ ~pid /\ phase' = "stop_caps" /\ UNCHANGED procVars
  /\ UNCHANGED <<next_cap, successful, stopped_caps, handlers, shutdown_flag,
                 inbox, in_grace, grace_retried, pidfd, child_died, child_code,
                 healthy, exit>>

\* The capability stopped next: the last one started that still runs; the
\* mutant goes through the list forwards.
OldestFirst == successful[Len(stopped_caps) + 1]
NextToStop == successful[Len(successful) - Len(stopped_caps)]

\* A stop() that returns Err ends run_shim at once.
StopCapability ==
  /\ phase = "stop_caps" /\ Len(stopped_caps) < Len(successful)
  /\ stopped_caps' = Append(stopped_caps, NextToStop)
  /\ UNCHANGED <<procVars, phase, next_cap, successful, handlers,
                 shutdown_flag, inbox, in_grace, grace_retried, pidfd,
                 child_died, child_code, healthy, exit>>

StopCapabilityFails ==
  /\ phase = "stop_caps" /\ Len(stopped_caps) < Len(successful)
  /\ phase' = "exited" /\ exit' = "nonzero"
  /\ UNCHANGED <<procVars, next_cap, successful, stopped_caps, handlers,
                 shutdown_flag, inbox, in_grace, grace_retried, pidfd,
                 child_died, child_code, healthy>>

\* ChildProcess.exit_code is never assigned, so run_shim always returns Ok.
Exit ==
  /\ phase = "stop_caps" /\ Len(stopped_caps) = Len(successful)
  /\ phase' = "exited" /\ exit' = "zero"
  /\ UNCHANGED <<procVars, next_cap, successful, stopped_caps, handlers,
                 shutdown_flag, inbox, in_grace, grace_retried, pidfd,
                 child_died, child_code, healthy>>

-----------------------------------------------------------------------------
ShimStep ==
  \/ CapabilityStarts \/ CapabilityFails \/ StartupDone
  \/ SpawnChild \/ SpawnFails
  \/ LoopTop \/ SelectSignal \/ SelectPidfd \/ SelectTimeout
  \/ RestartStop \/ Respawn \/ RespawnFails
  \/ StopChild \/ StopCapability \/ StopCapabilityFails \/ Exit

Next ==
  \/ ShimStep
  \/ \E s \in {"SigTerm", "SigInt", "SigHup"} : Signal(s)
  \/ GraceEnds \/ ChildEnds \/ KernelReaps \/ PidRecycled \/ Embedded
  \/ phase \in {"embedded", "exited"} /\ UNCHANGED vars

Spec == Init /\ [][Next]_vars

\* The shim keeps taking steps (every sleep and timeout ends), zombies are
\* reaped and SIGKILL takes effect.
Fairness ==
  /\ WF_vars(ShimStep)
  /\ WF_vars(KernelReaps)
  /\ WF_vars(kill_sent /\ ChildEnds)
  /\ WF_vars(StopStep /\ Embedded)
  /\ WF_vars(Reap /\ Embedded)
  /\ WF_vars(kill_sent /\ ChildExits /\ Embedded)

FairSpec == Spec /\ Fairness

-----------------------------------------------------------------------------
\* The loop and the shutdown run only with every critical capability of this
\* build up: a failed one ends the process before the child is spawned.
RunsWithCriticalCaps ==
  phase \notin {"embedded", "startup", "exited"}
    => \A i \in 1..Len(Caps) : Caps[i] \in Critical =>
         \E j \in 1..Len(successful) : successful[j] = i

\* Capabilities are stopped in the reverse of the order they started, each
\* once, and only after the child has been stopped.
StopsInReverse ==
  /\ \A j \in 1..Len(stopped_caps) :
       stopped_caps[j] = successful[Len(successful) + 1 - j]
  /\ Len(stopped_caps) > 0 => ~pid /\ (os # "running" \/ kill_sent)

\* A child that keeps dying is spawned at most twice by run_shim, however its
\* death, the signals and the end of the grace period interleave.
OneGraceRestart == phase # "embedded" => starts <= 2

\* What run_shim and the child add up to, at every step: the types, what a
\* "clean" stop may claim (the child is gone, and was not killed), that the
\* shim never runs on without a critical capability, and that a child that
\* dies young is restarted once (run_shim, graceful_shutdown).
SupervisorInvariant ==
  /\ TypeOK
  /\ CleanMeansGone
  /\ CleanMeansWithoutKill
  /\ RunsWithCriticalCaps
  /\ OneGraceRestart

\* SIGTERM or SIGINT, once the handlers are installed, ends the shim.
SignalEndsShim == shutdown_flag ~> phase = "exited"

\* Whatever is told to stop comes to an end: stop() of the child, whichever
\* waits and kills it takes, and the shim that a signal has told to stop.
StopsEnd == StopTerminates /\ SignalEndsShim

\* A dead child never goes unnoticed, with or without a pidfd, even after a
\* restart has left the loop with a stale fd: it is replaced or the shim ends,
\* unless another process takes over its pid first.
DeathIsNoticed ==
  (phase = "select" /\ os \in {"zombie", "gone"})
    ~> (phase \notin {"select", "top"} \/ os = "recycled")

\* "Exits with the child's exit code".
ExitCodePropagates ==
  exit # "running" /\ child_died /\ Len(stopped_caps) = Len(successful)
    => exit = child_code

-----------------------------------------------------------------------------
(* The build that is model-checked: three capabilities, the first and the  *)
(* last of them critical.                                                  *)
ThreeCaps == <<"health", "vault", "migration">>
=============================================================================
