-------------------------- MODULE SupervisorProofs --------------------------
(***************************************************************************)
(* Theorems about the child process manager and run_shim: no process is    *)
(* left behind, "clean" is honest, capabilities stop in reverse after the  *)
(* child, critical capabilities are up while the loop runs, one restart.   *)
(***************************************************************************)
EXTENDS Supervisor, TLAPS

-----------------------------------------------------------------------------
(* The child.                                                              *)

\* What a stop sequence under way has established: it has a pid, it has
\* sent SIGKILL exactly when it is past the point where it does, and what it
\* is about to report is so.
StopIsHonest ==
  /\ pid => os # "none"
  /\ stop_pc \in {"idle", "sleep1", "sleep2", "wait"} /\ pid => ~kill_sent
  /\ stop_pc \in {"kill", "forced"} => kill_sent
  /\ stop_pc = "sleep2" => db_type = "Postgres"
  /\ stop_pc = "result" /\ entry = "graceful_shutdown" => os # "running"

ProcIInv ==
  /\ ProcTypeOK
  /\ StopIsHonest
  /\ NoProcessLeftBehind
  /\ CleanMeansGone
  /\ CleanMeansWithoutKill

LEMMA KernelKeeps ==
  ProcIInv /\ Kernel
    => ProcIInv' /\ pid' = pid /\ stop_pc' = stop_pc /\ starts' = starts
<1> SUFFICES ASSUME ProcIInv, Kernel
             PROVE  ProcIInv' /\ pid' = pid /\ stop_pc' = stop_pc /\ starts' = starts
  OBVIOUS
<1> USE DEF ProcIInv, ProcTypeOK, StopIsHonest, NoProcessLeftBehind, CleanMeansGone,
            CleanMeansWithoutKill, OsState
<1>1. CASE ChildExits
  BY <1>1 DEF ChildExits
<1>2. CASE Reap
  BY <1>2 DEF Reap
<1>3. CASE Recycle
  BY <1>3 DEF Recycle
<1> QED
  BY <1>1, <1>2, <1>3 DEF Kernel

LEMMA StartKeeps ==
  ProcIInv /\ stop_pc = "idle" /\ StartChild
    => ProcIInv' /\ stop_pc' = "idle" /\ starts' = starts + 1
<1> SUFFICES ASSUME ProcIInv, stop_pc = "idle", StartChild
             PROVE  ProcIInv' /\ stop_pc' = "idle" /\ starts' = starts + 1
  OBVIOUS
<1>1. starts' \in 0..MaxStarts /\ starts' = starts + 1
  BY StartsAssumption DEF ProcIInv, ProcTypeOK, StartChild
<1> QED
  BY <1>1 DEF ProcIInv, ProcTypeOK, StopIsHonest, NoProcessLeftBehind,
              CleanMeansGone, CleanMeansWithoutKill, OsState, ProcessState,
              StopPC, StartChild

\* Only the end of the sequence forgets the pid, and what it then leaves
\* behind is gone or killed.
LEMMA StopKeeps ==
  ProcIInv /\ (BeginStop \/ StopStep)
    => ProcIInv' /\ (stop_pc' = "idle" <=> ~pid') /\ pid /\ starts' = starts
<1> SUFFICES ASSUME ProcIInv, BeginStop \/ StopStep
             PROVE  ProcIInv' /\ (stop_pc' = "idle" <=> ~pid') /\ pid /\ starts' = starts
  OBVIOUS
<1> USE DEF ProcIInv, ProcTypeOK, StopIsHonest, NoProcessLeftBehind, CleanMeansGone,
            CleanMeansWithoutKill, OsState, ProcessState, StopPC
<1>1. CASE BeginStop
  BY <1>1 DEF BeginStop, AfterTerm, IsProcessAlive
<1>2. CASE FirstSleepEnds
  BY <1>2 DEF FirstSleepEnds, IsProcessAlive
<1>3. CASE SecondSleepEnds
  BY <1>3 DEF SecondSleepEnds
<1>4. CASE WaitSeesExit
  BY <1>4 DEF WaitSeesExit, IsProcessAlive
<1>5. CASE WaitTimesOut
  BY <1>5 DEF WaitTimesOut, IsProcessAlive
<1>6. CASE KillSleepEnds
  BY <1>6, EntriesAssumption DEF KillSleepEnds, KillVerdict, IsProcessAlive
<1>7. CASE ForceKill
  BY <1>7 DEF ForceKill
<1>8. CASE EndStop
  BY <1>8, EntriesAssumption DEF EndStop, PidAfterStop, MustForce, IsRunning
<1> QED
  BY <1>1, <1>2, <1>3, <1>4, <1>5, <1>6, <1>7, <1>8 DEF StopStep

-----------------------------------------------------------------------------
(* run_shim: the invariant, in the parts that its steps disturb.           *)

\* The child's fields fit the place run_shim is in: a stop sequence runs only
\* where run_shim calls stop(), and where it has returned there is no pid.
PhaseFits ==
  /\ phase \notin {"embedded", "restart", "stop_child"} => stop_pc = "idle"
  /\ phase \in {"startup", "spawn", "respawn", "stop_caps", "exited"} => ~pid

\* The parts of the type invariant that are run_shim's own.
ShimTypes ==
  /\ phase \in Phase
  /\ handlers \in BOOLEAN /\ shutdown_flag \in BOOLEAN
  /\ inbox \subseteq {"SigTerm", "SigInt", "SigHup"}
  /\ in_grace \in BOOLEAN /\ grace_retried \in BOOLEAN
  /\ pidfd \in {"none", "child", "closed", "other"}
  /\ child_died \in BOOLEAN
  /\ child_code \in {"none", "zero", "nonzero"}
  /\ healthy \in BOOLEAN
  /\ exit \in {"running", "zero", "nonzero"}

\* The flag is raised before the restart it pays for.
RestartsCounted ==
  phase # "embedded" =>
    /\ phase \in {"startup", "spawn"} => starts = 0
    /\ phase \in {"restart", "respawn"} => grace_retried /\ starts <= 1
    /\ ~grace_retried => starts <= 1
    /\ starts <= 2

\* Every critical capability already tried has started; stopping has gone
\* backwards through the ones that started, and only since the child's stop.
CapsInOrder ==
  /\ next_cap \in 1..(Len(Caps) + 1)
  /\ successful \in Seq(1..Len(Caps))
  /\ stopped_caps \in Seq(1..Len(Caps))
  /\ Len(stopped_caps) <= Len(successful)
  /\ \A j \in 1..Len(stopped_caps) :
       stopped_caps[j] = successful[Len(successful) + 1 - j]
  /\ phase \notin {"stop_caps", "exited"} => Len(stopped_caps) = 0
  /\ phase \notin {"embedded", "exited"} =>
       \A i \in 1..(next_cap - 1) : Caps[i] \in Critical =>
         \E j \in 1..Len(successful) : successful[j] = i
  /\ phase \notin {"embedded", "startup", "exited"} => next_cap = Len(Caps) + 1

IInv ==
  /\ ProcIInv
  /\ PhaseFits
  /\ ShimTypes
  /\ RestartsCounted
  /\ CapsInOrder

\* What the steps outside the child's own change of it.
Loop == LoopTop \/ SelectSignal \/ SelectPidfd \/ SelectTimeout
Startup == CapabilityStarts \/ CapabilityFails \/ StartupDone \/ SpawnFails
StopCaps == StopCapability \/ StopCapabilityFails \/ Exit
Outside == \/ \E s \in {"SigTerm", "SigInt", "SigHup"} : Signal(s)
           \/ GraceEnds

LEMMA CapsFacts == Len(Caps) \in Nat /\ Caps \in Seq(STRING)
BY CapsAssumption

LEMMA InitIInv == Init => IInv
<1> SUFFICES ASSUME Init PROVE IInv
  OBVIOUS
<1>1. ProcIInv
  <2>1. starts \in 0..MaxStarts
    BY StartsAssumption DEF Init, ProcInit
  <2>2. /\ db_type \in DbTypes /\ entry \in Entries /\ os = "none" /\ ~pid
        /\ pid \in BOOLEAN /\ state = "Stopped" /\ stop_pc = "idle"
        /\ term_sent \in BOOLEAN /\ kill_sent \in BOOLEAN
        /\ clean_exit \in BOOLEAN
    BY Zenon DEF Init, ProcInit
  <2> QED
    BY <2>1, <2>2
       DEF ProcIInv, ProcTypeOK, StopIsHonest, NoProcessLeftBehind,
           CleanMeansGone, CleanMeansWithoutKill, OsState, ProcessState, StopPC
<1>2. PhaseFits /\ ShimTypes /\ RestartsCounted
  <2>1. /\ phase \in {"embedded", "startup"} /\ ~pid /\ stop_pc = "idle"
        /\ starts = 0
    BY DEF Init, ProcInit
  <2>2. ShimTypes
    BY <2>1 DEF Init, ShimTypes, Phase
  <2> QED
    BY <2>1, <2>2 DEF PhaseFits, RestartsCounted
<1>3. CapsInOrder
  BY CapsFacts DEF Init, CapsInOrder
<1> QED
  BY <1>1, <1>2, <1>3 DEF IInv

-----------------------------------------------------------------------------
\* Who may touch what: every step of run_shim leaves the child alone, starts
\* it, or is a step of its stop sequence or of the kernel.
ChildStep ==
  \/ UNCHANGED procVars
  \/ stop_pc = "idle" /\ StartChild
  \/ BeginStop
  \/ StopStep
  \/ Kernel

LEMMA ChildSteps == IInv /\ Next => ChildStep
<1> SUFFICES ASSUME IInv, Next PROVE ChildStep
  OBVIOUS
<1> USE DEF ChildStep
<1>1. CASE Startup \/ Loop \/ StopCaps \/ RespawnFails \/ Outside
  BY <1>1 DEF Startup, Loop, StopCaps, RespawnFails, Outside, CapabilityStarts,
     CapabilityFails, StartupDone, SpawnFails, LoopTop, SelectSignal, SelectPidfd,
     SelectTimeout, StopCapability, StopCapabilityFails, Exit, Signal, GraceEnds
<1>2. CASE SpawnChild \/ Respawn
  BY <1>2 DEF SpawnChild, Respawn, IInv, PhaseFits
<1>3. CASE RestartStop \/ StopChild
  BY <1>3 DEF RestartStop, StopChild
<1>4. CASE ChildEnds \/ KernelReaps \/ PidRecycled
  BY <1>4 DEF ChildEnds, KernelReaps, PidRecycled, Kernel
<1>5. CASE Embedded
  BY <1>5 DEF Embedded, ProcNext, IInv, ProcIInv, ProcTypeOK
<1>6. CASE UNCHANGED vars
  BY <1>6 DEF vars
<1> QED
  BY <1>1, <1>2, <1>3, <1>4, <1>5, <1>6 DEF Next, ShimStep, Startup, Loop, StopCaps, Outside

\* The child's part is kept whatever run_shim does.
LEMMA ProcPart == IInv /\ [Next]_vars => ProcIInv'
<1> SUFFICES ASSUME IInv, [Next]_vars PROVE ProcIInv'
  OBVIOUS
<1>1. CASE UNCHANGED procVars
  BY <1>1 DEF IInv, ProcIInv, ProcTypeOK, StopIsHonest, NoProcessLeftBehind,
     CleanMeansGone, CleanMeansWithoutKill, procVars, child
<1>2. CASE Next
  BY <1>1, <1>2, ChildSteps, StartKeeps, StopKeeps, KernelKeeps DEF IInv, ChildStep
<1> QED
  BY <1>1, <1>2 DEF vars

\* RestartStop and StopChild leave their phase when the sequence has ended.
LEMMA PhasePart == IInv /\ [Next]_vars => PhaseFits'
<1> SUFFICES ASSUME IInv, [Next]_vars PROVE PhaseFits'
  OBVIOUS
<1> USE DEF PhaseFits
<1>1. CASE Startup \/ Loop \/ StopCaps \/ RespawnFails \/ Outside
  BY <1>1 DEF IInv, Startup, Loop, StopCaps, RespawnFails, Outside, CapabilityStarts,
     CapabilityFails, StartupDone, SpawnFails, LoopTop, SelectSignal, SelectPidfd,
     SelectTimeout, ChildIsDown, StopCapability, StopCapabilityFails, Exit, Signal,
     GraceEnds, procVars, child
<1>2. CASE SpawnChild \/ Respawn
  BY <1>2, StartKeeps DEF SpawnChild, Respawn, IInv
<1>3. CASE RestartStop
  BY <1>3, StopKeeps DEF RestartStop, IInv
<1>4. CASE StopChild
  <2>1. CASE BeginStop \/ StopStep
    BY <1>4, <2>1, StopKeeps DEF StopChild, IInv
  <2>2. CASE ~pid /\ phase' = "stop_caps" /\ UNCHANGED procVars
    BY <2>2 DEF procVars, child, IInv, ProcIInv, ProcTypeOK
  <2> QED
    BY <1>4, <2>1, <2>2 DEF StopChild
<1>5. CASE ChildEnds \/ KernelReaps \/ PidRecycled
  BY <1>5, KernelKeeps DEF ChildEnds, KernelReaps, PidRecycled, Kernel, supVars, IInv
<1>6. CASE Embedded
  BY <1>6 DEF Embedded, supVars
<1>7. CASE UNCHANGED vars
  BY <1>7 DEF vars, procVars, child, supVars, IInv
<1> QED
  BY <1>1, <1>2, <1>3, <1>4, <1>5, <1>6, <1>7
     DEF Next, ShimStep, Startup, Loop, StopCaps, Outside

LEMMA TypesPart == IInv /\ [Next]_vars => ShimTypes'
<1> SUFFICES ASSUME IInv, [Next]_vars PROVE ShimTypes'
  OBVIOUS
<1> USE DEF ShimTypes, Phase
<1>1. CASE Startup
  BY <1>1, ZenonT(60) DEF IInv, Startup, CapabilityStarts, CapabilityFails, StartupDone, SpawnFails
<1>2. CASE Loop
  BY <1>2, ZenonT(60) DEF IInv, Loop, LoopTop, SelectSignal, SelectPidfd, SelectTimeout, ChildIsDown
<1>3. CASE StopCaps
  BY <1>3, ZenonT(60) DEF IInv, StopCaps, StopCapability, StopCapabilityFails, Exit
<1>4. CASE Outside
  <2>1. /\ inbox' \subseteq {"SigTerm", "SigInt", "SigHup"}
        /\ shutdown_flag' \in BOOLEAN /\ in_grace' \in BOOLEAN
    <3>1. CASE GraceEnds
      BY <3>1 DEF IInv, GraceEnds
    <3>2. ASSUME NEW sig \in {"SigTerm", "SigInt", "SigHup"}, Signal(sig)
          PROVE  /\ inbox' \subseteq {"SigTerm", "SigInt", "SigHup"}
                 /\ shutdown_flag' \in BOOLEAN /\ in_grace' \in BOOLEAN
      BY <3>2 DEF IInv, Signal
    <3> QED
      BY <1>4, <3>1, <3>2 DEF Outside
  <2> QED
    BY <1>4, <2>1, ZenonT(60) DEF IInv, Outside, Signal, GraceEnds
<1>5. CASE SpawnChild \/ Respawn \/ RespawnFails
  BY <1>5, ZenonT(60) DEF IInv, SpawnChild, Respawn, RespawnFails, FirstPidfd, ReusedPidfd
<1>6. CASE RestartStop
  <2>1. /\ phase' \in {phase, "respawn"}
        /\ pidfd' \in {pidfd, "closed"}
    BY <1>6 DEF RestartStop
  <2> QED
    BY <1>6, <2>1, ZenonT(60) DEF IInv, RestartStop
<1>7. CASE StopChild
  <2>1. phase' \in {phase, "stop_caps"}
    BY <1>7 DEF StopChild
  <2> QED
    BY <1>7, <2>1, ZenonT(60) DEF IInv, StopChild
<1>8. CASE ChildEnds
  BY <1>8, ZenonT(60) DEF IInv, ChildEnds
<1>9. CASE UNCHANGED supVars
  BY <1>9 DEF IInv, supVars
<1> QED
  BY <1>1, <1>2, <1>3, <1>4, <1>5, <1>6, <1>7, <1>8, <1>9
     DEF Next, ShimStep, Startup, Loop, StopCaps, Outside, KernelReaps, PidRecycled,
         Embedded, vars

LEMMA RestartPart == IInv /\ [Next]_vars => RestartsCounted'
<1> SUFFICES ASSUME IInv, [Next]_vars PROVE RestartsCounted'
  OBVIOUS
<1>0. starts \in Nat /\ grace_retried \in BOOLEAN
  BY StartsAssumption DEF IInv, ProcIInv, ProcTypeOK, ShimTypes
<1> USE DEF RestartsCounted
<1>1. CASE Startup \/ StopCaps \/ RespawnFails \/ Outside
  BY <1>0, <1>1 DEF IInv, Startup, StopCaps, RespawnFails, Outside, CapabilityStarts,
     CapabilityFails, StartupDone, SpawnFails, StopCapability, StopCapabilityFails,
     Exit, Signal, GraceEnds, procVars, child
<1>2. CASE Loop
  BY <1>0, <1>2 DEF IInv, Loop, LoopTop, SelectSignal, SelectPidfd, SelectTimeout,
     ChildIsDown, MayRetry, procVars, child
<1>3. CASE SpawnChild \/ Respawn
  BY <1>0, <1>3 DEF SpawnChild, Respawn, StartChild, IInv
<1>4. CASE RestartStop
  BY <1>0, <1>4, StopKeeps DEF RestartStop, IInv
<1>5. CASE StopChild
  BY <1>0, <1>5, StopKeeps DEF StopChild, IInv, procVars, child
<1>6. CASE ChildEnds \/ KernelReaps \/ PidRecycled
  BY <1>0, <1>6, KernelKeeps DEF ChildEnds, KernelReaps, PidRecycled, Kernel, supVars, IInv
<1>7. CASE Embedded
  BY <1>7 DEF Embedded, supVars
<1>8. CASE UNCHANGED vars
  BY <1>8 DEF vars, procVars, child, supVars, IInv
<1> QED
  BY <1>1, <1>2, <1>3, <1>4, <1>5, <1>6, <1>7, <1>8
     DEF Next, ShimStep, Startup, Loop, StopCaps, Outside

\* Capabilities are appended as they start and stopped from the back.
LEMMA CapsPart == IInv /\ [Next]_vars => CapsInOrder'
<1> SUFFICES ASSUME IInv, [Next]_vars PROVE CapsInOrder'
  OBVIOUS
<1> USE CapsFacts DEF CapsInOrder
<1>1. CASE CapabilityStarts
  <2>1. /\ successful' = Append(successful, next_cap) /\ next_cap' = next_cap + 1
        /\ next_cap \in 1..Len(Caps) /\ phase' = "startup" /\ phase = "startup"
        /\ stopped_caps' = stopped_caps /\ Len(stopped_caps) = 0
    BY <1>1 DEF IInv, CapabilityStarts
  <2>2. /\ successful' \in Seq(1..Len(Caps))
        /\ Len(successful') = Len(successful) + 1
        /\ successful'[Len(successful')] = next_cap
        /\ \A j \in 1..Len(successful) : successful'[j] = successful[j]
    BY <2>1 DEF IInv
  <2>3. ASSUME NEW i \in 1..(next_cap' - 1), Caps[i] \in Critical
        PROVE  \E j \in 1..Len(successful') : successful'[j] = i
    BY <2>1, <2>2, <2>3 DEF IInv
  <2> QED
    BY <2>1, <2>2, <2>3 DEF IInv
<1>2. CASE CapabilityFails
  <2>1. /\ UNCHANGED <<successful, stopped_caps>>
        /\ phase = "startup" /\ next_cap \in 1..Len(Caps)
        /\ \/ phase' = "exited" /\ next_cap' = next_cap
           \/ phase' = phase /\ next_cap' = next_cap + 1 /\ Caps[next_cap] \notin Critical
    BY <1>2 DEF IInv, CapabilityFails, Fatal
  <2> QED
    BY <2>1 DEF IInv
<1>3. CASE StartupDone \/ SpawnFails
  <2>1. /\ UNCHANGED <<next_cap, successful, stopped_caps>>
        /\ \/ phase = "startup" /\ phase' = "spawn" /\ next_cap > Len(Caps)
           \/ phase = "spawn" /\ phase' = "exited"
    BY <1>3 DEF StartupDone, SpawnFails
  <2> QED
    BY <2>1 DEF IInv
<1>4. CASE StopCapability
  <2>1. /\ Len(stopped_caps) < Len(successful) /\ phase = "stop_caps"
        /\ stopped_caps' = Append(stopped_caps, NextToStop)
        /\ UNCHANGED <<phase, successful, next_cap>>
    BY <1>4 DEF StopCapability
  <2>2. NextToStop \in 1..Len(Caps)
    <3>1. /\ successful \in Seq(1..Len(Caps))
          /\ Len(successful) - Len(stopped_caps) \in 1..Len(successful)
      BY <2>1 DEF IInv
    <3> QED
      BY <3>1 DEF NextToStop
  <2>3. /\ stopped_caps' \in Seq(1..Len(Caps))
        /\ Len(stopped_caps') = Len(stopped_caps) + 1
        /\ \A j \in 1..Len(stopped_caps) : stopped_caps'[j] = stopped_caps[j]
        /\ stopped_caps'[Len(stopped_caps) + 1] = NextToStop
    BY <2>1, <2>2 DEF IInv
  <2>4. ASSUME NEW j \in 1..Len(stopped_caps')
        PROVE  stopped_caps'[j] = successful'[Len(successful') + 1 - j]
    <3>1. CASE j \in 1..Len(stopped_caps)
      BY <2>1, <2>3, <3>1 DEF IInv
    <3>2. CASE j = Len(stopped_caps) + 1
      <4>1. Len(successful) + 1 - j = Len(successful) - Len(stopped_caps)
        BY <3>2 DEF IInv
      <4> QED
        BY <2>1, <2>3, <3>2, <4>1 DEF NextToStop
    <3> QED
      BY <2>3, <2>4, <3>1, <3>2 DEF IInv
  <2> QED
    BY <2>1, <2>3, <2>4 DEF IInv
<1>5. CASE StopCapabilityFails \/ Exit
  BY <1>5 DEF IInv, StopCapabilityFails, Exit
<1>6. CASE /\ UNCHANGED <<next_cap, successful, stopped_caps>>
           /\ \/ phase' = phase
              \/ /\ phase \notin {"embedded", "startup", "stop_caps", "exited"}
                 /\ phase' \notin {"embedded", "startup", "exited"}
  BY <1>6 DEF IInv
<1>7. CASE Loop \/ RespawnFails \/ SpawnChild \/ Respawn
  BY <1>6, <1>7 DEF Loop, LoopTop, SelectSignal, SelectPidfd, SelectTimeout, ChildIsDown,
     RespawnFails, SpawnChild, Respawn
<1>8. CASE RestartStop \/ StopChild
  BY <1>6, <1>8 DEF RestartStop, StopChild
<1>9. CASE Outside \/ ChildEnds \/ UNCHANGED supVars
  BY <1>6, <1>9 DEF Outside, Signal, GraceEnds, ChildEnds, supVars
<1> QED
  BY <1>1, <1>2, <1>3, <1>4, <1>5, <1>7, <1>8, <1>9
     DEF Next, ShimStep, Loop, Outside, KernelReaps, PidRecycled, Embedded, vars

LEMMA NextIInv == IInv /\ [Next]_vars => IInv'
BY ProcPart, PhasePart, TypesPart, RestartPart, CapsPart DEF IInv

-----------------------------------------------------------------------------
LEMMA IInvImplies ==
  IInv => NoProcessLeftBehind /\ StopsInReverse /\ SupervisorInvariant
<1> SUFFICES ASSUME IInv
             PROVE  NoProcessLeftBehind /\ StopsInReverse /\ SupervisorInvariant
  OBVIOUS
<1>1. NoProcessLeftBehind /\ CleanMeansGone /\ CleanMeansWithoutKill
  BY DEF IInv, ProcIInv
<1>2. StopsInReverse
  BY <1>1, CapsFacts DEF IInv, CapsInOrder, PhaseFits, StopsInReverse, NoProcessLeftBehind
<1>3. TypeOK
  BY CapsFacts DEF IInv, ProcIInv, ShimTypes, CapsInOrder, TypeOK
<1>4. RunsWithCriticalCaps
  BY CapsFacts DEF IInv, CapsInOrder, RunsWithCriticalCaps
<1>5. OneGraceRestart
  BY DEF IInv, RestartsCounted, OneGraceRestart
<1> QED
  BY <1>1, <1>2, <1>3, <1>4, <1>5 DEF SupervisorInvariant

LEMMA SupervisorIInv == Spec => []IInv
BY InitIInv, NextIInv, PTL DEF Spec

\* stop() never forgets a database that is still running and was not sent
\* SIGKILL: whatever the type of the database, however its exit, the reaper
\* and the reuse of its pid fall between the steps of the sequence, and
\* whichever of run_shim's two calls of stop() it is.
THEOREM NothingLeftBehind == Spec => []NoProcessLeftBehind
BY SupervisorIInv, IInvImplies, PTL

\* run_shim stops the capabilities that started in reverse, each once, and
\* only after the child, for any list of capabilities.
THEOREM ReverseOrder == Spec => []StopsInReverse
BY SupervisorIInv, IInvImplies, PTL

\* For any list of capabilities and any bound on restarts: the types hold, a
\* "clean" stop is of a child that is gone and was not killed by stop(),
\* the loop runs only with every critical capability up, and a child that
\* dies young is restarted once.
THEOREM SupervisorCorrect == Spec => []SupervisorInvariant
BY SupervisorIInv, IInvImplies, PTL
=============================================================================
