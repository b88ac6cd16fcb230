------------------------------- MODULE Drain --------------------------------
(***************************************************************************)
(* ShutdownManager::shutdown lets operations in flight finish before the   *)
(* database is signalled.  Operations start and complete concurrently; the *)
(* two counters are separate atomics, and each load is a step.             *)
(***************************************************************************)
EXTENDS Naturals, FiniteSets

CONSTANTS Operation, DrainTimeout      \* polls the deadline allows

ASSUME DrainAssumption == IsFiniteSet(Operation) /\ DrainTimeout \in Nat

VARIABLES
  op,                     \* operation -> "new", "running" or "done"
  in_flight_total, in_flight_completed,
  drainPc,                \* "running", "counting", "polling", "loaded", "signalled"
  seen,                   \* the load that came first
  polls,
  inFlightAtStart,        \* history: operations running when shutdown was called
  timedOut, overlooked    \* history: the deadline passed; the first count was zero

drainVars == <<op, in_flight_total, in_flight_completed, drainPc, seen, polls,
               inFlightAtStart, timedOut, overlooked>>

DrainInit ==
  /\ op = [o \in Operation |-> "new"]
  /\ in_flight_total = 0 /\ in_flight_completed = 0
  /\ drainPc = "running" /\ seen = 0 /\ polls = 0
  /\ inFlightAtStart = {} /\ timedOut = FALSE /\ overlooked = FALSE

Running == {o \in Operation : op[o] = "running"}

(* Nothing refuses an operation once the shutdown has begun. *)
OperationStarted(o) ==
  /\ op[o] = "new" /\ op' = [op EXCEPT ![o] = "running"]
  /\ in_flight_total' = in_flight_total + 1
  /\ UNCHANGED <<in_flight_completed, drainPc, seen, polls, inFlightAtStart, timedOut, overlooked>>

OperationCompleted(o) ==
  /\ op[o] = "running" /\ op' = [op EXCEPT ![o] = "done"]
  /\ in_flight_completed' = in_flight_completed + 1
  /\ UNCHANGED <<in_flight_total, drainPc, seen, polls, inFlightAtStart, timedOut, overlooked>>

(* in_flight_count: the total, then the completed ones. *)
ShutdownCalled ==
  /\ drainPc = "running" /\ drainPc' = "counting"
  /\ seen' = in_flight_total /\ inFlightAtStart' = Running
  /\ UNCHANGED <<op, in_flight_total, in_flight_completed, polls, timedOut, overlooked>>

InFlightCounted ==
  /\ drainPc = "counting"
  /\ drainPc' = IF seen > in_flight_completed THEN "polling" ELSE "signalled"
  /\ overlooked' = (seen <= in_flight_completed)
  /\ UNCHANGED <<op, in_flight_total, in_flight_completed, seen, polls, inFlightAtStart, timedOut>>

(* The drain loop: the completed ones, then the total. *)
LoadCompleted ==
  /\ drainPc = "polling" /\ polls < DrainTimeout
  /\ drainPc' = "loaded" /\ seen' = in_flight_completed
  /\ UNCHANGED <<op, in_flight_total, in_flight_completed, polls, inFlightAtStart, timedOut, overlooked>>

DrainPollAnyDone ==
  /\ drainPc = "loaded"
  /\ drainPc' = IF in_flight_completed > 0 THEN "signalled" ELSE "polling"
  /\ polls' = polls + 1
  /\ UNCHANGED <<op, in_flight_total, in_flight_completed, seen, inFlightAtStart, timedOut, overlooked>>

DrainPoll ==
  /\ drainPc = "loaded"
  /\ drainPc' = IF seen >= in_flight_total THEN "signalled" ELSE "polling"
  /\ polls' = polls + 1
  /\ UNCHANGED <<op, in_flight_total, in_flight_completed, seen, inFlightAtStart, timedOut, overlooked>>

DrainTimesOut ==
  /\ drainPc = "polling" /\ polls >= DrainTimeout
  /\ drainPc' = "signalled" /\ timedOut' = TRUE
  /\ UNCHANGED <<op, in_flight_total, in_flight_completed, seen, polls, inFlightAtStart, overlooked>>

DrainNext ==
  \/ \E o \in Operation : OperationStarted(o) \/ OperationCompleted(o)
  \/ ShutdownCalled \/ InFlightCounted \/ LoadCompleted \/ DrainPoll \/ DrainTimesOut

-----------------------------------------------------------------------------
(* A database is signalled with an operation still running that was        *)
(* running when shutdown was called only if the drain timed out, or if the *)
(* first, unordered pair of loads found none: a drain that polls and does  *)
(* not time out has waited for them all (ShutdownManager::shutdown).       *)
DrainedBeforeSignal ==
  drainPc = "signalled" /\ ~timedOut /\ ~overlooked =>
    \A o \in inFlightAtStart : op[o] = "done"
=============================================================================
