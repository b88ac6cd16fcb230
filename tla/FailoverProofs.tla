--------------------------- MODULE FailoverProofs ---------------------------
(***************************************************************************)
(* Safety of the failover loop for every failure threshold and every       *)
(* number of failback checks.                                              *)
(***************************************************************************)
EXTENDS Failover, TLAPS

USE ThresholdAssumption, FailbackAssumption, MaxFailoversAssumption

\* A saturating counter stays within its bound and never falls behind.
LEMMA UpToBound ==
  ASSUME NEW n \in Nat, NEW b \in Nat
  PROVE  /\ UpTo(n, b) \in 0..b
         /\ UpTo(n, b) <= n
         /\ n >= b => UpTo(n, b) = b
         /\ n <= b => UpTo(n, b) = n
BY DEF UpTo

LEMMA MaxRunBound ==
  /\ MaxRun \in Nat
  /\ MaxRun >= FailureThreshold
  /\ MaxRun >= FailbackChecks
BY DEF MaxRun

\* Recording a probe result keeps the history well formed, and extends the
\* current run when node and result are the same as before.
LEMMA ObserveRun ==
  ASSUME TypeOK, NEW n \in Node, NEW h \in BOOLEAN, Observe(n, h)
  PROVE  /\ run' \in [node : Node, healthy : BOOLEAN, len : 0..MaxRun]
         /\ run'.node = n /\ run'.healthy = h /\ run'.len >= 1
         /\ run.node = n /\ run.healthy = h
              => run'.len = UpTo(run.len + 1, MaxRun)
<1>1. run.len \in Nat /\ run.len + 1 \in Nat
  BY MaxRunBound DEF TypeOK
<1>2. UpTo(run.len + 1, MaxRun) \in 0..MaxRun /\ UpTo(run.len + 1, MaxRun) >= 1
  BY <1>1, MaxRunBound DEF UpTo
<1>3. CASE run.node = n /\ run.healthy = h
  <2>1. run' = [run EXCEPT !.len = UpTo(run.len + 1, MaxRun)]
    BY <1>3 DEF Observe
  <2>2. QED BY <2>1, <1>2, <1>3 DEF TypeOK
<1>4. CASE ~(run.node = n /\ run.healthy = h)
  <2>1. run' = [node |-> n, healthy |-> h, len |-> 1]
    BY <1>4 DEF Observe
  <2>2. QED BY <2>1, <1>4, MaxRunBound
<1>5. QED BY <1>3, <1>4

LEMMA InitIInv == Init => IInv
<1> SUFFICES ASSUME Init PROVE IInv
  OBVIOUS
<1> USE DEF Init
<1>1. run \in [node : Node, healthy : BOOLEAN, len : 0..MaxRun]
  BY MaxRunBound DEF Node
<1>2. current_primary \in Node /\ cur \in Node
  BY DEF InitialPrimary, Node
<1>3. TypeOK
  <2>1. promotion_result \in BOOLEAN /\ stop_requested \in BOOLEAN
    BY Zenon
  <2>2. consecutive_failures \in 0..FailureThreshold
        /\ failover_count \in 0..MaxFailovers
        /\ consecutive_primary_healthy \in 0..FailbackChecks
    OBVIOUS
  <2>3. QED BY <2>1, <2>2, <1>1, <1>2 DEF TypeOK, FailoverState, PC
<1>4. CurIsCurrent /\ PhaseIsJustified /\ StateNamesPrimary
  BY DEF CurIsCurrent, PhaseIsJustified, StateNamesPrimary
<1>5. FailuresAreObserved /\ StreakIsObserved
  BY DEF FailuresAreObserved, StreakIsObserved
<1>6. QED BY <1>3, <1>4, <1>5 DEF IInv

\* What a failed check does to the counters, whatever the connector.
LEMMA CountFailureEffect ==
  ASSUME TypeOK, CountFailure
  PROVE  /\ consecutive_primary_healthy' = 0
         /\ consecutive_failures' \in 0..FailureThreshold
         /\ consecutive_failures' = UpTo(consecutive_failures + 1, FailureThreshold)
         /\ consecutive_failures' >= 1
         /\ consecutive_failures' <= consecutive_failures + 1
         /\ \/ /\ consecutive_failures' >= FailureThreshold
               /\ state' = "FailingOver" /\ pc' = "promote"
            \/ state' = "Suspect" /\ pc' = "select"
<1>1. consecutive_failures \in Nat
  BY DEF TypeOK
<1>2. consecutive_failures' = UpTo(consecutive_failures + 1, FailureThreshold)
  BY DEF CountFailure, FailuresAfter
<1>3. QED BY <1>1, <1>2 DEF CountFailure, UpTo, StreakAfterFailure

\* A failed TCP check: the run of failures of the probed node grows with the
\* failure counter.
LEMMA CheckUnhealthyStep == IInv /\ CheckUnhealthy => IInv'
<1> SUFFICES ASSUME IInv, CheckUnhealthy PROVE IInv'
  OBVIOUS
<1> USE DEF IInv, CheckUnhealthy
<1>1. TypeOK /\ cur = current_primary /\ cur \in Node
  BY DEF CurIsCurrent, TypeOK
<1>2. /\ run' \in [node : Node, healthy : BOOLEAN, len : 0..MaxRun]
      /\ run'.node = cur /\ run'.healthy = FALSE /\ run'.len >= 1
      /\ run.node = cur /\ run.healthy = FALSE
           => run'.len = UpTo(run.len + 1, MaxRun)
  BY <1>1, ObserveRun
<1>3. /\ consecutive_primary_healthy' = 0
      /\ consecutive_failures' \in 0..FailureThreshold
      /\ consecutive_failures' >= 1
      /\ consecutive_failures' <= consecutive_failures + 1
      /\ \/ /\ consecutive_failures' >= FailureThreshold
            /\ state' = "FailingOver" /\ pc' = "promote"
         \/ state' = "Suspect" /\ pc' = "select"
  BY <1>1, CountFailureEffect
<1>4. UNCHANGED <<config, reachable, failover_count, current_primary, cur,
                  promotion_result, last_known, stop_requested, announced>>
  BY DEF CountFailure
<1>5. TypeOK'
  BY <1>1, <1>2, <1>3, <1>4
  DEF TypeOK, config, PC, FailoverState
<1>6. FailuresAreObserved'
  <2>1. CASE consecutive_failures = 0
    BY <2>1, <1>1, <1>2, <1>3, <1>4 DEF FailuresAreObserved
  <2>2. CASE consecutive_failures > 0
    <3>1. run.node = cur /\ run.healthy = FALSE /\ run.len >= consecutive_failures
      BY <2>2, <1>1 DEF FailuresAreObserved, TypeOK
    <3>2. run'.len = UpTo(run.len + 1, MaxRun)
      BY <3>1, <1>2
    <3>3. run'.len >= consecutive_failures'
      BY <3>1, <3>2, <1>1, <1>3, MaxRunBound DEF UpTo, TypeOK
    <3>4. QED BY <3>3, <1>1, <1>2, <1>4 DEF FailuresAreObserved
  <2>3. QED BY <2>1, <2>2, <1>1 DEF TypeOK
<1>7. StreakIsObserved' /\ PhaseIsJustified' /\ StateNamesPrimary' /\ CurIsCurrent'
  BY <1>1, <1>3, <1>4
  DEF StreakIsObserved, PhaseIsJustified, StateNamesPrimary, CurIsCurrent
<1>8. QED BY <1>5, <1>6, <1>7

\* A healthy TCP check: the failure counter is reset and, while failed over,
\* the healthy streak grows with the run of healthy probes.
LEMMA CheckHealthyStep == IInv /\ CheckHealthy => IInv'
<1> SUFFICES ASSUME IInv, CheckHealthy PROVE IInv'
  OBVIOUS
<1> USE DEF IInv, CheckHealthy
<1>1. TypeOK /\ cur = current_primary /\ cur \in Node
  BY DEF CurIsCurrent, TypeOK
<1>2. /\ run' \in [node : Node, healthy : BOOLEAN, len : 0..MaxRun]
      /\ run'.node = cur /\ run'.healthy = TRUE /\ run'.len >= 1
      /\ run.node = cur /\ run.healthy = TRUE
           => run'.len = UpTo(run.len + 1, MaxRun)
  BY <1>1, ObserveRun
<1>3. CASE state = "FailedOver" /\ cur # Primary
  <2>1. /\ consecutive_primary_healthy' =
             UpTo(consecutive_primary_healthy + 1, FailbackChecks)
        /\ pc' = IF consecutive_primary_healthy' >= FailbackChecks
                   THEN "failback_check" ELSE "select"
        /\ state' = state
    BY <1>3 DEF CountTowardsFailback
  <2>2. /\ consecutive_primary_healthy' \in 0..FailbackChecks
        /\ consecutive_primary_healthy' >= 1
        /\ consecutive_primary_healthy' <= consecutive_primary_healthy + 1
    BY <2>1, <1>1 DEF UpTo, TypeOK
  <2>3. TypeOK'
    BY <2>1, <2>2, <1>1, <1>2 DEF TypeOK, config, PC
  <2>4. cur = Replica
    BY <1>1, <1>3 DEF Node
  <2>5. run'.len >= consecutive_primary_healthy'
    <3>1. CASE consecutive_primary_healthy = 0
      BY <3>1, <2>2, <1>2
    <3>2. CASE consecutive_primary_healthy > 0
      <4>1. run.node = cur /\ run.healthy = TRUE /\ run.len >= consecutive_primary_healthy
        BY <3>2, <2>4, <1>1 DEF StreakIsObserved, TypeOK
      <4>2. QED BY <4>1, <2>2, <1>1, <1>2, MaxRunBound DEF UpTo, TypeOK
    <3>3. QED BY <3>1, <3>2, <1>1 DEF TypeOK
  <2>6. StreakIsObserved'
    BY <2>1, <2>4, <2>5, <1>2, <1>3 DEF StreakIsObserved
  <2>7. FailuresAreObserved' /\ PhaseIsJustified' /\ StateNamesPrimary' /\ CurIsCurrent'
    BY <2>1, <1>1
    DEF FailuresAreObserved, PhaseIsJustified, StateNamesPrimary, CurIsCurrent
  <2>8. QED BY <2>3, <2>6, <2>7
<1>4. CASE ~(state = "FailedOver" /\ cur # Primary)
  <2>1. /\ state' \in {"Healthy", state}
        /\ consecutive_primary_healthy' = 0
        /\ consecutive_failures' = 0
        /\ pc' = "select"
    BY <1>4
  <2>2. TypeOK'
    BY <2>1, <1>1, <1>2 DEF TypeOK, config, PC, FailoverState
  <2>3. FailuresAreObserved' /\ PhaseIsJustified' /\ StateNamesPrimary'
        /\ StreakIsObserved' /\ CurIsCurrent'
    BY <2>1, <1>1
    DEF FailuresAreObserved, PhaseIsJustified, StateNamesPrimary,
        StreakIsObserved, CurIsCurrent
  <2>4. QED BY <2>2, <2>3
<1>5. QED BY <1>3, <1>4

\* A failed Patroni or Sentinel check leaves the probe history alone.
LEMMA MonitorUnreachableStep == IInv /\ MonitorUnreachable => IInv'
<1> SUFFICES ASSUME IInv, MonitorUnreachable PROVE IInv'
  OBVIOUS
<1> USE DEF IInv, MonitorUnreachable
<1>1. /\ consecutive_primary_healthy' = 0
      /\ consecutive_failures' \in 0..FailureThreshold
      /\ \/ /\ consecutive_failures' >= FailureThreshold
            /\ state' = "FailingOver" /\ pc' = "promote"
         \/ state' = "Suspect" /\ pc' = "select"
  BY CountFailureEffect
<1>2. UNCHANGED <<config, reachable, failover_count, current_primary, cur, run,
                  promotion_result, last_known, stop_requested, announced>>
  BY DEF CountFailure
<1>3. TypeOK'
  BY <1>1, <1>2 DEF TypeOK, config, PC, FailoverState
<1>4. CurIsCurrent'
  BY <1>1, <1>2 DEF CurIsCurrent
<1>5. FailuresAreObserved'
  BY <1>2 DEF FailuresAreObserved, config
<1>6. StreakIsObserved' /\ PhaseIsJustified' /\ StateNamesPrimary'
  BY <1>1, <1>2 DEF StreakIsObserved, PhaseIsJustified, StateNamesPrimary
<1>7. QED BY <1>3, <1>4, <1>5, <1>6

\* A report of Patroni or the Sentinel resets both counters.
LEMMA MonitorReportsStep ==
  ASSUME NEW n \in Node, IInv, MonitorReports(n)
  PROVE  IInv'
<1> USE DEF IInv, MonitorReports
<1>1. failover_count' \in 0..MaxFailovers
  BY DEF TypeOK, UpTo
<1>2. TypeOK'
  BY <1>1 DEF TypeOK, config, PC, FailoverState
<1>3. QED
  BY <1>2 DEF CurIsCurrent, FailuresAreObserved, StreakIsObserved,
              PhaseIsJustified, StateNamesPrimary

\* trigger_failover and the failback: the counter that justified the phase
\* is reset together with the switch.
LEMMA SwitchStep ==
  IInv /\ (Promote \/ PromotionSucceeded \/ PromotionFailed
           \/ FailbackCheck \/ Failback \/ Hang) => IInv'
<1> SUFFICES ASSUME IInv,
                    Promote \/ PromotionSucceeded \/ PromotionFailed
                      \/ FailbackCheck \/ Failback \/ Hang
             PROVE  IInv'
  OBVIOUS
<1> USE DEF IInv, TypeOK, CurIsCurrent, FailuresAreObserved, StreakIsObserved,
            PhaseIsJustified, StateNamesPrimary, shared, config, PC,
            FailoverState, Node
<1>1. CASE Promote
  <2>1. promotion_result' \in BOOLEAN
    BY <1>1 DEF Promote, PromotionResults
  <2>2. QED BY <1>1, <2>1 DEF Promote
<1>2. CASE PromotionSucceeded
  <2>1. failover_count' \in 0..MaxFailovers
    BY <1>2 DEF PromotionSucceeded, UpTo
  <2>2. QED BY <1>2, <2>1 DEF PromotionSucceeded, FailuresAfterPromotion
<1>3. CASE PromotionFailed
  BY <1>3 DEF PromotionFailed
<1>4. CASE FailbackCheck
  BY <1>4 DEF FailbackCheck
<1>5. CASE Failback
  BY <1>5 DEF Failback
<1>6. CASE Hang
  BY <1>6 DEF Hang
<1>7. QED BY <1>1, <1>2, <1>3, <1>4, <1>5, <1>6

\* The environment, start(), stop() and the two select branches.
LEMMA ControlStep ==
  IInv /\ ((\E n \in Node : Flip(n)) \/ Start \/ Stop \/ Shutdown \/ Tick
           \/ UNCHANGED vars) => IInv'
<1> SUFFICES ASSUME IInv,
                    (\E n \in Node : Flip(n)) \/ Start \/ Stop \/ Shutdown
                      \/ Tick \/ UNCHANGED vars
             PROVE  IInv'
  OBVIOUS
<1> USE DEF IInv, TypeOK, CurIsCurrent, FailuresAreObserved, StreakIsObserved,
            PhaseIsJustified, StateNamesPrimary, shared, config, PC
<1>1. CASE \E n \in Node : Flip(n)
  BY <1>1 DEF Flip
<1>2. CASE Start
  <2>1. state' \in FailoverState /\ state' \in {"Healthy", state}
    BY <1>2 DEF Start, FailoverState
  <2>2. QED BY <1>2, <2>1 DEF Start
<1>3. CASE Stop
  BY <1>3 DEF Stop
<1>4. CASE Shutdown
  BY <1>4 DEF Shutdown
<1>5. CASE Tick
  BY <1>5 DEF Tick
<1>6. CASE UNCHANGED vars
  BY <1>6 DEF vars
<1>7. QED BY <1>1, <1>2, <1>3, <1>4, <1>5, <1>6

\* The loop keeps its inductive invariant, for every threshold.
THEOREM FailoverInvariant == Spec => []IInv
<1>1. IInv /\ [Next]_vars => IInv'
  BY CheckUnhealthyStep, CheckHealthyStep, MonitorUnreachableStep,
     MonitorReportsStep, SwitchStep, ControlStep
  DEF Next, LoopStep
<1>2. QED BY InitIInv, <1>1, PTL DEF Spec

\* Every variable of the loop keeps its type.
THEOREM FailoverTypes == Spec => []TypeOK
<1>1. IInv => TypeOK BY DEF IInv
<1>2. QED BY FailoverInvariant, <1>1, PTL

\* No failover without FailureThreshold consecutive failures of the node it
\* replaces.
THEOREM FailoverEarned == Spec => []FailoverIsEarned
<1>1. IInv => FailoverIsEarned
  BY DEF IInv, FailoverIsEarned, TypeOK, CurIsCurrent, FailuresAreObserved,
         PhaseIsJustified
<1>2. QED BY FailoverInvariant, <1>1, PTL

\* No failback without FailbackChecks consecutive healthy probes of the
\* replica.
THEOREM FailbackEarned == Spec => []FailbackIsEarned
<1>1. IInv => FailbackIsEarned
  BY DEF IInv, FailbackIsEarned, TypeOK, StreakIsObserved, PhaseIsJustified
<1>2. QED BY FailoverInvariant, <1>1, PTL

\* FailedOver and Recovered always name the node in current_primary.
THEOREM StateMatchesPrimary == Spec => []StateNamesPrimary
<1>1. IInv => StateNamesPrimary BY DEF IInv
<1>2. QED BY FailoverInvariant, <1>1, PTL

\* Every switch of current_primary is announced in the same step.
THEOREM SwitchAnnounced == Spec => SwitchIsAnnounced
<1>1. [Next]_vars => [current_primary' # current_primary
                        => announced' = current_primary']_vars
  BY DEF Next, LoopStep, Flip, Start, Stop, Shutdown, Tick, CheckUnhealthy,
         CheckHealthy, CountFailure, CountTowardsFailback, FailbackCheck,
         Failback, MonitorReports, MonitorUnreachable, Promote,
         PromotionSucceeded, PromotionFailed, Hang, vars, shared
<1>2. QED BY <1>1, PTL DEF Spec, SwitchIsAnnounced
=============================================================================
