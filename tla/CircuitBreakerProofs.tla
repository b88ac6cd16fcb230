------------------------ MODULE CircuitBreakerProofs ------------------------
(***************************************************************************)
(* The circuit breaker for any number of callers and keys, any threshold   *)
(* and counter size, and every mix of entry points.                        *)
(***************************************************************************)
EXTENDS CircuitBreaker, TLAPS

USE ThresholdAssumption, CounterAssumption

Count == 0..(CounterSize - 1)
CountersOK ==
  /\ requests_total \in Count /\ connections_total \in Count
  /\ requests_circuit_broken \in Count /\ stale_responses_total \in Count

\* The part of the invariant that the request counters play no role in.
CircuitInv ==
  /\ circuit_state \in CircuitState
  /\ circuit_failures \in 0..CircuitThreshold
  /\ reset_elapsed \in BOOLEAN
  /\ half_open_inflight \in BOOLEAN
  /\ probes \in 0..2
  /\ failed_run \in 0..CircuitThreshold
  /\ FailuresAreObserved
  /\ InflightIffHalfOpen
  /\ OneProbePerEpisode

Others ==
  /\ api \in Apis
  /\ graceful_degradation_enabled \in BOOLEAN
  /\ may_abandon \in BOOLEAN
  /\ stale_cache \in SUBSET Key
  /\ caller \in [Caller -> {"idle", "admitted"}]
  /\ backend_up \in BOOLEAN

LEMMA Parts == IInv <=> CircuitInv /\ CountersOK /\ Others
BY DEF IInv, TypeOK, CircuitInv, CountersOK, Others, Count

LEMMA IncCounts == \A n \in Count : Inc(n) \in Count
BY DEF Count, Inc

LEMMA UpToBound ==
  \A n \in Nat, b \in Nat : UpTo(n, b) \in 0..b
BY DEF UpTo

LEMMA InitIInv == Init => IInv
<1> SUFFICES ASSUME Init PROVE IInv
  OBVIOUS
<1>1. 0 \in 0..CircuitThreshold /\ 0 \in Count /\ 0 \in 0..2
  BY DEF Count
<1>2. CountersOK
  BY <1>1 DEF Init, CountersOK
<1>3. Others
  BY FlagsAssumption DEF Init, Others
<1>4. InflightIffHalfOpen
  BY Zenon DEF Init, InflightIffHalfOpen
<1>5. CircuitInv
  BY <1>1, <1>4
  DEF Init, CircuitInv, CircuitState, FailuresAreObserved, OneProbePerEpisode
<1>6. QED BY <1>2, <1>3, <1>5, Parts

LEMMA AdmissionCounts ==
  ASSUME CountersOK, NEW c, requests_total' = Inc(requests_total),
         \/ Admit(c) \/ Refuse
         \/ /\ stale_responses_total' = Inc(stale_responses_total)
            /\ UNCHANGED <<connections_total, requests_circuit_broken>>
  PROVE  CountersOK'
<1>1. /\ Inc(requests_total) \in Count /\ Inc(connections_total) \in Count
      /\ Inc(requests_circuit_broken) \in Count
      /\ Inc(stale_responses_total) \in Count
  BY IncCounts DEF CountersOK
<1>2. QED BY <1>1 DEF CountersOK, Admit, Refuse, CountRefusal

\* A caller moves between its two states only.
LEMMA AdmissionOthers ==
  ASSUME Others, NEW c \in Caller, UNCHANGED <<deployment, stale_cache, backend_up>>,
         \/ caller' = [caller EXCEPT ![c] = "admitted"]
         \/ caller' = [caller EXCEPT ![c] = "idle"]
         \/ caller' = caller
  PROVE  Others'
BY DEF Others, deployment

\* What an entry point may do to the circuit: nothing, or take the probe slot
\* of an open circuit whose period is over.
LEMMA AdmissionCircuit ==
  ASSUME CircuitInv, failed_run' = failed_run,
         \/ UNCHANGED <<circuit, probes>>
         \/ /\ circuit_state' = "HalfOpen"
            /\ half_open_inflight' = TRUE
            /\ probes' \in {0, 1}
            /\ UNCHANGED <<circuit_failures, reset_elapsed>>
         \/ /\ circuit_state = "HalfOpen"
            /\ half_open_inflight' = TRUE
            /\ circuit_state' = circuit_state
            /\ UNCHANGED <<probes, circuit_failures, reset_elapsed>>
  PROVE  CircuitInv'
<1>1. \/ /\ circuit_state' = circuit_state
         /\ half_open_inflight' = half_open_inflight
      \/ circuit_state' = "HalfOpen" /\ half_open_inflight' = TRUE
  <2>1. CASE UNCHANGED <<circuit, probes>>
    BY <2>1 DEF circuit
  <2>2. CASE circuit_state' = "HalfOpen" /\ half_open_inflight' = TRUE
    BY <2>2, Zenon
  <2>3. CASE /\ circuit_state = "HalfOpen" /\ half_open_inflight' = TRUE
             /\ circuit_state' = circuit_state
    BY <2>3, Zenon
  <2>4. QED BY <2>1, <2>2, <2>3, Zenon
<1>2. half_open_inflight \in BOOLEAN /\ InflightIffHalfOpen
  BY Zenon DEF CircuitInv
<1>3. InflightIffHalfOpen' /\ half_open_inflight' \in BOOLEAN
  <2>1. CASE circuit_state' = "HalfOpen" /\ half_open_inflight' = TRUE
    <3>1. half_open_inflight' \in BOOLEAN
      BY <2>1, Zenon
    <3>2. QED BY <2>1, <3>1, Zenon DEF InflightIffHalfOpen
  <2>2. CASE /\ circuit_state' = circuit_state
             /\ half_open_inflight' = half_open_inflight
    <3>1. half_open_inflight' \in BOOLEAN
      BY <1>2, <2>2, Zenon
    <3>2. QED BY <1>2, <2>2, <3>1, Zenon DEF InflightIffHalfOpen
  <2>3. QED BY <1>1, <2>1, <2>2, Zenon
<1>4. /\ circuit_failures' = circuit_failures
      /\ reset_elapsed' = reset_elapsed
  BY DEF circuit
<1>5. reset_elapsed' \in BOOLEAN
  BY <1>4, Zenon DEF CircuitInv
<1>6. FailuresAreObserved' /\ OneProbePerEpisode'
  BY <1>4 DEF CircuitInv, circuit, FailuresAreObserved, OneProbePerEpisode
<1>7. /\ circuit_failures' \in 0..CircuitThreshold
      /\ failed_run' \in 0..CircuitThreshold
      /\ probes' \in 0..2
      /\ circuit_state' \in CircuitState
  BY <1>4 DEF CircuitInv, circuit, CircuitState
<1>8. QED BY <1>3, <1>5, <1>6, <1>7, Zenon DEF CircuitInv

\* A half-open circuit has no free slot.
LEMMA NoSecondProbe == CircuitInv /\ circuit_state = "HalfOpen" => ~ProbeAllowed
BY DEF CircuitInv, InflightIffHalfOpen, ProbeAllowed

LEMMA NextIInv == IInv /\ [Next]_vars => IInv'
<1> SUFFICES ASSUME IInv, [Next]_vars PROVE IInv'
  OBVIOUS
<1>1. CircuitInv /\ CountersOK /\ Others
  BY Parts
<1>2. CircuitInv' /\ CountersOK' /\ Others' => IInv'
  BY Parts DEF IInv, TypeOK, CircuitInv, CountersOK, Others, Count
<1>3. UNCHANGED counters => CountersOK'
  BY <1>1 DEF counters, CountersOK
<1>4. UNCHANGED <<circuit, probes, failed_run>> => CircuitInv'
  BY <1>1, AdmissionCircuit
<1>5. CASE BackendFlips
  <2>1. Others'
    BY <1>1, <1>5 DEF BackendFlips, Others, deployment
  <2>2. QED BY <1>2, <1>3, <1>4, <1>5, <2>1 DEF BackendFlips
<1>6. CASE ResetElapses
  <2>1. CircuitInv'
    BY <1>1, <1>6 DEF ResetElapses, CircuitInv, FailuresAreObserved,
                      InflightIffHalfOpen, OneProbePerEpisode
  <2>2. Others'
    BY <1>1, <1>6 DEF ResetElapses, Others, deployment
  <2>3. QED BY <1>2, <1>3, <1>6, <2>1, <2>2 DEF ResetElapses
<1>7. CASE ConnectFails
  <2>1. CircuitInv'
    BY <1>1, <1>7, UpToBound DEF ConnectFails, CircuitInv, FailuresAreObserved,
                      InflightIffHalfOpen, OneProbePerEpisode
  <2>2. Others'
    BY <1>1, <1>7 DEF ConnectFails, Others, deployment
  <2>3. QED BY <1>2, <1>3, <1>7, <2>1, <2>2 DEF ConnectFails
<1>8. ASSUME NEW k \in Key, CacheResponse(k)
      PROVE  IInv'
  <2>1. Others'
    BY <1>1, <1>8 DEF CacheResponse, Others, deployment
  <2>2. QED BY <1>2, <1>3, <1>4, <1>8, <2>1 DEF CacheResponse
<1>9. ASSUME NEW c \in Caller, Abandon(c)
      PROVE  IInv'
  <2>1. Others'
    BY <1>1, <1>9, AdmissionOthers DEF Abandon
  <2>2. QED BY <1>2, <1>3, <1>4, <1>9, <2>1 DEF Abandon
<1>10. ASSUME NEW c \in Caller, CheckCircuit(c)
       PROVE  IInv'
  <2>1. CircuitInv'
    BY <1>1, <1>10, AdmissionCircuit, NoSecondProbe
    DEF CheckCircuit, LetThrough, circuit
  <2>2. Others'
    BY <1>1, <1>10, AdmissionOthers DEF CheckCircuit, LetThrough
  <2>3. QED BY <1>2, <1>3, <1>10, <2>1, <2>2 DEF CheckCircuit
<1>11. ASSUME NEW c \in Caller, HandleRequest(c)
       PROVE  IInv'
  <2>1. CircuitInv'
    BY <1>1, <1>11, AdmissionCircuit, NoSecondProbe
    DEF HandleRequest, TestRecovery, circuit
  <2>2. Others'
    BY <1>1, <1>11, AdmissionOthers DEF HandleRequest, TestRecovery, Admit, Refuse
  <2>3. CountersOK'
    BY <1>1, <1>11, AdmissionCounts DEF HandleRequest, TestRecovery
  <2>4. QED BY <1>2, <2>1, <2>2, <2>3
<1>12. ASSUME NEW c \in Caller, NEW k \in Key, HandleWithDegradation(c, k)
       PROVE  IInv'
  <2>1. CircuitInv'
    BY <1>1, <1>12, AdmissionCircuit, NoSecondProbe
    DEF HandleWithDegradation, ServeStale, TestRecovery, circuit
  <2>2. Others'
    BY <1>1, <1>12, AdmissionOthers
    DEF HandleWithDegradation, ServeStale, TestRecovery, Admit, Refuse
  <2>3. CountersOK'
    BY <1>1, <1>12, AdmissionCounts
    DEF HandleWithDegradation, ServeStale, TestRecovery
  <2>4. QED BY <1>2, <2>1, <2>2, <2>3
<1>13. ASSUME NEW c \in Caller, RecordSuccess(c)
       PROVE  IInv'
  <2>1. CircuitInv'
    <3>1. InflightIffHalfOpen'
      BY <1>1, <1>13, Zenon
      DEF RecordSuccess, ClosesCircuit, CircuitInv, InflightIffHalfOpen
    <3>2. FailuresAreObserved' /\ OneProbePerEpisode'
      BY <1>1, <1>13
      DEF RecordSuccess, ClosesCircuit, FailuresAfterSuccess, CircuitInv,
          FailuresAreObserved, OneProbePerEpisode
    <3>3. half_open_inflight' \in BOOLEAN /\ reset_elapsed' \in BOOLEAN
      BY <1>1, <1>13, Zenon DEF RecordSuccess, CircuitInv
    <3>4. /\ circuit_failures' \in 0..CircuitThreshold
          /\ failed_run' \in 0..CircuitThreshold
          /\ probes' \in 0..2
          /\ circuit_state' \in CircuitState
      BY <1>1, <1>13
      DEF RecordSuccess, FailuresAfterSuccess, CircuitInv, CircuitState
    <3>5. QED BY <3>1, <3>2, <3>3, <3>4, Zenon DEF CircuitInv
  <2>2. Others'
    BY <1>1, <1>13, AdmissionOthers DEF RecordSuccess
  <2>3. QED BY <1>2, <1>3, <1>13, <2>1, <2>2 DEF RecordSuccess
<1>14. ASSUME NEW c \in Caller, RecordFailure(c)
       PROVE  IInv'
  <2>1. CircuitInv'
    <3>1. \/ /\ circuit_state' = "Open"
             /\ reset_elapsed' = FALSE
             /\ half_open_inflight' = FALSE
          \/ /\ circuit_state # "HalfOpen"
             /\ circuit_state' = "Open"
             /\ reset_elapsed' = FALSE
             /\ half_open_inflight' = half_open_inflight
          \/ /\ circuit_state # "HalfOpen"
             /\ circuit_state' = circuit_state
             /\ reset_elapsed' = reset_elapsed
             /\ half_open_inflight' = half_open_inflight
      BY <1>14 DEF RecordFailure, InflightAfterFailure
    <3>2. /\ half_open_inflight \in BOOLEAN /\ reset_elapsed \in BOOLEAN
          /\ InflightIffHalfOpen
      BY <1>1, Zenon DEF CircuitInv
    <3>3. /\ half_open_inflight' \in BOOLEAN /\ reset_elapsed' \in BOOLEAN
          /\ InflightIffHalfOpen'
      <4>1. "Open" # "HalfOpen"
        OBVIOUS
      <4>2. half_open_inflight' \in BOOLEAN /\ reset_elapsed' \in BOOLEAN
        BY <3>1, <3>2, Zenon
      <4>3. circuit_state # "HalfOpen" => half_open_inflight = FALSE
        BY <3>2, Zenon DEF InflightIffHalfOpen
      <4>4. half_open_inflight' = FALSE /\ circuit_state' # "HalfOpen"
        BY <3>1, <4>1, <4>3, Zenon
      <4>5. QED BY <4>2, <4>4, Zenon DEF InflightIffHalfOpen
    <3>4. /\ circuit_failures' = UpTo(circuit_failures + 1, CircuitThreshold)
          /\ failed_run' = UpTo(failed_run + 1, CircuitThreshold)
          /\ circuit_state' # "HalfOpen"
          /\ probes' \in {0, probes}
          /\ circuit_state' \in {"Open", circuit_state}
      BY <1>14 DEF RecordFailure
    <3>5. FailuresAreObserved' /\ OneProbePerEpisode'
      BY <1>1, <3>4 DEF CircuitInv, FailuresAreObserved, OneProbePerEpisode
    <3>6. /\ circuit_failures' \in 0..CircuitThreshold
          /\ failed_run' \in 0..CircuitThreshold
          /\ probes' \in 0..2
          /\ circuit_state' \in CircuitState
      <4>1. /\ circuit_failures + 1 \in Nat /\ failed_run + 1 \in Nat
            /\ CircuitThreshold \in Nat
        BY <1>1 DEF CircuitInv
      <4>2. /\ circuit_failures' \in 0..CircuitThreshold
            /\ failed_run' \in 0..CircuitThreshold
        BY <3>4, <4>1, UpToBound
      <4>3. QED BY <1>1, <3>4, <4>2 DEF CircuitInv, CircuitState
    <3>7. QED BY <3>3, <3>5, <3>6, Zenon DEF CircuitInv
  <2>2. Others'
    BY <1>1, <1>14, AdmissionOthers DEF RecordFailure
  <2>3. QED BY <1>2, <1>3, <1>14, <2>1, <2>2 DEF RecordFailure
<1>15. CASE UNCHANGED vars
  <2>1. Others'
    BY <1>1, <1>15 DEF vars, Others, deployment
  <2>2. QED BY <1>2, <1>3, <1>4, <1>15, <2>1 DEF vars
<1>16. QED
  BY <1>5, <1>6, <1>7, <1>8, <1>9, <1>10, <1>11, <1>12, <1>13, <1>14, <1>15
  DEF Next, Request, Report

\* The inductive invariant of the breaker holds in every reachable state.
THEOREM CircuitInvariant == Spec => []IInv
BY InitIInv, NextIInv, PTL DEF Spec

\* Every variable keeps its type: the request counters stay within their
\* width through every wrap.
THEOREM CircuitTypes == Spec => []TypeOK
<1>1. IInv => TypeOK
  BY DEF IInv
<1>2. QED BY <1>1, CircuitInvariant, PTL

\* check_circuit, handle_request and handle_request_with_degradation admit at
\* most one caller in each half-open episode, however many race.
THEOREM OneProbe == Spec => []OneProbePerEpisode
<1>1. IInv => OneProbePerEpisode
  BY DEF IInv
<1>2. QED BY <1>1, CircuitInvariant, PTL

\* half_open_inflight is set exactly while the circuit is half-open.
THEOREM InflightMeansHalfOpen == Spec => []InflightIffHalfOpen
<1>1. IInv => InflightIffHalfOpen
  BY DEF IInv
<1>2. QED BY <1>1, CircuitInvariant, PTL

\* record_failure opens a closed circuit only after CircuitThreshold failures
\* with no success between them, however the callers' reports cross.
THEOREM OpeningIsEarned == Spec => OpensAtThreshold
<1>1. ASSUME IInv, IInv', [Next]_vars, circuit_state = "Closed",
             circuit_state' = "Open"
      PROVE  failed_run' >= CircuitThreshold
  <2>1. PICK c \in Caller : RecordFailure(c)
    BY <1>1 DEF Next, vars, circuit, BackendFlips, ResetElapses, ConnectFails,
      Abandon, Request, CheckCircuit, HandleRequest, HandleWithDegradation,
      ServeStale, TestRecovery, Report, RecordSuccess, CacheResponse
  <2>2. circuit_failures' >= CircuitThreshold
    BY <1>1, <2>1 DEF RecordFailure
  <2>3. QED BY <1>1, <2>2 DEF IInv, FailuresAreObserved
<1>2. IInv /\ IInv' /\ [Next]_vars =>
        [circuit_state = "Closed" /\ circuit_state' = "Open"
           => failed_run' >= CircuitThreshold]_vars
  BY <1>1
<1>3. QED BY <1>2, CircuitInvariant, PTL DEF Spec, OpensAtThreshold

-----------------------------------------------------------------------------
\* The breaker implements Breaker.

\* What the abstract breaker sees of a request: nothing, or the trial of a
\* circuit whose period is over.
LEMMA RequestIsPromised ==
  ASSUME IInv, NEW c \in Caller, Request(c)
  PROVE  Promise!Try \/ UNCHANGED Promise!breakerVars
<1>1. circuit_state = "HalfOpen" => ~ProbeAllowed
  BY Parts, NoSecondProbe
<1>2. CASE CheckCircuit(c)
  BY <1>1, <1>2
  DEF CheckCircuit, LetThrough, circuit, Promise!Try, Promise!breakerVars
<1>3. CASE HandleRequest(c)
  BY <1>1, <1>3
  DEF HandleRequest, TestRecovery, circuit, Promise!Try, Promise!breakerVars
<1>4. ASSUME NEW k \in Key, HandleWithDegradation(c, k)
      PROVE  Promise!Try \/ UNCHANGED Promise!breakerVars
  BY <1>1, <1>4
  DEF HandleWithDegradation, ServeStale, TestRecovery, circuit, Promise!Try,
      Promise!breakerVars
<1>5. QED BY <1>2, <1>3, <1>4 DEF Request

LEMMA SuccessIsPromised ==
  ASSUME NEW c \in Caller, RecordSuccess(c)
  PROVE  Promise!Succeed
BY DEF RecordSuccess, ClosesCircuit, Promise!Succeed

\* A failure opens the circuit on the counter; the promise is about the
\* failures that were reported, which the invariant says are as many.
LEMMA FailureIsPromised ==
  ASSUME IInv, IInv', \/ \E c \in Caller : RecordFailure(c)
                      \/ ConnectFails
  PROVE  Promise!Fail
<1>1. /\ failed_run \in 0..CircuitThreshold
      /\ circuit_failures' = failed_run' /\ failed_run' \in 0..CircuitThreshold
  BY DEF IInv, TypeOK, FailuresAreObserved
<1>2. failed_run' = UpTo(failed_run + 1, CircuitThreshold)
  BY DEF RecordFailure, ConnectFails
<1>3. failed_run' = IF failed_run + 1 < CircuitThreshold THEN failed_run + 1
                    ELSE CircuitThreshold
  BY <1>2 DEF UpTo
<1>4. CASE ConnectFails
  BY <1>3, <1>4 DEF ConnectFails, Promise!Fail
<1>5. ASSUME NEW c \in Caller, RecordFailure(c)
      PROVE  Promise!Fail
  <2>1. circuit_failures' >= CircuitThreshold => failed_run' = CircuitThreshold
    BY <1>1
  <2>2. QED BY <1>3, <1>5, <2>1 DEF RecordFailure, Promise!Fail
<1>6. QED BY <1>4, <1>5

\* Seen from the outside, the circuit of check_circuit, handle_request,
\* handle_request_with_degradation and the two reports takes only the steps
\* of Breaker, for any number of callers and any threshold.
THEOREM BreakerIsImplemented == Spec => KeepsPromise
<1>1. Init => Promise!Init
  BY DEF Init, Promise!Init
<1>2. ASSUME IInv, IInv', [Next]_vars
      PROVE  [Promise!Next]_Promise!breakerVars
  <2>1. CASE BackendFlips \/ UNCHANGED vars \/ \E k \in Key : CacheResponse(k)
    BY <2>1 DEF BackendFlips, CacheResponse, vars, circuit, Promise!breakerVars
  <2>2. CASE ResetElapses
    BY <2>2 DEF ResetElapses, Promise!Wait, Promise!Next
  <2>3. CASE ConnectFails
    BY <1>2, <2>3, FailureIsPromised DEF Promise!Next
  <2>4. ASSUME NEW c \in Caller, Abandon(c)
        PROVE  UNCHANGED Promise!breakerVars
    BY <2>4 DEF Abandon, circuit, Promise!breakerVars
  <2>5. ASSUME NEW c \in Caller, Request(c)
        PROVE  [Promise!Next]_Promise!breakerVars
    BY <1>2, <2>5, RequestIsPromised DEF Promise!Next
  <2>6. ASSUME NEW c \in Caller, Report(c)
        PROVE  Promise!Next
    BY <1>2, <2>6, SuccessIsPromised, FailureIsPromised DEF Report, Promise!Next
  <2>7. QED BY <1>2, <2>1, <2>2, <2>3, <2>4, <2>5, <2>6 DEF Next
<1>3. QED
  BY <1>1, <1>2, CircuitInvariant, PTL DEF Spec, KeepsPromise, Promise!Spec
=============================================================================
