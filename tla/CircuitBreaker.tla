--------------------------- MODULE CircuitBreaker ---------------------------
(***************************************************************************)
(* The circuit breaker of the proxy shim (crates/proxy-shim). Callers ask  *)
(* for admission through one of three entry points (check_circuit,         *)
(* handle_request, handle_request_with_degradation), talk to the backend,  *)
(* and report with record_success or record_failure - or never report.     *)
(* Each method runs under one write lock, so each is one step; between     *)
(* admission and report other callers, the clock and the backend move.     *)
(***************************************************************************)
EXTENDS Integers

CONSTANTS
  Caller,            \* concurrent callers
  Key,               \* request keys of the stale cache
  Apis,              \* the entry points a deployment may use
  Degradation,       \* the values of PROXY_GRACEFUL_DEGRADATION to consider
  CircuitThreshold,  \* PROXY_CIRCUIT_THRESHOLD
  CounterSize,       \* request counters wrap at this size (2^64 in the code)
  Abandonment        \* may an admitted caller vanish without reporting

ASSUME ThresholdAssumption == CircuitThreshold \in Nat \ {0}
ASSUME CounterAssumption == CounterSize \in Nat \ {0}
ASSUME FlagsAssumption == Degradation \subseteq BOOLEAN /\ Abandonment \subseteq BOOLEAN
ASSUME ApisAssumption ==
  Apis \subseteq {"check_circuit", "handle_request", "degradation"}

VARIABLES
  api,                      \* the entry point in use
  graceful_degradation_enabled,
  may_abandon,              \* do callers of this deployment vanish
  circuit_state,
  circuit_failures,         \* kept up to CircuitThreshold
  reset_elapsed,            \* open_since is circuit_reset_secs or more ago
  half_open_inflight,
  stale_cache,              \* the keys with a cached response
  requests_total, connections_total, requests_circuit_broken,
  stale_responses_total,
  caller,                   \* what each caller is doing
  backend_up,               \* would the backend answer
  probes,                   \* history: admissions in this half-open episode
  failed_run                \* history: failures reported since a success

counters == <<requests_total, connections_total, requests_circuit_broken,
              stale_responses_total>>
circuit == <<circuit_state, circuit_failures, reset_elapsed,
             half_open_inflight>>
deployment == <<api, graceful_degradation_enabled, may_abandon>>
vars == <<deployment, circuit, stale_cache, counters, caller, backend_up, probes,
          failed_run>>

CircuitState == {"Closed", "Open", "HalfOpen"}

TypeOK ==
  /\ api \in Apis
  /\ graceful_degradation_enabled \in BOOLEAN
  /\ may_abandon \in BOOLEAN
  /\ circuit_state \in CircuitState
  /\ circuit_failures \in 0..CircuitThreshold
  /\ reset_elapsed \in BOOLEAN
  /\ half_open_inflight \in BOOLEAN
  /\ stale_cache \in SUBSET Key
  /\ requests_total \in 0..(CounterSize - 1)
  /\ connections_total \in 0..(CounterSize - 1)
  /\ requests_circuit_broken \in 0..(CounterSize - 1)
  /\ stale_responses_total \in 0..(CounterSize - 1)
  /\ caller \in [Caller -> {"idle", "admitted"}]
  /\ backend_up \in BOOLEAN
  /\ probes \in 0..2
  /\ failed_run \in 0..CircuitThreshold

Init ==
  /\ api \in Apis
  /\ graceful_degradation_enabled \in Degradation
  /\ may_abandon \in Abandonment
  /\ circuit_state = "Closed"
  /\ circuit_failures = 0
  /\ reset_elapsed = FALSE
  /\ half_open_inflight = FALSE
  /\ stale_cache = {}
  /\ requests_total = 0 /\ connections_total = 0
  /\ requests_circuit_broken = 0 /\ stale_responses_total = 0
  /\ caller = [c \in Caller |-> "idle"]
  /\ backend_up = TRUE
  /\ probes = 0
  /\ failed_run = 0

UpTo(n, bound) == IF n < bound THEN n ELSE bound
\* A request counter wraps at its width.
Inc(n) == (n + 1) % CounterSize

-----------------------------------------------------------------------------
\* The environment.

BackendFlips ==
  /\ backend_up' = ~backend_up
  /\ UNCHANGED <<deployment, circuit, stale_cache, counters, caller, probes,
                 failed_run>>

\* circuit_reset_secs pass since open_since.
ResetElapses ==
  /\ circuit_state = "Open" /\ ~reset_elapsed
  /\ reset_elapsed' = TRUE
  /\ UNCHANGED <<deployment, circuit_state, circuit_failures, half_open_inflight,
                 stale_cache, counters, caller, backend_up, probes,
                 failed_run>>

\* An admitted caller is cancelled before it reports.
Abandon(c) ==
  /\ may_abandon
  /\ caller[c] = "admitted"
  /\ caller' = [caller EXCEPT ![c] = "idle"]
  /\ UNCHANGED <<deployment, circuit, stale_cache, counters, backend_up, probes,
                 failed_run>>

-----------------------------------------------------------------------------
\* Admission.

\* The circuit lets c through; half-open admissions are counted in history.
LetThrough(c, halfOpen) ==
  /\ caller' = [caller EXCEPT ![c] = "admitted"]
  /\ probes' = IF halfOpen THEN UpTo(probes + 1, 2) ELSE probes

\* The test of check_circuit and handle_request_with_degradation in the
\* half-open state; the mutant never looks at the flag.
ProbeAlways == TRUE
ProbeAllowed == ~half_open_inflight

\* check_circuit: the caller that finds the period over becomes the probe.
CheckCircuit(c) ==
  /\ api = "check_circuit"
  /\ caller[c] = "idle"
  /\ \/ /\ circuit_state = "Closed"
        /\ LetThrough(c, FALSE)
        /\ UNCHANGED circuit
     \/ /\ circuit_state = "Open" /\ reset_elapsed
        /\ circuit_state' = "HalfOpen"
        /\ half_open_inflight' = TRUE
        /\ caller' = [caller EXCEPT ![c] = "admitted"]
        /\ probes' = 1
        /\ UNCHANGED <<circuit_failures, reset_elapsed>>
     \/ /\ circuit_state = "Open" /\ ~reset_elapsed
        /\ UNCHANGED <<circuit, caller, probes>>
     \/ /\ circuit_state = "HalfOpen"
        /\ IF ProbeAllowed THEN LetThrough(c, TRUE)
                           ELSE UNCHANGED <<caller, probes>>
        /\ half_open_inflight' = TRUE
        /\ UNCHANGED <<circuit_state, circuit_failures, reset_elapsed>>
  /\ UNCHANGED <<deployment, stale_cache, counters, backend_up, failed_run>>

\* A refusal is counted.
CountRefusal == Inc(requests_circuit_broken)

Refuse ==
  /\ requests_circuit_broken' = CountRefusal
  /\ UNCHANGED <<connections_total, stale_responses_total, caller>>

Admit(c) ==
  /\ connections_total' = Inc(connections_total)
  /\ caller' = [caller EXCEPT ![c] = "admitted"]
  /\ UNCHANGED <<requests_circuit_broken, stale_responses_total>>

\* A request that finds the circuit half-open.
TestRecovery(c) ==
  /\ circuit_state = "HalfOpen"
  /\ IF ProbeAllowed THEN Admit(c) /\ probes' = UpTo(probes + 1, 2)
                     ELSE Refuse /\ UNCHANGED probes
  /\ half_open_inflight' = TRUE
  /\ UNCHANGED <<circuit_state, circuit_failures, reset_elapsed>>

\* handle_request: the transition to half-open already sets the inflight
\* flag, and the test that follows refuses the request that made it.
HandleRequest(c) ==
  /\ api = "handle_request"
  /\ caller[c] = "idle"
  /\ requests_total' = Inc(requests_total)
  /\ \/ /\ circuit_state = "Closed"
        /\ Admit(c)
        /\ UNCHANGED <<circuit, probes>>
     \/ /\ circuit_state = "Open" /\ reset_elapsed
        /\ circuit_state' = "HalfOpen"
        /\ half_open_inflight' = TRUE
        /\ probes' = 0
        /\ Refuse
        /\ UNCHANGED <<circuit_failures, reset_elapsed>>
     \/ /\ circuit_state = "Open" /\ ~reset_elapsed
        /\ Refuse
        /\ UNCHANGED <<circuit, probes>>
     \/ TestRecovery(c)
  /\ UNCHANGED <<deployment, stale_cache, backend_up, failed_run>>

\* handle_request_with_degradation: an open circuit serves a cached key
\* without looking at the clock.
ServeStale(k) ==
  /\ circuit_state = "Open" /\ graceful_degradation_enabled /\ k \in stale_cache
  /\ stale_responses_total' = Inc(stale_responses_total)
  /\ UNCHANGED <<circuit, caller, probes, connections_total,
                 requests_circuit_broken>>

HandleWithDegradation(c, k) ==
  LET cached == graceful_degradation_enabled /\ k \in stale_cache
  IN
  /\ api = "degradation"
  /\ caller[c] = "idle"
  /\ requests_total' = Inc(requests_total)
  /\ \/ ServeStale(k)
     \/ /\ circuit_state = "Closed"
        /\ Admit(c)
        /\ UNCHANGED <<circuit, probes>>
     \/ /\ circuit_state = "Open" /\ ~cached /\ reset_elapsed
        /\ circuit_state' = "HalfOpen"
        /\ half_open_inflight' = TRUE
        /\ probes' = 1
        /\ Admit(c)
        /\ UNCHANGED <<circuit_failures, reset_elapsed>>
     \/ /\ circuit_state = "Open" /\ ~cached /\ ~reset_elapsed
        /\ Refuse
        /\ UNCHANGED <<circuit, probes>>
     \/ TestRecovery(c)
  /\ UNCHANGED <<deployment, stale_cache, backend_up, failed_run>>

\* cache_response; nothing ever leaves the cache.
CacheResponse(k) ==
  /\ k \notin stale_cache
  /\ stale_cache' = stale_cache \cup {k}
  /\ UNCHANGED <<deployment, circuit, counters, caller, backend_up, probes,
                 failed_run>>

-----------------------------------------------------------------------------
\* Reports.

\* The failure counter after a success; the mutant resets it only when the
\* success closes the circuit.
ResetOnlyHalfOpen == IF circuit_state = "HalfOpen" THEN 0 ELSE circuit_failures
FailuresAfterSuccess == 0

\* A success closes a half-open circuit whoever reports it; the mutant wants
\* the probe flag to be down first.
ClosesWithoutProbe == circuit_state = "HalfOpen" /\ ~half_open_inflight
ClosesCircuit == circuit_state = "HalfOpen"

\* record_success.
RecordSuccess(c) ==
  /\ caller[c] = "admitted" /\ backend_up
  /\ caller' = [caller EXCEPT ![c] = "idle"]
  /\ circuit_failures' = FailuresAfterSuccess
  /\ IF ClosesCircuit
       THEN /\ circuit_state' = "Closed"
            /\ reset_elapsed' = FALSE
            /\ half_open_inflight' = FALSE
            /\ probes' = 0
       ELSE UNCHANGED <<circuit_state, reset_elapsed, half_open_inflight,
                        probes>>
  /\ failed_run' = 0
  /\ UNCHANGED <<deployment, stale_cache, counters, backend_up>>

\* What a failure does to the flag of a half-open circuit.
InflightAfterFailure == FALSE

\* record_failure: reopens a half-open circuit, opens a closed one at the
\* threshold, and restarts the clock of an open one.
RecordFailure(c) ==
  /\ caller[c] = "admitted" /\ ~backend_up
  /\ caller' = [caller EXCEPT ![c] = "idle"]
  /\ circuit_failures' = UpTo(circuit_failures + 1, CircuitThreshold)
  /\ failed_run' = UpTo(failed_run + 1, CircuitThreshold)
  /\ \/ /\ circuit_state = "HalfOpen"
        /\ circuit_state' = "Open"
        /\ reset_elapsed' = FALSE
        /\ half_open_inflight' = InflightAfterFailure
        /\ probes' = 0
     \/ /\ circuit_state # "HalfOpen"
        /\ circuit_failures' >= CircuitThreshold
        /\ circuit_state' = "Open"
        /\ reset_elapsed' = FALSE
        /\ UNCHANGED <<half_open_inflight, probes>>
     \/ /\ circuit_state # "HalfOpen"
        /\ circuit_failures' < CircuitThreshold
        /\ UNCHANGED <<circuit_state, reset_elapsed, half_open_inflight,
                       probes>>
  /\ UNCHANGED <<deployment, stale_cache, counters, backend_up>>

\* record_failure_static: the TCP proxy counts a failed connect and does not
\* look at the threshold.
ConnectFails ==
  /\ ~backend_up
  /\ circuit_failures' = UpTo(circuit_failures + 1, CircuitThreshold)
  /\ failed_run' = UpTo(failed_run + 1, CircuitThreshold)
  /\ UNCHANGED <<deployment, circuit_state, reset_elapsed, half_open_inflight,
                 stale_cache, counters, caller, backend_up, probes>>

-----------------------------------------------------------------------------
Request(c) ==
  CheckCircuit(c) \/ HandleRequest(c) \/ (\E k \in Key : HandleWithDegradation(c, k))

Report(c) == RecordSuccess(c) \/ RecordFailure(c)

Next ==
  \/ BackendFlips \/ ResetElapses \/ ConnectFails
  \/ \E c \in Caller : Abandon(c) \/ Request(c) \/ Report(c)
  \/ \E k \in Key : CacheResponse(k)

Spec == Init /\ [][Next]_vars

\* The clock advances, some caller keeps asking, and an admitted caller
\* reports (unless its deployment lets it vanish).
Fairness ==
  /\ WF_vars(ResetElapses)
  /\ \A c \in Caller : WF_vars(Request(c)) /\ WF_vars(Report(c))

FairSpec == Spec /\ Fairness

-----------------------------------------------------------------------------
\* "Circuit is testing recovery - one request allowed through": between two
\* reports that change the state, a half-open circuit admits at most one
\* caller, through any entry point and however late old callers report.
OneProbePerEpisode == circuit_state = "HalfOpen" => probes <= 1

\* The inflight flag is raised in every half-open state and in no other: a
\* probe slot is never free and never leaks into the next episode.
InflightIffHalfOpen == half_open_inflight <=> circuit_state = "HalfOpen"

\* A closed circuit opens only after CircuitThreshold failures with no
\* success reported in between.
OpensAtThreshold ==
  [][circuit_state = "Closed" /\ circuit_state' = "Open"
       => failed_run' >= CircuitThreshold]_vars

\* The inductive invariant of the breaker: the counter that is compared with
\* the threshold is the run of failures since the last success, and the flag
\* that guards the probe slot says exactly when the slot is taken.
FailuresAreObserved == circuit_failures = failed_run

IInv ==
  /\ TypeOK
  /\ FailuresAreObserved
  /\ InflightIffHalfOpen
  /\ OneProbePerEpisode

\* Once the backend stays up and callers report, the circuit closes for good.
\* Degradation is left out: an open circuit may go on serving stale answers.
Recovers ==
  /\ api # "handle_request" /\ ~may_abandon
  /\ api = "degradation" => ~graceful_degradation_enabled
  /\ <>[]backend_up
  => <>[](circuit_state = "Closed")

\* "Circuit is testing recovery - one request allowed through": behind
\* handle_request, too, a backend that stays up closes the circuit.
HandleRequestRecovers ==
  api = "handle_request" /\ ~may_abandon /\ <>[]backend_up
    => <>[](circuit_state = "Closed")

\* The breaker behind its callers keeps the promise of a breaker: read from
\* the outside (the failures that were reported, the requests let through),
\* whatever the entry point, every step is a step of Breaker or none.
Promise == INSTANCE Breaker WITH
  Threshold <- CircuitThreshold, state <- circuit_state, failures <- failed_run,
  waited <- reset_elapsed, trials <- probes
KeepsPromise == Promise!Spec
=============================================================================
