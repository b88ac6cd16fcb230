------------------------------- MODULE Health -------------------------------
(***************************************************************************)
(* Probes: shim-core/health runs a check and classifies its outcome, the   *)
(* startup probe retries it, and the health-shim serves it over HTTP.  The *)
(* handlers share one checker behind a tokio mutex, which hands the lock   *)
(* over in the order of arrival, and hold it while the check runs.         *)
(***************************************************************************)
EXTENDS Naturals, Sequences

CONSTANTS
  HealthCap,          \* capabilities the shim registers
  StartupRetries,     \* StartupProbe.max_retries
  MaxFailures         \* bound on the failure counters

ASSUME HealthAssumption == StartupRetries \in Nat

Endpoint == {"livez", "readyz", "metrics"}
HealthStatus == {"Healthy", "Unhealthy", "Unknown"}

VARIABLES
  initialized,        \* HealthShim.initialized; the server is up once it is started
  serving,
  shim_caps,          \* HealthShim.capabilities: name -> healthy, for the registered
  served_caps,        \* HealthState.capabilities: the copy the server was given
  probe,              \* endpoint -> "idle", "queued", "checking" or the answer
  checkerQueue,       \* the mutex: its holder first, then those who wait
  last_liveness, last_readiness,
  liveness_failures, readiness_failures,
  startup             \* the startup probe: [attempts, verdict]

healthVars == <<initialized, serving, shim_caps, served_caps, probe, checkerQueue,
                last_liveness, last_readiness, liveness_failures, readiness_failures, startup>>
shimState == <<initialized, serving, shim_caps, served_caps>>
checkerState == <<last_liveness, last_readiness>>
failureCounts == <<liveness_failures, readiness_failures>>

HealthInit ==
  /\ initialized = FALSE /\ serving = FALSE
  /\ shim_caps = [c \in {} |-> TRUE] /\ served_caps = shim_caps
  /\ probe = [e \in Endpoint |-> "idle"] /\ checkerQueue = <<>>
  /\ last_liveness = "Unknown" /\ last_readiness = "Unknown"
  /\ liveness_failures = 0 /\ readiness_failures = 0
  /\ startup = [attempts |-> 0, verdict |-> "none"]

AllHealthy(caps) == \A c \in DOMAIN caps : caps[c]

RegisterCapability(c) ==
  /\ shim_caps' = [x \in DOMAIN shim_caps \cup {c} |-> IF x = c THEN TRUE ELSE shim_caps[x]]
  /\ UNCHANGED <<initialized, serving, served_caps, probe, checkerQueue, checkerState,
                 failureCounts, startup>>

SetCapabilityHealth(c) ==
  /\ c \in DOMAIN shim_caps
  /\ \E healthy \in BOOLEAN : shim_caps' = [shim_caps EXCEPT ![c] = healthy]
  /\ UNCHANGED <<initialized, serving, served_caps, probe, checkerQueue, checkerState,
                 failureCounts, startup>>

(* A configuration that does not validate leaves the shim as it was. *)
HealthShimInit ==
  /\ ~initialized /\ initialized' = TRUE
  /\ UNCHANGED <<serving, shim_caps, served_caps, probe, checkerQueue, checkerState,
                 failureCounts, startup>>

(* The server is given a copy: later changes do not reach it.  Stopping    *)
(* the shim does not stop the server.                                      *)
HealthShimStart ==
  /\ initialized /\ ~serving /\ serving' = TRUE /\ served_caps' = shim_caps
  /\ UNCHANGED <<initialized, shim_caps, probe, checkerQueue, checkerState, failureCounts,
                 startup>>

-----------------------------------------------------------------------------
Answered(e) == probe[e] \in {"OK", "UNAVAILABLE"}
JoinQueue(e) ==
  /\ checkerQueue' = Append(checkerQueue, e)
  /\ probe' = [probe EXCEPT ![e] = "queued"]
  /\ UNCHANGED failureCounts

(* /readyz answers for an unhealthy capability without the checker. *)
ProbeArrives(e) ==
  /\ serving /\ (probe[e] = "idle" \/ Answered(e))
  /\ IF e = "readyz" /\ ~AllHealthy(served_caps)
     THEN /\ readiness_failures < MaxFailures /\ readiness_failures' = readiness_failures + 1
          /\ probe' = [probe EXCEPT ![e] = "UNAVAILABLE"]
          /\ UNCHANGED <<checkerQueue, liveness_failures>>
     ELSE JoinQueue(e)
  /\ UNCHANGED <<shimState, checkerState, startup>>

(* The lock is had; the check begins. *)
CheckBegins(e) ==
  /\ probe[e] = "queued" /\ Head(checkerQueue) = e
  /\ probe' = [probe EXCEPT ![e] = "checking"]
  /\ UNCHANGED <<shimState, checkerQueue, checkerState, failureCounts, startup>>

UnlockKept == UNCHANGED checkerQueue
Unlock == checkerQueue' = Tail(checkerQueue)

(* The command ends or its timeout does: execute_health_cmd.  A command it *)
(* does not know is Unknown, which the handlers answer with OK.            *)
Reply(status) == IF status = "Unhealthy" THEN "UNAVAILABLE" ELSE "OK"
CheckEnds(e) ==
  /\ probe[e] = "checking"
  /\ \E status \in HealthStatus :
       /\ probe' = [probe EXCEPT ![e] = IF e = "metrics" THEN "OK" ELSE Reply(status)]
       /\ last_liveness' = IF e = "livez" THEN status ELSE last_liveness
       /\ last_readiness' = IF e = "readyz" THEN status ELSE last_readiness
       /\ (e = "livez" /\ status = "Unhealthy") => liveness_failures < MaxFailures
       /\ (e = "readyz" /\ status = "Unhealthy") => readiness_failures < MaxFailures
       /\ liveness_failures' = liveness_failures
            + (IF e = "livez" /\ status = "Unhealthy" THEN 1 ELSE 0)
       /\ readiness_failures' = readiness_failures
            + (IF e = "readyz" /\ status = "Unhealthy" THEN 1 ELSE 0)
  /\ Unlock
  /\ UNCHANGED <<shimState, startup>>

(* StartupProbe::check: only Healthy ends it early. *)
StartupAttempt ==
  /\ startup.verdict = "none"
  /\ \E status \in HealthStatus :
       startup' = [attempts |-> startup.attempts + 1,
                   verdict |-> CASE status = "Healthy" -> "Healthy"
                                 [] status # "Healthy" /\ startup.attempts < StartupRetries -> "none"
                                 [] OTHER -> "Unhealthy"]
  /\ UNCHANGED <<shimState, probe, checkerQueue, checkerState, failureCounts>>

HealthNext ==
  \/ \E c \in HealthCap : RegisterCapability(c) \/ SetCapabilityHealth(c)
  \/ HealthShimInit \/ HealthShimStart
  \/ \E e \in Endpoint : ProbeArrives(e) \/ CheckBegins(e) \/ CheckEnds(e)

StartupNext == StartupAttempt

-----------------------------------------------------------------------------
(* Every probe is answered: no order of the three endpoints' requests, nor *)
(* a check that another endpoint waits behind, keeps one waiting for ever  *)
(* (liveness_handler, readiness_handler, metrics_handler).                 *)
ProbesAreAnswered == \A e \in Endpoint : probe[e] = "queued" ~> Answered(e)
=============================================================================
