------------------------------ MODULE Alerting ------------------------------
(***************************************************************************)
(* Alerts to webhooks.  Two programs share the shape and, here, the state: *)
(* shim-core's AlertManager, a task that takes events from the bus, and    *)
(* the alerting-shim, whose process_alert is called and retries.  Both     *)
(* note an alert's key before they deliver it, and drop repeats of the key *)
(* for a window; a delivery takes time, which passes between its steps.    *)
(***************************************************************************)
EXTENDS Naturals, FiniteSets

CONSTANTS
  AlertSource,        \* what the key is made of, next to the severity
  Hook,               \* webhook endpoints
  Accepts,            \* hook -> its min_severity
  GlobalMin,          \* AlertManager's min_severity
  DedupWindow,
  HookRetries,        \* WEBHOOK_RETRY_COUNT
  MaxAlerts, MaxAlertTime     \* bounds

(* Severities, info to critical; an event below Warning is not alertable. *)
Severities == 0..3
Warning == 1

ASSUME AlertingAssumption ==
  Accepts \in [Hook -> Severities] /\ GlobalMin \in Severities
  /\ DedupWindow \in Nat /\ HookRetries \in Nat

AlertKeys == AlertSource \X Severities
Matching(k) == {w \in Hook : Accepts[w] <= k[2]}

VARIABLES
  alertNow,           \* from 1, so that 0 means never
  dedup_cache,        \* key -> when it was last noted, 0 for never
  alert,              \* the key in process, or the last one
  pending,            \* webhooks the alert in process still goes to
  attempt,            \* sends of it to the present webhook that failed
  alerts_forwarded, alerts_dropped, delivery_failures,
  endpoint_failures,  \* EndpointState.consecutive_failures, by webhook
  alertsRunning,
  tried               \* history: key -> webhook -> when it was last sent to

alertVars == <<alertNow, dedup_cache, alert, pending, attempt, alerts_forwarded,
               alerts_dropped, delivery_failures, endpoint_failures, alertsRunning, tried>>
alertCounters == <<alerts_forwarded, alerts_dropped, delivery_failures>>

AlertingInit ==
  /\ alertNow = 1 /\ dedup_cache = [k \in AlertKeys |-> 0]
  /\ alert \in {CHOOSE k \in AlertKeys : TRUE} /\ pending = {} /\ attempt = 0
  /\ alerts_forwarded = 0 /\ alerts_dropped = 0 /\ delivery_failures = 0
  /\ endpoint_failures = [w \in Hook |-> 0]
  /\ alertsRunning = TRUE /\ tried = [k \in AlertKeys |-> [w \in Hook |-> 0]]

Handled == alerts_forwarded + alerts_dropped + delivery_failures
IsDuplicate(k) == dedup_cache[k] # 0 /\ alertNow - dedup_cache[k] < DedupWindow
Passes(k) == k[2] >= Warning /\ k[2] >= GlobalMin

DropSlides(k) ==
  /\ alerts_dropped' = alerts_dropped + 1
  /\ dedup_cache' = [dedup_cache EXCEPT ![k] = alertNow]
  /\ UNCHANGED pending

Drop(k) == alerts_dropped' = alerts_dropped + 1 /\ UNCHANGED <<dedup_cache, pending>>

(* The key is noted, whether or not any webhook then takes the alert. *)
RecordAlert(k) ==
  /\ dedup_cache' = [dedup_cache EXCEPT ![k] = alertNow]
  /\ pending' = Matching(k)
  /\ alerts_dropped' = alerts_dropped + (IF Matching(k) = {} THEN 1 ELSE 0)

ProcessEvent(k) ==
  /\ alertsRunning /\ pending = {} /\ Handled < MaxAlerts
  /\ alert' = k
  /\ IF Passes(k) /\ ~IsDuplicate(k) THEN RecordAlert(k) ELSE Drop(k)
  /\ UNCHANGED <<alertNow, attempt, alerts_forwarded, delivery_failures, endpoint_failures,
                 alertsRunning, tried>>

Sent(w) == tried' = [tried EXCEPT ![alert][w] = alertNow]

(* Any answer counts as delivered, an error status too. *)
ManagerDelivers(w) ==
  /\ w \in pending /\ pending' = pending \ {w} /\ Sent(w)
  /\ \/ alerts_forwarded' = alerts_forwarded + 1 /\ UNCHANGED delivery_failures
     \/ delivery_failures' = delivery_failures + 1 /\ UNCHANGED alerts_forwarded
  /\ UNCHANGED <<alertNow, dedup_cache, alert, attempt, alerts_dropped, endpoint_failures,
                 alertsRunning>>

(* The loop looks at the shutdown signal between two events. *)
ManagerStops ==
  /\ alertsRunning /\ pending = {} /\ alertsRunning' = FALSE
  /\ UNCHANGED <<alertNow, dedup_cache, alert, pending, attempt, alertCounters,
                 endpoint_failures, tried>>

CleanupDedupCache ==
  /\ dedup_cache' = [k \in AlertKeys |-> IF IsDuplicate(k) THEN dedup_cache[k] ELSE 0]
  /\ UNCHANGED <<alertNow, alert, pending, attempt, alertCounters, endpoint_failures,
                 alertsRunning, tried>>

AlertTick ==
  /\ alertNow < MaxAlertTime /\ alertNow' = alertNow + 1
  /\ UNCHANGED <<dedup_cache, alert, pending, attempt, alertCounters, endpoint_failures,
                 alertsRunning, tried>>

ManagerNext ==
  \/ \E k \in AlertKeys : ProcessEvent(k)
  \/ \E w \in Hook : ManagerDelivers(w)
  \/ ManagerStops \/ CleanupDedupCache \/ AlertTick

-----------------------------------------------------------------------------
(* alerting-shim.  An alert no webhook takes is not counted. *)
ProcessAlert(k) ==
  /\ pending = {} /\ Handled < MaxAlerts
  /\ alert' = k
  /\ IF IsDuplicate(k) THEN Drop(k)
     ELSE /\ dedup_cache' = [dedup_cache EXCEPT ![k] = alertNow]
          /\ pending' = Matching(k) /\ UNCHANGED alerts_dropped
  /\ UNCHANGED <<alertNow, attempt, alerts_forwarded, delivery_failures, endpoint_failures,
                 alertsRunning, tried>>

(* The backoff that record_failure notes is asked for by no delivery. *)
ShimDelivers(w) ==
  /\ w \in pending /\ Sent(w)
  /\ \/ /\ alerts_forwarded' = alerts_forwarded + 1
        /\ endpoint_failures' = [endpoint_failures EXCEPT ![w] = 0]
        /\ pending' = pending \ {w} /\ attempt' = 0 /\ UNCHANGED delivery_failures
     \/ /\ attempt < HookRetries /\ attempt' = attempt + 1
        /\ UNCHANGED <<pending, alerts_forwarded, delivery_failures, endpoint_failures>>
     \/ /\ attempt = HookRetries /\ attempt' = 0
        /\ delivery_failures' = delivery_failures + 1
        /\ endpoint_failures' = [endpoint_failures EXCEPT ![w] = @ + 1]
        /\ pending' = pending \ {w} /\ UNCHANGED alerts_forwarded
  /\ UNCHANGED <<alertNow, dedup_cache, alert, alerts_dropped, alertsRunning>>

ClearDedupCache ==
  /\ dedup_cache' = [k \in AlertKeys |-> 0]
  /\ UNCHANGED <<alertNow, alert, pending, attempt, alertCounters, endpoint_failures,
                 alertsRunning, tried>>

(* One webhook at a time: a retry goes to the one that just failed. *)
AlertShimNext ==
  \/ \E k \in AlertKeys : ProcessAlert(k)
  \/ LET w == CHOOSE x \in pending : TRUE IN pending # {} /\ ShimDelivers(w)
  \/ CleanupDedupCache \/ ClearDedupCache \/ AlertTick

-----------------------------------------------------------------------------
(* An alert that is dropped as a repeat, by either program, is one that    *)
(* each of its webhooks was sent within the window, however deliveries,    *)
(* clean-ups of the cache and time interleave; so a lasting condition is   *)
(* sent again once per window (process_event, process_alert).              *)
SuppressedWasTried ==
  [][alerts_dropped' # alerts_dropped /\ alert'[2] >= Warning /\ alert'[2] >= GlobalMin =>
       \A w \in Matching(alert') : alertNow - tried[alert'][w] < DedupWindow]_alertVars
=============================================================================
