----------------------------- MODULE Telemetry ------------------------------
(***************************************************************************)
(* shim-core's metrics: the exporter, whose gauge and flag are two         *)
(* atomics that marks set one after the other, and the resource monitor,   *)
(* whose loops look at their flag once per interval; and the lock of       *)
(* cache-shim, because its metrics() takes it for reading and takes it     *)
(* again, through hit_rate(), before it lets go.                           *)
(***************************************************************************)
EXTENDS Naturals

CONSTANTS Marker, MaxLoops, MaxCountedEvents     \* callers of mark_up/mark_down; bounds

ASSUME TelemetryAssumption == MaxLoops \in Nat /\ MaxCountedEvents \in Nat

VARIABLES
  health_status, errors_total,    \* ShimMetrics, the base registry
  shim_up, exporterRunning,
  marking,             \* marker -> "none", or the value its second store will write
  listening,           \* the exporter's server: "no", "yes" or "failed"
  counted,             \* events_total, alerts_*, health_probes, config_reloads
  custom,              \* set_custom_metric was called
  scrape,              \* the last scrape: [up, counted, errors, status]
  quota_high, quotas_ok,
  monitoring,          \* ResourceMonitor.running
  loops,               \* monitoring tasks alive
  gauges_fresh         \* the gauges hold what a loop or a check last read

telemetryVars == <<health_status, errors_total, shim_up, exporterRunning, marking, listening, counted, custom, scrape,
                   quota_high, quotas_ok, monitoring, loops, gauges_fresh>>
exporterVars == <<health_status, errors_total, shim_up, exporterRunning, marking, listening, counted, custom, scrape>>
monitorVars == <<quota_high, quotas_ok, monitoring, loops, gauges_fresh>>

ShimMetricsInit == health_status = FALSE /\ errors_total = 0
MonitorInit ==
  /\ quota_high = FALSE /\ quotas_ok = TRUE /\ monitoring = FALSE /\ loops = 0
  /\ gauges_fresh = FALSE
TelemetryInit ==
  /\ ShimMetricsInit /\ MonitorInit
  /\ shim_up = FALSE /\ exporterRunning = FALSE /\ marking = [m \in Marker |-> "none"]
  /\ listening = "no" /\ counted = 0 /\ custom = FALSE
  /\ scrape = [up |-> FALSE, counted |-> 0, errors |-> 0, status |-> "unhealthy"]

SetHealthy(healthy) ==
  /\ health_status' = healthy
  /\ UNCHANGED <<errors_total, shim_up, exporterRunning, marking, listening, counted, custom,
                 scrape, monitorVars>>
RecordError ==
  /\ errors_total < MaxCountedEvents /\ errors_total' = errors_total + 1
  /\ UNCHANGED <<health_status, shim_up, exporterRunning, marking, listening, counted, custom,
                 scrape, monitorVars>>

(* mark_up and mark_down: the gauge, then the flag. *)
MarkGauge(m, up) ==
  /\ marking[m] = "none" /\ shim_up' = up
  /\ marking' = [marking EXCEPT ![m] = IF up THEN "up" ELSE "down"]
  /\ UNCHANGED <<health_status, errors_total, exporterRunning, listening, counted, custom,
                 scrape, monitorVars>>
MarkFlag(m) ==
  /\ marking[m] # "none" /\ exporterRunning' = (marking[m] = "up")
  /\ marking' = [marking EXCEPT ![m] = "none"]
  /\ UNCHANGED <<health_status, errors_total, shim_up, listening, counted, custom, scrape,
                 monitorVars>>

(* The exporter is marked up before its port is bound, and stays so when   *)
(* the port is taken.                                                      *)
StartExporter ==
  /\ listening = "no" /\ listening' \in {"yes", "failed"}
  /\ shim_up' = TRUE /\ exporterRunning' = TRUE
  /\ UNCHANGED <<health_status, errors_total, marking, counted, custom, scrape, monitorVars>>

CountEvent ==
  /\ counted < MaxCountedEvents /\ counted' = counted + 1
  /\ UNCHANGED <<health_status, errors_total, shim_up, exporterRunning, marking, listening,
                 custom, scrape, monitorVars>>
SetCustomMetric ==
  /\ custom' = TRUE
  /\ UNCHANGED <<health_status, errors_total, shim_up, exporterRunning, marking, listening,
                 counted, scrape, monitorVars>>

(* /healthz answers for the exporter's flag, whatever the gauges say.      *)
healthz == IF exporterRunning THEN "healthy" ELSE "unhealthy"

(* export_all gathers the registries; custom metrics are in neither. *)
Scrape ==
  /\ listening = "yes"
  /\ scrape' = [up |-> shim_up, counted |-> counted, errors |-> errors_total, status |-> healthz]
  /\ UNCHANGED <<health_status, errors_total, shim_up, exporterRunning, marking, listening,
                 counted, custom, monitorVars>>

ExporterNext ==
  \/ \E m \in Marker : MarkFlag(m) \/ \E up \in BOOLEAN : MarkGauge(m, up)
  \/ RecordError \/ \E healthy \in BOOLEAN : SetHealthy(healthy)
  \/ StartExporter \/ CountEvent \/ SetCustomMetric \/ Scrape

-----------------------------------------------------------------------------
(* Every call spawns a loop; a loop that was told to stop and has not yet  *)
(* looked goes on when the monitor is started again.                       *)
StartMonitoring ==
  /\ loops < MaxLoops /\ loops' = loops + 1 /\ monitoring' = TRUE
  /\ UNCHANGED <<exporterVars, quota_high, quotas_ok, gauges_fresh>>
StopMonitoring ==
  /\ monitoring' = FALSE
  /\ UNCHANGED <<exporterVars, quota_high, quotas_ok, loops, gauges_fresh>>

LoopNeverEnds ==
  /\ loops > 0 /\ gauges_fresh' = TRUE
  /\ UNCHANGED <<exporterVars, quota_high, quotas_ok, monitoring, loops>>

MonitorTick ==
  /\ loops > 0
  /\ IF monitoring THEN gauges_fresh' = TRUE /\ UNCHANGED loops
     ELSE loops' = loops - 1 /\ UNCHANGED gauges_fresh
  /\ UNCHANGED <<exporterVars, quota_high, quotas_ok, monitoring>>

UsageChanges ==
  /\ quota_high' = ~quota_high /\ gauges_fresh' = FALSE
  /\ UNCHANGED <<exporterVars, quotas_ok, monitoring, loops>>

CheckQuotas ==
  /\ quotas_ok' = ~quota_high /\ gauges_fresh' = TRUE
  /\ UNCHANGED <<exporterVars, quota_high, monitoring, loops>>

MonitorNext == StartMonitoring \/ StopMonitoring \/ MonitorTick \/ UsageChanges \/ CheckQuotas

-----------------------------------------------------------------------------
(* Once the monitor is stopped for good, every loop that was ever spawned  *)
(* comes to its end (start_periodic_monitoring, stop_periodic_monitoring). *)
StoppedLoopsEnd == <>[](~monitoring) => <>[](loops = 0)

-----------------------------------------------------------------------------
(* parking_lot's RwLock: a waiting writer holds back new readers, also one  *)
(* that already has a read lock.                                            *)

CONSTANTS Scraper, Caller    \* threads in metrics(), threads in get, set, ...

VARIABLE lockPc              \* "idle", "wait", "hold", "wait2" or "hold2" per thread
lockVars == <<lockPc>>
CacheLockInit == lockPc = [t \in Scraper \cup Caller |-> "idle"]

Reading(t) == t \in Scraper /\ lockPc[t] \in {"hold", "wait2", "hold2"}
Writing(t) == t \in Caller /\ lockPc[t] = "hold"
WriterWaits == \E w \in Caller : lockPc[w] = "wait"
Steps(t, from, to) == lockPc[t] = from /\ lockPc' = [lockPc EXCEPT ![t] = to]

Ask(t) == Steps(t, "idle", "wait")
WriteLock(w) ==
  Steps(w, "wait", "hold") /\ \A t \in DOMAIN lockPc : ~Reading(t) /\ ~Writing(t)
WriteUnlock(w) == Steps(w, "hold", "idle")
ReadLock(r) ==
  Steps(r, "wait", "hold") /\ ~WriterWaits /\ \A w \in Caller : ~Writing(w)
\* metrics() still holds its guard when hit_rate() asks for the lock.
AskAgain(r) == Steps(r, "hold", "wait2")
ReadLockAgain(r) == Steps(r, "wait2", "hold2") /\ ~WriterWaits
ReadUnlock(r) == Steps(r, "hold2", "idle")

CacheLockNext ==
  \/ \E w \in Caller : Ask(w) \/ WriteLock(w) \/ WriteUnlock(w)
  \/ \E r \in Scraper : Ask(r) \/ ReadLock(r) \/ AskAgain(r) \/ ReadLockAgain(r)
                        \/ ReadUnlock(r)

(* A writer gets the lock, or a scraper is caught between its two read      *)
(* locks by that writer, and both wait for ever.                            *)
WritersWaitOnlyForMetrics ==
  \A w \in Caller :
    (lockPc[w] = "wait") ~> (lockPc[w] = "hold" \/ \E r \in Scraper : lockPc[r] = "wait2")
=============================================================================
