-------------------- MODULE MCServices --------------------
(***************************************************************************)
(* The components of the shim that run by themselves and share no state    *)
(* with each other, each from its own initial state: unit says which one   *)
(* runs.  These are the ones with something that must eventually happen.   *)
(***************************************************************************)
EXTENDS ClusterFailover, Replication, Scheduler, HotReload,
  JobQueue, Health, Operator, Connectors, Telemetry

TwoClusters == [a |-> 2, b |-> 1]
ThreeTasks == <<2, 3, 4>>

Units == {"multi_cluster", "patroni", "sentinel", "replication",
  "scheduler", "hotreload", "cache_lock", "queue", "health", "startup_probe",
  "operator", "connector", "exporter", "monitor"}

VARIABLE unit
serviceVars == <<unit, clusterVars, patroniVars, sentinelVars,
  replicationVars, schedulerVars, reloadVars, lockVars, queueVars,
  healthVars, operatorVars, connVars, telemetryVars>>

Init ==
  /\ unit \in Units
  /\ ClusterInit
  /\ MonitorsInit
  /\ ReplicationInit
  /\ SchedulerInit
  /\ ReloadInit
  /\ CacheLockInit
  /\ QueueInit
  /\ HealthInit
  /\ OperatorInit
  /\ ConnectorInit
  /\ TelemetryInit
  \* The choices of a component that does not run are fixed.
  /\ unit # "operator" => deployed
  /\ unit # "connector" => connector = "mongodb"

Next ==
  \/ unit = "multi_cluster" /\ ClusterNext /\ UNCHANGED <<unit, patroniVars,
       sentinelVars, replicationVars, schedulerVars, reloadVars, lockVars, queueVars, healthVars, operatorVars, connVars, telemetryVars>>
  \/ unit = "patroni" /\ PatroniNext /\ UNCHANGED <<unit, clusterVars,
       sentinelVars, replicationVars, schedulerVars, reloadVars, lockVars, queueVars, healthVars, operatorVars, connVars, telemetryVars>>
  \/ unit = "sentinel" /\ SentinelNext /\ UNCHANGED <<unit, clusterVars,
       patroniVars, replicationVars, schedulerVars, reloadVars, lockVars, queueVars, healthVars, operatorVars, connVars, telemetryVars>>
  \/ unit = "replication" /\ ReplicationNext /\ UNCHANGED <<unit,
       clusterVars, patroniVars, sentinelVars, schedulerVars, reloadVars, lockVars,
       queueVars, healthVars, operatorVars, connVars, telemetryVars>>
  \/ unit = "scheduler" /\ SchedulerNext /\ UNCHANGED <<unit, clusterVars,
       patroniVars, sentinelVars, replicationVars, reloadVars, lockVars, queueVars, healthVars, operatorVars, connVars, telemetryVars>>
  \/ unit = "hotreload" /\ ReloadNext /\ UNCHANGED <<unit, clusterVars,
       patroniVars, sentinelVars, replicationVars, schedulerVars, lockVars, queueVars, healthVars, operatorVars, connVars, telemetryVars>>
  \/ unit = "cache_lock" /\ CacheLockNext /\ UNCHANGED <<unit, clusterVars,
       patroniVars, sentinelVars, replicationVars, schedulerVars, reloadVars, queueVars, healthVars, operatorVars, connVars, telemetryVars>>
  \/ unit = "queue" /\ QueueNext /\ UNCHANGED <<unit, clusterVars,
       patroniVars, sentinelVars, replicationVars, schedulerVars, reloadVars, lockVars,
       healthVars, operatorVars, connVars, telemetryVars>>
  \/ unit = "health" /\ HealthNext /\ UNCHANGED <<unit, clusterVars,
       patroniVars, sentinelVars, replicationVars, schedulerVars, reloadVars, lockVars,
       queueVars, operatorVars, connVars, telemetryVars>>
  \/ unit = "startup_probe" /\ StartupNext /\ UNCHANGED <<unit, clusterVars,
       patroniVars, sentinelVars, replicationVars, schedulerVars, reloadVars, lockVars,
       queueVars, operatorVars, connVars, telemetryVars>>
  \/ unit = "operator" /\ OperatorNext /\ UNCHANGED <<unit, clusterVars,
       patroniVars, sentinelVars, replicationVars, schedulerVars, reloadVars, lockVars,
       queueVars, healthVars, connVars, telemetryVars>>
  \/ unit = "connector" /\ ConnectorNext /\ UNCHANGED <<unit, clusterVars,
       patroniVars, sentinelVars, replicationVars, schedulerVars, reloadVars, lockVars,
       queueVars, healthVars, operatorVars, telemetryVars>>
  \/ unit = "exporter" /\ ExporterNext /\ UNCHANGED <<unit, clusterVars,
       patroniVars, sentinelVars, replicationVars, schedulerVars, reloadVars, lockVars,
       queueVars, healthVars, operatorVars, connVars>>
  \/ unit = "monitor" /\ MonitorNext /\ UNCHANGED <<unit, clusterVars,
       patroniVars, sentinelVars, replicationVars, schedulerVars, reloadVars, lockVars,
       queueVars, healthVars, operatorVars, connVars>>

(* Fairness: the runtime polls every task whose timer, I/O or lock has come *)
(* up; commands and requests end, unless they have no timeout and hang, for *)
(* which LoopTick, ReplHangs, TaskHangs, HandlerHangs and CheckHangs stand. *)
(* Strong fairness where a step competes for a lock that is handed out in   *)
(* order (parking_lot's writers, the owner of the queue) or where a select  *)
(* finds the shutdown ready again and again (the scheduler's sleep).        *)
Fairness ==
  /\ WF_clusterVars(unit = "multi_cluster" /\ LoopTick)
  /\ WF_clusterVars(unit = "multi_cluster" /\ LoopEnds)
  /\ WF_replicationVars(unit = "replication" /\ ReplTick)
  /\ WF_replicationVars(unit = "replication" /\ ReplEnds)
  /\ WF_schedulerVars(unit = "scheduler" /\ PickTask)
  /\ WF_schedulerVars(unit = "scheduler" /\ FireTask)
  /\ WF_schedulerVars(unit = "scheduler" /\ RunHandler)
  /\ WF_schedulerVars(unit = "scheduler" /\ RetryDelay)
  /\ SF_schedulerVars(unit = "scheduler" /\ SleepInterrupted)
  /\ WF_reloadVars(unit = "hotreload" /\ ReceiveEvent)
  /\ WF_reloadVars(unit = "hotreload" /\ ReloadFile)
  /\ WF_reloadVars(unit = "hotreload" /\ DebouncePasses)
  /\ \A w \in Caller : /\ SF_lockVars(unit = "cache_lock" /\ WriteLock(w))
                       /\ WF_lockVars(unit = "cache_lock" /\ WriteUnlock(w))
  /\ \A r \in Scraper : /\ WF_lockVars(unit = "cache_lock" /\ AskAgain(r))
                        /\ WF_lockVars(unit = "cache_lock" /\ ReadLockAgain(r))
                        /\ WF_lockVars(unit = "cache_lock" /\ ReadUnlock(r))
  /\ WF_queueVars(unit = "queue" /\ Start)
  /\ \A w \in Worker : WF_queueVars(unit = "queue" /\ WorkerStep(w))
  /\ WF_queueVars(unit = "queue" /\ EnqueueCounts)
  /\ WF_queueVars(unit = "queue" /\ BackoffEnds)
  /\ SF_queueVars(unit = "queue" /\ \E j \in Job : CompleteJob(j) \/ FailJob(j))
  /\ \A e \in Endpoint : /\ WF_healthVars(unit = "health" /\ CheckBegins(e))
                         /\ WF_healthVars(unit = "health" /\ CheckEnds(e))
  /\ WF_operatorVars(unit = "operator" /\ RequeueDue)
  /\ WF_operatorVars(unit = "operator" /\ ReconcileBegins)
  /\ WF_operatorVars(unit = "operator"
                       /\ (ApplyConfigMap \/ UpdateDeployment \/ PatchStatus))
  /\ WF_connVars(unit = "connector" /\ (CheckErrs \/ CheckAnswers \/ CrdbReachable
                                         \/ CrdbCounts \/ DumpEnds))
  /\ WF_telemetryVars(unit = "monitor" /\ MonitorTick)

Spec == Init /\ [][Next]_serviceVars /\ Fairness

-----------------------------------------------------------------------------
(* What the services add up to at every step: the types, one               *)
(* runner per job, its counters and its dead letters; what the monitors    *)
(* announce; what a Failed task has behind it.                             *)
ServicesInvariant ==
  /\ QueueTypeOK /\ ClusterTypeOK
  /\ OneRunnerPerJob
  /\ CountersBalance
  /\ RunningWithinLimit
  /\ DeadAreExhausted
  /\ AnnouncedIsSeen
  /\ FailedMeansExhausted

(* Whatever is told to stop, and whoever waits, comes to an end unless a    *)
(* handler or a command it called hangs: the scheduler, the queue's workers,*)
(* the monitoring loops and the connectors' checks; a cache writer waits    *)
(* for ever only behind a scrape of metrics.                                *)
ServicesEnd ==
  /\ SchedulerStops
  /\ StopEndsWorkers
  /\ StoppedLoopsEnd
  /\ ChecksEnd
  /\ WritersWaitOnlyForMetrics

=============================================================================
