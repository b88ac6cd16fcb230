# EvergreenShims: a TLA+ verification project

EvergreenShims wraps a database container in one supervisor process
(`evergreen-shim`, PID 1) that spawns the database and runs a set of
*capabilities* ("shims") beside it: health, failover, proxy, queue, migration,
backup and so on, each a crate of its own on top of `shim-core`. This project
models the parts whose correctness depends on interleaving, timing, failure or a
long sequence of calls, checks them with TLC on small instances and proves the
central invariants with TLAPS. `PROJECT.json` is the index: components, runs,
properties with a mutated definition each, the source lines of every definition,
hazards, theorems.

## 1. Inventory

### The parts, their state and operations

| Part | State | Operations | Hard behaviour |
|---|---|---|---|
| `evergreen-shim` `run_shim` | started capabilities, signal flag, pidfd, restart flag, exit | start capabilities, spawn, main loop (`select!`), restart once, stop child, stop capabilities in reverse | signals racing the child's death, a restart that invalidates the fd the loop polls, one failing step of several |
| `shim-core` process, shutdown | pid, state, pidfd, signals sent; operations in flight | `start`, `stop`, `is_running`, four shutdown sequences, the reaper, the drain of `ShutdownManager` | the reaper frees the pid while `stop()` polls it; timeouts; pid reuse; two atomics read one after the other |
| `shim-core` signal | shutdown flag, broadcast of signals | install, receive | signals before the handlers exist |
| `shim-core` bus, event, wiring | per-source sequence numbers, broadcast channel, counters, four handlers with their shutdown senders | `publish`, `emit`, `subscribe`, `recv_filtered`, `wire_all_handlers`, handler loops | numbering and sending are two steps, receivers lag, handlers publish to the bus they read, a dropped handle ends a task |
| `shim-core` redis_bridge | consumer group position, pending entries, batch, last id | publish, read, relay, acknowledge, reconnect | crash between read and acknowledgement, several bridges of one group |
| `shim-core` hotreload, config; `config-shim` | current config, last reload, hash of the watched file, backup copy | load and merge, debounced watch, validate, swap, signal | changes inside the debounce interval, a failed signal |
| `shim-core` health, `health-shim` | checker behind a mutex, capability copy, last results | three endpoints, classification, startup probe | a slow check that the other endpoints wait behind |
| `shim-core` alerting, `alerting-shim` | deduplication cache, counters, endpoint failures | process, deliver with retries, clean up | time passes during a delivery; the key is noted before the delivery |
| `shim-core` resource, metrics, metrics_export | gauge and flag, loops, usage | mark up and down, scrape, monitor loops | two stores of one fact; a stopped loop that has not looked yet |
| `shim-core` tenant | quotas, token bucket, audit log | register, check, reset | refill and reset arithmetic |
| `shim-core` wasm, `shim-plugin` | linear memory, log, fuel, loaded libraries | run, host functions, load, init, stop | state that survives from one run to the next; a library loaded twice |
| `failover-shim` loop | state, failure counter, current primary, healthy streak, last known primary | tick (three connectors), `handle_check_result`, `trigger_failover`, failback, `stop` | databases move between any two awaits; a promotion can fail; `stop()` during a promotion |
| `failover-shim` monitors | statuses, failures and primary, twice for several clusters | check all, promote, spawned loop; Patroni, Sentinel | a loop with its own copy of the primary |
| `proxy-shim` circuit breaker | circuit state, failures, clock, probe flag, stale cache, counters | three admission paths, `record_success`, `record_failure`, `cache_response` | late, crossing and missing reports |
| `proxy-shim` balancing, rate limit, TCP; `management-api` limiter | weights, round-robin index, token bucket, routes, connections, timestamps | select backend, take token, accept, pipe | backends that change in the middle of a round; refused requests |
| `queue-shim` | pending, running, dead letters, counters | manual API, worker loop, `start`, `stop` | jobs in no list during a backoff, two kinds of runner, hung handlers, wall-clock steps |
| `migration-shim` | lock file, applied records, `schema_migrations` | acquire and release lock, apply, record, roll back, several databases | non-atomic lock file, crash between SQL and record |
| `scheduler-shim` | tasks, attempts, clock | pick, sleep, run, retry, stop | ties between tasks, `stop()` during a sleep |
| `backup-shim` | history, files on disk and in S3 | scheduled loop, dump with retries, checksum, upload, retention, verify | two backups in one second, failed upload, removal of the only copy |
| `cdc-shim` | pending events, ring, log position, key checksums | capture, three polling loops, publish a batch, webhook retries | crossing batches, partial failure of a batch |
| `cache-shim` | entries, two orders, byte count, RwLock | get, set, invalidate, sweep, metrics | eviction accounting; a lock taken twice for reading |
| `replication-shim` | primary, replica states, shared state | check loop, status updates, promote | a loop that works on what `start()` saw |
| `sharding-shim` | shards, ranges, directory | route, health, mapping | a shard that fails and recovers |
| `vault-shim`, `tls-shim`, `encryption-shim`, `auth-shim` | leases, certificate files, keys, tokens, lockouts | rotate, load, save, seal, open, validate, revoke | crash between two files, lease against interval, restart with other keys |
| `audit-shim`, `archival-shim`, `compliance-shim`, `cost-shim`, `chaos-shim` | logs and files, records, checks, budgets, experiments | append, rotate, purge, report, bill, inject | torn writes, reused numbers, two views of one fact |
| database shims (MongoDB, Elasticsearch, CockroachDB, Cassandra, DynamoDB) | counters | health check with retries, topology, dump | the several queries of one report |
| `shim-operator` | status, ConfigMap, Deployment | reconcile, requeue | the object is edited during a reconcile |
| `shimctl`, SDKs, otel, logging | none of their own | CLI and I/O | none |

### How they interact

`run_shim` owns the capabilities and the `ChildProcess`, calls `init`/`start`/
`stop` of each capability, and receives signals through `SignalHandler`.
Capabilities talk to each other only through the event bus: the health shim
publishes health events, the failover shim publishes `FailoverTriggered`, and the
handlers of `wiring.rs` turn some events into others (unhealthy → failover,
backup completed → key rotation, backup task → backup started, alertable →
alert). The Redis bridge carries events between the buses of several containers.
Most shims run tokio tasks of their own that share state with the shim's methods
through mutexes, atomics and watch channels. The migration shim's lock file, the
archives, the certificates and the audit files are shared with earlier
and later lives of the same shim.

### What makes each part correct

* **run_shim / child**: no live child is left unsupervised; "clean" is never said
  of a child that is alive or was killed; critical capabilities are up whenever the loop
  runs; capabilities stop in reverse and after the child; one restart; a signal ends
  the shim; a dead child is noticed; operations in flight are waited for.
* **bus, bridge**: sequence numbers are unique and without gaps per source; a triggered
  failover is paid for by consecutive unhealthy events; what a handler hears is
  answered; an entry of the stream reaches one bus once.
* **failover, monitors, replication**: a switch is earned by probes of the very node
  it replaces, the published state names the node in use, a switch is announced,
  a dead primary is replaced, `stop()` ends the loop, the state heals.
* **circuit breaker**: it implements an abstract breaker: opening is earned, the reset
  period is waited for, one trial per half-open episode, outcomes decide; it recovers.
* **queue, scheduler**: jobs are conserved, have one runner, end; counters add up;
  `stop()` ends the loops.
* **persistence** (migration, backup, archival, audit, TLS, encryption, CDC): what was
  recorded is there and is what was recorded, over crashes, restarts and retries.
* **limits** (tenants, rate limiters, cache, auth, alerting, wasm): the bound holds over
  every sequence of calls, and nothing is refused or dropped without its reason.

`PROJECT.json` lists every hazard at its source line, with the property that would
catch it.

## 2. Modules

### Core

| Module | Models | State ↔ code | Actions ↔ code |
|---|---|---|---|
| `Failover` | monitoring loop of `failover-shim/src/lib.rs` | `shared` is `SharedState`; `consecutive_primary_healthy`, `last_known`, `cur` are locals of the loop; `pc` is the await the loop is suspended in | `Tick`, `CheckHealthy`/`CheckUnhealthy` (`handle_check_result`), `MonitorReports`/`MonitorUnreachable` (Patroni, Sentinel arms), `Promote`, `PromotionSucceeded`/`PromotionFailed` (`trigger_failover`), `FailbackCheck`/`Failback`, `Start`, `Stop`, `Shutdown`; `Hang` is an await without a timeout (webhook, promotion command, psql, Sentinel) that never ends; `Flip` is the environment |
| `Breaker` | abstract specification: what a circuit breaker promises | state, failures in a row, whether the reset period passed, trials | `Wait`, `Try`, `Trial`, `Succeed`, `Fail` |
| `CircuitBreaker` | circuit breaker of `proxy-shim/src/lib.rs`, shown to implement `Breaker` (`INSTANCE Breaker WITH …`, `KeepsPromise`) | `circuit`, `counters`, `stale_cache` are fields of `ProxyState`; `caller` is what each concurrent caller does; `api`, `graceful_degradation_enabled`, `may_abandon` are fixed per behaviour | one action per method (each runs under one write lock), `ResetElapses` is the clock, `BackendFlips`, `Abandon` the environment, `ConnectFails` the TCP proxy |
| `ChildProcess` | `process.rs`, `shutdown.rs` | `os` is the kernel's view of the pid, `pid`/`state` the struct's, `stop_pc` the sleep or wait that `stop()` is in | `StartChild`, `BeginStop` … `EndStop` for the Postgres, Redis and Generic sequences and for `graceful_shutdown`; `Reap`, `ChildExits`, `Recycle` are reaper and kernel |
| `Supervisor` | `run_shim` in `main.rs`, `signal.rs`; extends `ChildProcess` | `phase` is the place in `run_shim`; `pidfd` is what the captured fd number refers to now | capability startup, spawn, `LoopTop`, the three `Select*` branches, restart, shutdown; phase `embedded` is a `ChildProcess` used without `run_shim` |
| `EventBus` | `bus.rs`, `event.rs`, `wiring.rs` | `sequences`, `total_*` are `ShimBus`; `log` is everything sent, of which the channel holds the last `Capacity`; `pos` is each receiver's cursor; `sender` each handler's `shutdown_tx` | `Publish` and `Send` are the two halves of `publish`; one read action per handler, `HandlerLags`, `LeaveLoop`, `StartHandler`, `DropHandler`, `StopHandler`; `recv_filtered` is `FilteredReads`/`FilteredLags` |
| `JobQueue` | `queue-shim/src/lib.rs` | `lists`, `counters` are `QueueInner` and the atomics; `worker` is where each worker's loop is; `owner` where the manual API's call is suspended | one action per critical section |

### Services and capabilities

| Module | Models | Main actions ↔ code |
|---|---|---|
| `ClusterFailover` | `MultiClusterMonitor` (methods and `start_loop`), `PatroniMonitor`, `RedisSentinelMonitor` | `CheckAllClusters`, `PromoteSecondary`, `LoopTick` (one round of the task with its own primary, which its webhook may suspend for good), `LoopStop`; one poll action per monitor |
| `Traffic` | rest of `proxy-shim`, limiter of `management-api` | `SelectBackend` (weighted round robin), `RegisterBackend`, `SetBackendHealth`, `AddRouteRule`, `CheckRateLimit`, `Accept`/`PipeEnds` (`start_tcp_proxy`), `Allow` |
| `Drain` | `ShutdownManager::shutdown` | the two counters are loaded in separate steps: `InFlightCounted`, `LoadCompleted`, `DrainPoll`, `DrainTimesOut` |
| `RedisBridge` | `redis_bridge.rs` | `BridgePublish` (XADD), `ReadGroup` (XREADGROUP), `RelayEntry`, `AckLast` (XACK of `last_id`), `BridgeConnect`, `BridgeCrash` |
| `HotReload` | `hotreload.rs` | `ReceiveEvent` (the debounce test), `ReloadFile` (after the sleep), both ways to start, `WatchError` |
| `ConfigLoading` | `config.rs`, `config-shim` | `Load` (defaults, file, environment, merge, tenants), `WatchLoop`, `ReloadConfig` |
| `Health` | `health.rs`, `health-shim` | `ProbeArrives`, `CheckBegins`, `CheckEnds` over the tokio mutex, `StartupAttempt` |
| `Alerting` | `alerting.rs`, `alerting-shim` | `ProcessEvent`/`ManagerDelivers`, `ProcessAlert`/`ShimDelivers` with retries, `CleanupDedupCache` |
| `Telemetry` | `metrics.rs`, `metrics_export.rs`, `resource.rs` | `mark_up`/`mark_down` in two stores, `Scrape`, `MonitorTick`, `CheckQuotas`; `Ask`, `ReadLock`, `AskAgain`, … are the RwLock that a scrape of the cache's `metrics()` takes twice |
| `Tenants` | `tenant.rs` | `RegisterTenant`, `CheckQuotaHardened`, `CheckAndReset`, `RecordMemoryOrCpu` |
| `Plugins` | `wasm.rs`, `shim-plugin` | `RunBegins`/`RunEnds`, `HostConfigGet`, `HostLog`; `LoadAll`, `PluginInitCall`, `PluginStart`, `PluginStop` |
| `Migration` | `migration-shim` | `LockExists` … `LockWrite` are the system calls on the lock file, `ApplyMigration`/`RecordMigration` the two statements, `RollbackSql`/`RollbackRecord`, `MigRestart`; `Target*` are `orchestrate_multi_db` |
| `Scheduler` | `scheduler-shim` | `PickTask`, `FireTask`, `RunHandler`, `RetryDelay`, `SleepInterrupted`, `SchedulerStop`; `TaskHangs` is a handler that never returns |
| `Archival` | `archival-shim` | `ArchiveSource`/`ArchiveFails`/`ArchiveMetadata`, `PurgeExpired`, `ApplyLifecycle`, `ArchivalRestart` |
| `Audit` | `audit-shim` | `LogEntry` (`write_to_disk`: the text is in the file, its newline is queued because the tokio file is never flushed), `NewlineEnds` (the queued newline is written, perhaps after the next text, or fails unseen), `LogWriteFails`, `LogWebhookFails`, `LogRotateFails`, `ForceRotate` (whole, in part, or into the file of the same second), `ClearLogBefore`, `AuditRestart` (end of the process at any point, `load_from_disk`) |
| `Auth` | `auth-shim` | create, validate, revoke for tokens and API keys, `RecordFailedLogin`, `AuthRestart` |
| `Backup` | `backup-shim` | `Wake`, `DumpWritten`/`DumpFails`, `ReadBack` (checksum), `UploadToS3`, `RecordBackup`, `CleanupRetention`; `verify` is `BackupVerifier` |
| `Cache` | `cache-shim` | `CacheGet`, `CacheSet` with eviction, `Invalidate*`, `Sweep` |
| `Cdc` | `cdc-shim` | `CaptureEvent`, `PollPostgres`/`PollMariadb`/`PollRedis`, `Publish*`, `PostAccepted`/`PostRejected`/`PostFails`, `BatchEnds` |
| `Chaos` | `chaos-shim` | `Evaluate`, experiments, partitions as iptables rules; `Orchestrate`, `OrchestratorTick`, `CompleteExperiment`, schedules |
| `Compliance` | `compliance-shim` | `AddChecks`, `RunChecks`, `ResolveViolation`; the report is an operator |
| `Cost` | `cost-shim` | `RecordUsage`, `ResetBudgets`, `RecordPoint`, `Analyze` |
| `Encryption` | `encryption-shim` | `Encrypt`, `RotateKey`, both kinds of restart; `decrypt` is an operator |
| `Replication` | `replication-shim` | `ReplTick` (the spawned loop), `UpdateReplicaStatus`, `PromoteReplica`, `RecalculateState`; `ReplHangs` is a `psql` that never returns |
| `Sharding` | `sharding-shim` | `Route` under each strategy, `SetShardHealth`, `SetRange`, `AddDirectoryMapping` |
| `Tls` | `tls-shim` | `TlsStart`, `OpenCert` (truncates), `SaveCert`, `OpenKey` (truncates), `SaveKey`, `RenewalFails` (nothing touched), `SaveFails` and `TlsCrash` (between any two of them), `RenewCertificate` |
| `Vault` | `vault-shim` | `RotationBegins`, `VaultAnswers`, `CredentialsWritten`, `RotationFails` |
| `Connectors` | MongoDB, Elasticsearch, CockroachDB, Cassandra, DynamoDB shims | `CheckHealth`, `CheckErrs`, `CheckAnswers`, `CrdbReachable`/`CrdbCounts`, `DumpBegins`/`DumpEnds`; `CheckHangs` for all but Elasticsearch |
| `Operator` | `shim-operator` | `ReconcileBegins`, `ApplyConfigMap`, `UpdateDeployment`, `PatchStatus`, `ReconcileFails`, `RequeueDue`; `EditSpec` is the user |

The comment at the head of each module says what it stands for; `map` in
`PROJECT.json` gives the lines of every definition. `FailoverProofs`,
`CircuitBreakerProofs`, `SupervisorProofs`, `EventBusProofs`, `ServiceProofs`, `CapabilityProofs`,
`RecordProofs` and `MCCapabilitiesProofs` hold the theorems.

### Composition

`Supervisor` extends `ChildProcess`: every step of `run_shim` interleaves with the
kernel, the reaper and the signals. `EventBus` has the bus and the wired handlers in one
state. `MCServices` and `MCCapabilities` hold the components that do not share state with each
other: a variable `unit`, fixed by `Init`, says which of them a behaviour exercises, so each is
explored on its own and the state space is the sum of theirs. `MCServices`
and `MCCapabilities` only give constants, this choice, and the conjunctions of
properties that the configurations name.

An operator that no specification uses and that stands directly before the definition it
varies is a wrong variant of it, the way a plausible slip in that code would make it wrong. `mutants` in
`PROJECT.json` lists them with the property that notices when one is put in the definition's place.

### Abstractions

* Times are events or small clocks: an interval elapses, a timeout fires, a sleep ends. Clocks
  are numbers only where arithmetic on them matters (leases, buckets, windows, schedules).
* Counters that are only compared with a bound are kept up to it. The
  request counters of the proxy wrap (`CounterSize` for 2^64).
* Node addresses, jobs, keys, files and publishers are model values or names; payloads,
  messages and logs are left out. A file's content is the number of what was written to it.
* The broadcast channel and locks of tokio, the kernel's process table, the databases, Redis, S3, Vault,
  ACME, the Kubernetes API, job handlers, the wasm interpreter and the proxied backend are external. They are
  modelled by what the code can observe of them, failures included.
* An authenticated cipher opens a payload only with the key material and the additional
  data it was sealed with; a guessed secret is never right.
* The owner of a `QueueShim` completes or fails only jobs it has dequeued itself. Its
  methods take `&mut self`, so one call is active at a time.
* `run_shim` never calls `set_db_type`, so in `Supervisor` it uses the Generic
  sequence; the other sequences occur in the `embedded` phase.
* Settings of `config.rs` are represented by one of each kind: with and without an environment
  variable that `from_env()` reads, numeric or not.

## 3. Runs

All bounds are CONSTANTS in the `.cfg` files.

| Run | Instance | States | What it shows |
|---|---|---|---|
| `failover` | threshold 2, failback after 3 healthy checks (10 in the code), all connectors and promoters, with and without a webhook | 34 736 | switches are earned and announced; the loop makes progress and stops; `IInv` is the invariant of the proofs |
| `circuit` | 3 callers, threshold 2, counters mod 2, every entry point with and without degradation and abandoning callers | 10 856 | one probe per episode; the abstract `Breaker` is implemented; the circuit recovers |
| `supervisor` | capabilities health, vault, migration (first and last critical), 3 starts, all shutdown sequences, pid reuse | 73 237 | nothing is left behind, capabilities stop in reverse, stops end, a death is noticed |
| `bus` | 2 publishers, 3 events, channel of 2 slots, threshold 2, six deployments | 66 850 | numbering, triggers, what the handlers answer |
| `services` | the components with liveness, see below | 39 570 | conservation, earned promotions, and that loops, jobs, probes, reloads and reconciles come to their end |
| `capabilities` | the components with safety properties, see below | 1 806 279 | what was recorded, sent, served, limited or locked stays so over crashes, restarts and retries |
| `failback` (violation) | threshold 2, failback 2 | | one bad probe of the promoted replica disables failback for good |
| `circuit_handle_request` (violation) | 2 callers of `handle_request` | | the transition to half-open takes the probe slot and refuses the request that took it |
| `exit_code` (violation) | Generic sequence only | | `exit_code` is never assigned; the shim exits 0 after a child died with an error |
| `bus_alerts_wired` (violation) | health handler and fan-in as `wire_all_handlers` starts them | | the fan-in's sender is dropped with its handle and its task ends |
| `migration_lock` (violation) | 2 shims | | two shims migrate at once: the lock file is empty between its creation and its text, and an empty file counts as stale |
| `encryption_aad` (violation) | 2 key ids, a prefix | | with `ENCRYPTION_AAD` a payload that was sealed with a known key does not open |

### The services run

Clusters, Patroni, Sentinel, replication, scheduler, hot reload, the lock of the cache,
job queue, health probes, startup probe, operator, connectors, exporter, resource monitor. Instances: 2 clusters with
threshold 2, 2 jobs for 2 workers with 1 retry, 3 tasks on a day of 12
ticks, 4 edits of a file of which one cannot be parsed and one is invalid, 3 generations of an
object with 3 failing API calls.

`ServicesInvariant` is the conjunction of `QueueTypeOK`, `ClusterTypeOK`, `OneRunnerPerJob`,
`CountersBalance`, `RunningWithinLimit`, `DeadAreExhausted`, `AnnouncedIsSeen`,
`FailedMeansExhausted`. `ServicesEnd` is `SchedulerStops`, `StopEndsWorkers`,
`StoppedLoopsEnd`, `ChecksEnd`, `WritersWaitOnlyForMetrics`. On their own: `JobsAreConserved`,
`PromotionIsEarned`, `DeadPrimaryIsReplaced`, `ReplicationHeals`, `LastEditIsLoaded`, `JobsEnd`,
`ProbesAreAnswered`, `SpecIsApplied`.

### The capabilities run

Redis bridge, migration and its multi-database form, CDC, backup, archival, sharding, Vault, encryption,
TLS, auth, audit, compliance, cost, chaos and its orchestrator, configuration and config shim, tenants, traffic
(balancing, connections, window), plugins and wasm, both alerting programs, drain, cache. Instances: 2 bridges with
3 entries, batches of 2 and a crash; 2 migrators with 3 migrations and a restart; 3 CDC events in
batches of 2 with a webhook retry and a ring of 2; 3 backups, archives and certificates; a lease of 5 against a rotation
every 3 with latency up to 2; 2 key ids for 3 materials; 3 audited entries over 2 restarts; 3 operations in flight; 3 cache keys for 2 places.

`CapabilitiesInvariant` is the conjunction of the type invariants of `Migration`, `Cdc` and `Backup` with
`AckedWasHandled`, `LedgerIsAnInterval`, `ResultsMatchTargets`, `CapturedAreAccounted`, `LoggedIsArchived`,
`HashedKeysStay`, `LockoutIsEarned`, `IdsNameOneEntry`, `ReportAddsUp`, `BudgetViewsAgree`,
`ExperimentsAreConserved`, `EnvironmentWins`, `RoundGivesWeights`, `WindowHoldsLimit`, `HandedOutValuesStay`,
`CacheAccounts`.
On their own: `RelayedAtMostOnce`, `OverlapNeedsTheft`, `ReceivedInOrder`, `LastBackupIsRestorable`,
`CredentialsAreFresh`, `PayloadsStayReadable`, `ServedPairFits`, `JoinedLinesCostTwo`, `BucketHoldsTheRate`,
`DrainedBeforeSignal`, and the action properties `WithdrawnStayOut` and `SuppressedWasTried`.

The other conjunctions: `SupervisorInvariant` is `TypeOK`, `CleanMeansGone`, `CleanMeansWithoutKill`,
`RunsWithCriticalCaps`, `OneGraceRestart`; `StopsEnd` is `StopTerminates` and `SignalEndsShim`; `LoopMakesProgress` is
`FailoverCompletes` and `StopEndsLoop`; `BusInvariant` is `TypeOK`, `NumbersHaveNoGaps`, `CountIsConsecutive`;
`HandlersAnswer` is `BackupsAreEncrypted`, `TasksStartBackups`, `AlertsAreRouted`.

### Why the bounds are enough

* A threshold of 2 is the smallest for which "counts but does not yet act" is a
  state; a failback bound of 3 makes the streak longer than the failure run, so that the
  two counters cannot be mistaken for one another.
* Three callers are one probe, one late reporter and one newcomer, the most the
  half-open logic distinguishes. Counters mod 2 wrap in every longer behaviour.
* The channel has fewer slots than there are events, so receivers lag; handlers add
  events of their own. Each deployment of the bus has the handlers and kinds of event one
  question needs: kept handlers that may be stopped, handlers that hold themselves,
  handlers nobody keeps, a filtered reader alone.
* Two jobs for two workers and a manual caller leave a job for each kind of runner and
  make them compete; one retry gives first attempt, retry and burial. The proofs lift the bound.
* Three capabilities are enough for a critical failure after, between and before
  successful starts.
* Where a limit matters the instance goes past it: one more cache key than places, one more CDC event than
  a batch or the ring holds, more audit entries than are kept in memory, more logged lines and
  pages than the plugin may have, more requests than a bucket or window admits.
* One crash or restart suffices where what it destroys is rebuilt from scratch; the audit files and
  the archives, which later lives write again, get two restarts and no bound respectively.

Deadlock is checked in the `failover`, `circuit` and `supervisor` runs. It is off for
`bus`, `services` and `capabilities`, where the budget of events, calls or days ends and every
task waits.

### Fairness

* `Failover`: weak for the loop (the interval fires and TCP connects have a timeout), strong for
  `Shutdown` (`select!` picks among ready branches at random). Webhooks, promotion commands, psql and the Sentinel
  have no timeout (`lib.rs:892`, `:967`, `:1028`, `:1061`, `:166`): `Hang` may take the place of their
  answer, and `FailoverCompletes`, `StopEndsLoop` and `FailbackHappens` promise something only when it does not. What
  a silent webhook costs is in section 5.
* `CircuitBreaker`: the clock advances, callers keep asking and report unless the
  deployment lets them vanish.
* `Supervisor`: weak for every step of the shim (sleeps and timeouts end), for
  reaping, and for the exit of a child that was sent SIGKILL. Nothing makes a child
  obey SIGTERM or die by itself.
* `EventBus`: tokio polls every task that is ready. Publishers owe nothing.
* `MCServices`: weak for every tick and step of a loop, because its timer, connection or retry delay ends. Where an await has
  no timeout (`psql` of replication, the database tools, scheduled tasks, the webhook of the multi-cluster monitor, job
  handlers) a step that hangs competes with the one that answers, and the properties excuse a loop that hangs. Also, the kube controller runs what it was triggered for.
  Strong for three: `SleepInterrupted` (`select!` picks among ready branches), `WriteLock` (the lock is fair to
  writers) and the owner's settling of the jobs it has dequeued (its calls exclude each other). Users, databases and
  the environment owe nothing.
* The `capabilities` run has safety properties only and needs none.

## 4. Proofs

TLAPS checks eight modules, for every value of the constants that their named assumptions allow.

**`FailoverProofs`**, from `FailureThreshold`, `FailbackChecks`, `MaxFailovers`
positive. `FailoverIsEarned` and `FailbackIsEarned` speak of the moment of the
switch and of the history of probes; neither is inductive. `IInv` adds what the loop keeps
up on the way: while a tick is suspended the address it read is still the current one
(`CurIsCurrent`); a positive failure counter never exceeds the run of failed
probes of the current primary (`FailuresAreObserved`); a positive healthy streak exists only
in `FailedOver` with a zero failure counter and never exceeds the run of healthy
probes of the replica (`StreakIsObserved`); and the loop enters the promotion or the
failback only at the bound (`PhaseIsJustified`). `NextIInv` has one step per action. Theorems:
`FailoverInvariant`, `FailoverTypes`, `FailoverEarned`, `FailbackEarned`,
`StateMatchesPrimary` and, as an action property, `SwitchAnnounced`.

**`CircuitBreakerProofs`**, from a positive threshold and counter size, for any callers,
keys and mix of entry points. `OneProbePerEpisode` needs `InflightIffHalfOpen`: a half-open circuit never has a
free slot, so no entry point admits a second caller (`NoSecondProbe`).
`OpensAtThreshold` needs `FailuresAreObserved`: the counter that is compared with the threshold equals
the run of failures since the last success. `IInv` joins them with the types; the
request counters are separated from the circuit (`Parts`) because only `Inc`
touches them. Theorems: `CircuitInvariant`, `CircuitTypes`, `OneProbe`,
`InflightMeansHalfOpen`, `OpeningIsEarned`, and `BreakerIsImplemented`: under the
mapping of `KeepsPromise` the initial states are the breaker's, and each method is one of
its steps or a stutter, by the same invariant.

**`SupervisorProofs`**, for any list of capabilities, any number of starts, with or without pid reuse.
`NoProcessLeftBehind` depends on what a stop sequence under way has established: `StopIsHonest` says
that it has sent SIGKILL exactly when it is past the point where it does, and that what it is about to
report is so; `ProcIInv` joins it with the types and the two facts about clean exits. `StopsInReverse`
needs `CapsInOrder`: the capabilities stopped so far are the last of those that started, backwards,
and none before the child's stop. `PhaseFits` ties the places of `run_shim` to the child's fields (a stop
sequence runs only where `run_shim` calls it), and `RestartsCounted` the grace restart to its flag.
Theorems: `NothingLeftBehind`, `ReverseOrder`, `SupervisorCorrect`.

**`EventBusProofs`**, for any set of publishers and readers disjoint from the
handlers, any set of deployments, any capacity and threshold. Uniqueness of numbers alone is not inductive: a
fresh number could collide with one already in use. `IInv` adds that every number in use was
handed out (`NumbersAreIssued`), so the number after the counter is new.
`AssignNumbers` and `SendNumbers` are the two halves of `publish`, used for
publishers and handlers alike. `GapFree` says the same of every number up to the counter: it is in the log,
was sent to nobody or is about to be sent. For the failovers, `HandlerInv` ties the cursor of the handler to what it
has read and lost, and `SinceHealthy` is the set of unhealthy events it read after the last healthy one; each
read puts one element into the sets that `TriggersAreEarned` and `CountIsConsecutive` count. Theorems:
`EventBusInvariant`, `EventBusTypes`, `UniqueNumbers`, `TriggersEarned`, `BusAddsUp` (`BusInvariant`).

**`ServiceProofs`**, for any jobs, workers, limits, retries, periods, clusters, endpoints and masters.

* Queue. A job that sits out the backoff of `fail_job` is in no list, so conservation needs that place too:
  `OnePlace(j)` says of every job that, once enqueued, it is in exactly one of pending, running, dead letters, drained,
  finished and the sleeping call; `Once` that the pending sequence names no job twice; `Runners` that a worker's job is
  running, is no other worker's and not the owner's, and that every running job is someone's. `Books` adds the counters
  and the attempts behind every job. Theorems: `NoJobIsLost`, `OneRunner`, `QueueTypes`, `CountersAddUp`, `ManualLimit`,
  `DeadWereExhausted`.
* Scheduler. What the loop holds is a task that no earlier one shadows (`LoopInv`), by arithmetic on the next due
  times: `FailedWereRetried`, and `ShadowedNeverRun`, which states a flaw of the scheduler and no promise (section 5).
* Monitors. The task's count of failed rounds is the outage itself (`ClusterIInv`): `PromotionsAreEarned`, an action
  property, and `ClusterTypes`; `MonitorsIInv` for `AnnouncementsWereSeen`.
* `ServicesAddUp` is `ServicesInvariant` in the specification of the `services` run. A step of the whole is a step of one
  component and leaves the others alone, so every behaviour is one of each (`ServicesRunEach`) and the theorems
  apply.

**`CapabilityProofs`**: one component after the other, each with an invariant of its own.

* `PairFits` (TLS), for any number of crashes, failed saves and renewals: the two files are torn or differ only while
  a save is under way or after one was cut short, and the key is then never newer than the certificate (`TlsIInv`).
* `PayloadsReadable` (encryption), for any key ids and rotations: materials are numbered as they are made, and
  a payload's key id names its material or one made later (`KeyKept`).
* `RelayOnce`, `AckedWereHandled` (Redis bridge), for any bridges, batch size and crashes: what waits in a batch is in no other
  batch and reached no bus (`BatchesAreFresh`), and neither did anything after the group's cursor
  (`UndeliveredAreFresh`); what a bridge acknowledges last it has handled (`AcksFollow`).
* `DrainWaits` (drain), for any finite set of operations: the counters are the numbers of operations started
  and completed, and the completed ones, loaded first, only grow until the total is loaded (`SeenOK`).
* `ChangesInOrder`, `CapturesAddUp`, `CdcTypes` (CDC), for any batch, ring and number of retries: pending and in-flight events
  are the last numbers captured (`FeedInv`); the receiver has nothing newer than the event being delivered, and of that
  one at most a copy per attempt (`InboxInv`).
* `FreshCredentials` (Vault), for any interval, latency and lease: between rotations neither the clock nor the next
  tick is more than an interval past the issue of what the file holds (`FileIsRecent`), which needs the request to be
  on time and the next tick near.
* `RateIsHeld` (tenants): what a bucket holds was there at its last refill (`UsageOK`).
* `WithdrawnNeverAuthenticates`, `LockoutsAreEarned` (auth): a stored credential that was withdrawn is marked or has
  expired, and an id is used once.
* `RepeatsWereSent` (both alerting programs): a key in the cache was sent to each of its webhooks since, unless the delivery is
  under way (`NotedWasTried`).
* `BackupsRestorable`, `BackupTypesHold` (backup): the file and the checksum of the backup under way are those of its own
  run (`OwnFile`), and recorded runs have ended.

**`RecordProofs`** has the results that rest on sequences and sums. What `FlattenSeq` (the filters and `retain`s of the
code) and `SumFunction` return is shown for every sequence and finite function by induction on a set: the lengths,
or cardinalities, for which it holds contain zero and with every number the next (`SetInduction`, from the
least element of a non-empty set of naturals). So no operator is passed to a library theorem.

* `JoinedLinesCost`, `IdsNameOne` (audit): the joined lines pay for whatever the daily file alone has lost (`JoinsPay`; the
  rotation files, which can lose lines too, are not needed for it), a text on an open line spoils itself and at most one
  other (`WrittenFile`), and the counter is past every id in use (`IdsAreCounted`).
* `LogIsArchived` (archival), `KeysStay` (sharding), `ValuesStay` (wasm), `NoExperimentIsLost` (chaos), `PrecedenceHolds`
  (configuration): `RecordsHold`, `ServedByHash`, `HandedOutHold`, `ExperimentsHold`, `ConfigIInv`.
* `OverlapIsTheft` (migration): as long as no lock in use was removed, the lock file of a shim that migrates is there
  and is its own (`LockIsOwn`). `LedgersAreIntervals`, `MigrationTypes`: a version whose SQL just ran is the
  next one, and a rollback has something to undo (`LedgerHolds`). `TargetsMatch`: `TargetsHold`.
* `ReportsAddUp` (compliance), `BudgetViews` (cost): `ReportHolds`, `BilledHolds`.
* `WindowsHold` (rate limiter): since any moment the window still reaches, as many timestamps are left as requests were
  admitted (`WindowKept`). `RoundsGiveWeights` (balancer): every backend has had as many turns as it has slots among
  those just passed, around the end of the list (`TurnsHold`).
* `CacheAddsUp` (cache), for each strategy: both orders list the cached keys once and the size is the sum (`CacheKept`).

**`MCCapabilitiesProofs`** puts them together in the specification of the `capabilities` run: `CapabilitiesAddUp` is
`CapabilitiesInvariant`, `CapabilitiesKeepPromises` all its other properties. Components that share a tuple of variables
(balancer, connections and window; wasm and loader) are shown to change disjoint ones (`RunsTraffic`, `RunsWasm`).

The assumptions are the named `ASSUME`s of the component modules: bounds and thresholds are naturals, positive where
the code divides by them or counts up to them, and sets that the code tells apart are disjoint. TLC evaluates them on the runs.

Every invariant and every action property of a passing run is stated by a theorem. Only model-checked: the liveness
properties (`LoopMakesProgress`, `Recovers`, `StopsEnd`, `DeathIsNoticed`, `HandlersAnswer`, `DeadPrimaryIsReplaced`,
`ReplicationHeals`, `LastEditIsLoaded`, `JobsEnd`, `ProbesAreAnswered`, `SpecIsApplied`, `ServicesEnd`), because fairness
and ENABLED are out of the prover's reach. So nothing is proved about the components that have only liveness properties:
replication, hot reload, health, operator, connectors and telemetry.

## 5. Disagreements between code and documentation

Six are shown by violation runs (see `findings` in `PROJECT.json`): failback,
`handle_request`, exit code, alert fan-in, migration lock, additional data of encryption. Others met while modelling, for
which no run is kept:

Awaits that may never end

* The failover loop awaits the webhook of a failover (`failover-shim/src/lib.rs:1061`) before it switches, the promotion
  command (`:967`, `:1028`), `psql`, and the webhook of a failback (`:892`), all without a timeout: one that never
  answers suspends the loop for good, with the primary down and the stop signal not looked at again
  (`failover-shim/README.md:3` "Automatic failover"). The multi-cluster loop does the same after a
  promotion (`:2095`).
* The check loop of replication awaits `psql` without a timeout (`replication-shim/src/lib.rs:547`), and the
  tasks of the scheduler run without the `timeout_secs` of their configuration (`scheduler-shim/README.md:3` "executes tasks
  with timeout and retry logic"; `lib.rs:62` is never read): one task that hangs stops all.

Supervisor and bus

* `graceful_shutdown` reports `clean_exit` after SIGKILL (`shutdown.rs:69` "without
  SIGKILL"). `CleanMeansWithoutKill` is about `stop()`.
* The reaper frees the child's pid while `stop()` keeps it, so a recycled pid could be
  signalled (`process.rs:151` "the race is harmless").
* SIGHUP leaves the main loop like SIGTERM (`ADR-001` "SIGHUP triggers config
  hot-reload").
* After a restart the loop polls a closed fd number, which may belong to another
  file (`process.rs:311`). `DeathIsNoticed` holds nevertheless.
* A handler that lags past a healthy event keeps its count, so the unhealthy
  events need not be consecutive on the bus (`docs/architecture.md:118`).
  `CountIsConsecutive` is about the events the handler received.
* Handlers that lag do not add to `total_dropped` (`bus.rs:30`).

Proxy, queue, configuration

* With `PROXY_GRACEFUL_DEGRADATION` a request for a cached key is answered before the clock of an
  open circuit is looked at, so steady traffic for that key keeps it open
  (`proxy-shim/README.md:19` "Seconds before half-open"). `Recovers` leaves degradation out.
* `pipe_streams` ends both directions when one does (`proxy-shim/src/lib.rs:683`); failures of `start_tcp_proxy` are
  counted and never open the circuit.
* A wall clock set back buries a fresh job in the queue (`queue-shim/src/lib.rs:316`), and the job timeout never ends a
  handler that hangs (`:337`).
* `HEALTH_TIMEOUT_SECS` and `SHUTDOWN_TIMEOUT_SECS` are documented (`docs/hotreload.md:109`, `:112`) and never read, and
  `merge()` replaces the file's value by the default (`config.rs:892`, `:906`); an unparsable
  `HEALTH_INTERVAL_SECS` does the same.
* A hot reload forgets the environment's overrides (`hotreload.rs:168`, `:266`).
* The config shim's watch loop only logs, its backup is a copy of the new file, and a failed signal is never
  tried again (`config-shim/src/lib.rs:168`–`222`).

Capabilities

* The scheduler sleeps until the earliest next time of all tasks, ties going to the first in the list, and computes the next
  times anew afterwards: a task whose every due time is also one of an earlier task's is never run, although
  it is enabled (`scheduler-shim/README.md:3`, `lib.rs:1`: tasks are executed on their schedule). `ShadowedNeverRun`
  proves it for every list of periods.
* The TLS shim's daily check never renews (`tls-shim/README.md:42`). Nor does `start()` notice what a cut-short save has left:
  a torn or misfitting pair is loaded, served and counted as valid for another 365 days (`tls-shim/src/lib.rs:219`–`254`,
  `:261`) until a caller renews. `ServedPairFits` says how the pair can be damaged, not that it is repaired.
* `log_entry` of the audit shim returns `Ok(true)` before the newline of the entry is written, and nothing looks at what
  becomes of it (`audit-shim/src/lib.rs:322`): even without a crash the next entry can land on the same line,
  and neither is then read back. The rotation files have the same gap (`:348`).
* `orchestrate_multi_db` is documented as lockstep under a distributed lock (`migration-shim/src/lib.rs:868`); no
  lock is taken, a failed target stops nothing, and a failed second connection skips a file and still
  reports success.
* The archival shim copies where it says it moves; warm records never become cold.
* `BackupVerifier` reports success although its restore test failed.
* `parse_lsn` of the CDC shim reads hexadecimal digits as decimal.
* The sharding shim never counts `queries_missed`.
* Removing a partition of the chaos shim omits the `-s` of the rule it made (`chaos-shim/src/lib.rs:357`); experiments never influence
  `evaluate`.
* `fuel_limit: None` is documented as no limit (`wasm.rs:152`) and traps at once.
* The "days" of the cost optimizer are numbers of points.
* The alerting shim records a backoff it never consults.
* The MongoDB backup is documented "with retry" and has none (`mongodb-shim/src/lib.rs:145`).
* An API key with the role Denied authenticates, a token with that role does not.
* Custom metrics are never exported; health and metrics exporter share a default port (9101).

## 6. Not modelled

* `shimctl`: a stateless client whose REST endpoints no program of the repository serves.
* `otel`, `structured_logging`, `error`, `lib`: set-up of tracing and logging, error types, re-exports.
* Tests, benchmarks, client SDKs, deployment descriptions.
* Code that nothing calls: the S3 output of archival and the Kafka and NATS outputs of CDC, the operator's
  `cleanup`.
* In modelled crates: `BusSubscriber` (lags like a handler), argument parsing and the healthcheck
  subcommand, the `metrics()` methods and text formats, the command lines of the dump and stress tools,
  queries and exports of the audit log, the CPU time tracker of tenants, the manifests' texts, the
  pass-through queries of the database shims, the RPC handlers of `management-api`, which answer from their arguments.
* Files are lost with the machine: a crash is the end of a process, and what was written before it stays.
* Random choices are not given probabilities: jitter of delays and the percentage of the chaos shim are
  a free choice.

The notes of the components in `PROJECT.json` say the same part by part.
