---------------------------- MODULE MCCapabilities ----------------------------
(***************************************************************************)
(* The capabilities that keep state of their own, in memory, in files or   *)
(* in a bucket, and share none with each other.  unit says which one runs; *)
(* each is explored from its own initial state.                            *)
(***************************************************************************)
EXTENDS RedisBridge, Migration, Cdc, Backup, Archival, Sharding, Vault, Encryption,
  Tls, Auth, Audit, Compliance, Cost, Chaos, ConfigLoading, Tenants, Traffic,
  Plugins, Alerting, Drain, Cache

ThreeMigrations == <<1, 2, 3>>
TierOf == [t \in {"ruled", "plain"} |-> IF t = "ruled" THEN "Hot" ELSE "Cold"]
DaysOf == [t \in {"ruled", "plain"} |-> IF t = "ruled" THEN 1 ELSE 2]
TwoLifecycles == {[hot |-> 2, warm |-> 1, lifecycle |-> 0], [hot |-> 0, warm |-> 0, lifecycle |-> 2]}
HashOf == [k \in {"k", "l"} |-> IF k = "k" THEN 3 ELSE 9]
PointOf == [p \in {"s", "t"} \X {0, 1} |->
              CASE p = <<"s", 0>> -> 1 [] p = <<"s", 1>> -> 6 [] p = <<"t", 0>> -> 4 [] OTHER -> 8]
ValueOf == [k \in {"k", "l"} |-> IF k = "k" THEN 0 ELSE 1]
WeightOf == [b \in {"x", "y"} |-> IF b = "x" THEN 2 ELSE 1]
MinSeverities == [w \in {"p", "q"} |-> IF w = "p" THEN 1 ELSE 3]

Units == {"redis_bridge", "migration", "multi_db", "cdc", "backup", "archival",
  "sharding", "vault", "encryption", "tls", "auth", "audit", "compliance", "cost",
  "chaos", "orchestrator", "config", "config_shim", "tenants", "balancer",
  "connections", "rate_limiter", "wasm", "plugin_loader", "alert_manager",
  "alerting_shim", "drain", "cache"}

VARIABLE unit
capabilityVars == <<unit, bridgeVars, migrationVars, targetVars, cdcVars,
  backupVars, archivalVars, shardingVars, vaultVars, encryptionVars, tlsVars,
  authVars, auditVars, complianceVars, costVars, chaosVars, configVars, tenantVars,
  trafficVars, pluginVars, alertVars, drainVars,
  cacheVars>>

Init ==
  /\ unit \in Units
  /\ BridgeInit
  /\ MigrationInit
  /\ TargetInit
  /\ CdcInit
  /\ BackupInit
  /\ ArchivalInit
  /\ ShardingInit
  /\ VaultInit
  /\ EncryptionInit
  /\ TlsInit
  /\ AuthInit
  /\ AuditInit
  /\ ComplianceInit
  /\ CostInit
  /\ ChaosInit
  /\ ConfigInit
  /\ TenantInit
  /\ TrafficInit
  /\ PluginInit
  /\ AlertingInit
  /\ DrainInit
  /\ CacheInit
  \* The choices of a component that does not run are fixed.
  /\ unit # "cdc" => cdcSetup = CHOOSE s \in [feed: CdcFeeds, output: CdcOutputs] : TRUE
  /\ unit # "backup" => /\ backupSetup = [storage |-> "local", remove |-> TRUE, db_type |-> "sql"]
  /\ unit # "archival" => lifecycle = CHOOSE l \in Lifecycles : TRUE
  /\ unit # "sharding" => routing = "hash"
  /\ unit # "encryption" => aad_prefix = <<>> /\ active_key_id = CHOOSE id \in KeyId : TRUE
  /\ unit # "chaos" => chaosTarget = "all"
  /\ unit # "cache" => strategy = "lru"

Next ==
  \/ unit = "redis_bridge" /\ BridgeNext /\ UNCHANGED <<unit, migrationVars,
       targetVars, cdcVars, backupVars, archivalVars, shardingVars, vaultVars,
       encryptionVars, tlsVars, authVars, auditVars, complianceVars, costVars,
       chaosVars, configVars, tenantVars, trafficVars, pluginVars, alertVars,
       drainVars, cacheVars>>
  \/ unit = "migration" /\ MigrationNext /\ UNCHANGED <<unit, bridgeVars,
       targetVars, cdcVars, backupVars, archivalVars, shardingVars, vaultVars,
       encryptionVars, tlsVars, authVars, auditVars, complianceVars, costVars,
       chaosVars, configVars, tenantVars, trafficVars, pluginVars, alertVars,
       drainVars, cacheVars>>
  \/ unit = "multi_db" /\ TargetNext /\ UNCHANGED <<unit, bridgeVars, migrationVars,
       cdcVars, backupVars, archivalVars, shardingVars, vaultVars, encryptionVars,
       tlsVars, authVars, auditVars, complianceVars, costVars, chaosVars,
       configVars, tenantVars, trafficVars, pluginVars, alertVars, drainVars, cacheVars>>
  \/ unit = "cdc" /\ CdcNext /\ UNCHANGED <<unit, bridgeVars, migrationVars,
       targetVars, backupVars, archivalVars, shardingVars, vaultVars,
       encryptionVars, tlsVars, authVars, auditVars, complianceVars, costVars,
       chaosVars, configVars, tenantVars, trafficVars, pluginVars, alertVars,
       drainVars, cacheVars>>
  \/ unit = "backup" /\ BackupNext /\ UNCHANGED <<unit, bridgeVars, migrationVars,
       targetVars, cdcVars, archivalVars, shardingVars, vaultVars, encryptionVars,
       tlsVars, authVars, auditVars, complianceVars, costVars, chaosVars,
       configVars, tenantVars, trafficVars, pluginVars, alertVars, drainVars, cacheVars>>
  \/ unit = "archival" /\ ArchivalNext /\ UNCHANGED <<unit, bridgeVars,
       migrationVars, targetVars, cdcVars, backupVars, shardingVars, vaultVars,
       encryptionVars, tlsVars, authVars, auditVars, complianceVars, costVars,
       chaosVars, configVars, tenantVars, trafficVars, pluginVars, alertVars,
       drainVars, cacheVars>>
  \/ unit = "sharding" /\ ShardingNext /\ UNCHANGED <<unit, bridgeVars,
       migrationVars, targetVars, cdcVars, backupVars, archivalVars, vaultVars,
       encryptionVars, tlsVars, authVars, auditVars, complianceVars, costVars,
       chaosVars, configVars, tenantVars, trafficVars, pluginVars, alertVars,
       drainVars, cacheVars>>
  \/ unit = "vault" /\ VaultNext /\ UNCHANGED <<unit, bridgeVars, migrationVars,
       targetVars, cdcVars, backupVars, archivalVars, shardingVars, encryptionVars,
       tlsVars, authVars, auditVars, complianceVars, costVars, chaosVars,
       configVars, tenantVars, trafficVars, pluginVars, alertVars, drainVars, cacheVars>>
  \/ unit = "encryption" /\ EncryptionNext /\ UNCHANGED <<unit, bridgeVars,
       migrationVars, targetVars, cdcVars, backupVars, archivalVars, shardingVars,
       vaultVars, tlsVars, authVars, auditVars, complianceVars, costVars, chaosVars,
       configVars, tenantVars, trafficVars, pluginVars, alertVars, drainVars, cacheVars>>
  \/ unit = "tls" /\ TlsNext /\ UNCHANGED <<unit, bridgeVars, migrationVars,
       targetVars, cdcVars, backupVars, archivalVars, shardingVars, vaultVars,
       encryptionVars, authVars, auditVars, complianceVars, costVars, chaosVars,
       configVars, tenantVars, trafficVars, pluginVars, alertVars, drainVars, cacheVars>>
  \/ unit = "auth" /\ AuthNext /\ UNCHANGED <<unit, bridgeVars, migrationVars,
       targetVars, cdcVars, backupVars, archivalVars, shardingVars, vaultVars,
       encryptionVars, tlsVars, auditVars, complianceVars, costVars, chaosVars,
       configVars, tenantVars, trafficVars, pluginVars, alertVars, drainVars, cacheVars>>
  \/ unit = "audit" /\ AuditNext /\ UNCHANGED <<unit, bridgeVars, migrationVars,
       targetVars, cdcVars, backupVars, archivalVars, shardingVars, vaultVars,
       encryptionVars, tlsVars, authVars, complianceVars, costVars, chaosVars,
       configVars, tenantVars, trafficVars, pluginVars, alertVars, drainVars, cacheVars>>
  \/ unit = "compliance" /\ ComplianceNext /\ UNCHANGED <<unit, bridgeVars,
       migrationVars, targetVars, cdcVars, backupVars, archivalVars, shardingVars,
       vaultVars, encryptionVars, tlsVars, authVars, auditVars, costVars, chaosVars,
       configVars, tenantVars, trafficVars, pluginVars, alertVars, drainVars, cacheVars>>
  \/ unit = "cost" /\ CostNext /\ UNCHANGED <<unit, bridgeVars, migrationVars,
       targetVars, cdcVars, backupVars, archivalVars, shardingVars, vaultVars,
       encryptionVars, tlsVars, authVars, auditVars, complianceVars, chaosVars,
       configVars, tenantVars, trafficVars, pluginVars, alertVars, drainVars, cacheVars>>
  \/ unit = "chaos" /\ ChaosShimNext /\ UNCHANGED <<unit, bridgeVars, migrationVars,
       targetVars, cdcVars, backupVars, archivalVars, shardingVars, vaultVars,
       encryptionVars, tlsVars, authVars, auditVars, complianceVars, costVars,
       configVars, tenantVars, trafficVars, pluginVars, alertVars, drainVars, cacheVars>>
  \/ unit = "orchestrator" /\ OrchestratorNext /\ UNCHANGED <<unit, bridgeVars,
       migrationVars, targetVars, cdcVars, backupVars, archivalVars, shardingVars,
       vaultVars, encryptionVars, tlsVars, authVars, auditVars, complianceVars,
       costVars, configVars, tenantVars, trafficVars, pluginVars, alertVars,
       drainVars, cacheVars>>
  \/ unit = "config" /\ ConfigLoadNext /\ UNCHANGED <<unit, bridgeVars,
       migrationVars, targetVars, cdcVars, backupVars, archivalVars, shardingVars,
       vaultVars, encryptionVars, tlsVars, authVars, auditVars, complianceVars,
       costVars, chaosVars, tenantVars, trafficVars, pluginVars, alertVars,
       drainVars, cacheVars>>
  \/ unit = "config_shim" /\ ConfigShimNext /\ UNCHANGED <<unit, bridgeVars,
       migrationVars, targetVars, cdcVars, backupVars, archivalVars, shardingVars,
       vaultVars, encryptionVars, tlsVars, authVars, auditVars, complianceVars,
       costVars, chaosVars, tenantVars, trafficVars, pluginVars, alertVars,
       drainVars, cacheVars>>
  \/ unit = "tenants" /\ TenantNext /\ UNCHANGED <<unit, bridgeVars, migrationVars,
       targetVars, cdcVars, backupVars, archivalVars, shardingVars, vaultVars,
       encryptionVars, tlsVars, authVars, auditVars, complianceVars, costVars,
       chaosVars, configVars, trafficVars, pluginVars, alertVars, drainVars, cacheVars>>
  \/ unit = "balancer" /\ BalanceNext /\ UNCHANGED <<unit, bridgeVars,
       migrationVars, targetVars, cdcVars, backupVars, archivalVars, shardingVars,
       vaultVars, encryptionVars, tlsVars, authVars, auditVars, complianceVars,
       costVars, chaosVars, configVars, tenantVars, pluginVars, alertVars,
       drainVars, cacheVars>>
  \/ unit = "connections" /\ ConnNext /\ UNCHANGED <<unit, bridgeVars,
       migrationVars, targetVars, cdcVars, backupVars, archivalVars, shardingVars,
       vaultVars, encryptionVars, tlsVars, authVars, auditVars, complianceVars,
       costVars, chaosVars, configVars, tenantVars, pluginVars, alertVars,
       drainVars, cacheVars>>
  \/ unit = "rate_limiter" /\ WindowNext /\ UNCHANGED <<unit, bridgeVars,
       migrationVars, targetVars, cdcVars, backupVars, archivalVars, shardingVars,
       vaultVars, encryptionVars, tlsVars, authVars, auditVars, complianceVars,
       costVars, chaosVars, configVars, tenantVars, pluginVars, alertVars,
       drainVars, cacheVars>>
  \/ unit = "wasm" /\ WasmNext /\ UNCHANGED <<unit, bridgeVars, migrationVars,
       targetVars, cdcVars, backupVars, archivalVars, shardingVars, vaultVars,
       encryptionVars, tlsVars, authVars, auditVars, complianceVars, costVars,
       chaosVars, configVars, tenantVars, trafficVars, alertVars, drainVars, cacheVars>>
  \/ unit = "plugin_loader" /\ LoaderNext /\ UNCHANGED <<unit, bridgeVars,
       migrationVars, targetVars, cdcVars, backupVars, archivalVars, shardingVars,
       vaultVars, encryptionVars, tlsVars, authVars, auditVars, complianceVars,
       costVars, chaosVars, configVars, tenantVars, trafficVars, alertVars,
       drainVars, cacheVars>>
  \/ unit = "alert_manager" /\ ManagerNext /\ UNCHANGED <<unit, bridgeVars,
       migrationVars, targetVars, cdcVars, backupVars, archivalVars, shardingVars,
       vaultVars, encryptionVars, tlsVars, authVars, auditVars, complianceVars,
       costVars, chaosVars, configVars, tenantVars, trafficVars, pluginVars,
       drainVars, cacheVars>>
  \/ unit = "alerting_shim" /\ AlertShimNext /\ UNCHANGED <<unit, bridgeVars,
       migrationVars, targetVars, cdcVars, backupVars, archivalVars, shardingVars,
       vaultVars, encryptionVars, tlsVars, authVars, auditVars, complianceVars,
       costVars, chaosVars, configVars, tenantVars, trafficVars, pluginVars,
       drainVars, cacheVars>>
  \/ unit = "drain" /\ DrainNext /\ UNCHANGED <<unit, bridgeVars, migrationVars,
       targetVars, cdcVars, backupVars, archivalVars, shardingVars, vaultVars,
       encryptionVars, tlsVars, authVars, auditVars, complianceVars, costVars,
       chaosVars, configVars, tenantVars, trafficVars, pluginVars, alertVars,
       cacheVars>>
  \/ unit = "cache" /\ CacheNext /\ UNCHANGED <<unit, bridgeVars, migrationVars,
       targetVars, cdcVars, backupVars, archivalVars, shardingVars, vaultVars,
       encryptionVars, tlsVars, authVars, auditVars, complianceVars, costVars,
       chaosVars, configVars, tenantVars, trafficVars, pluginVars, alertVars,
       drainVars>>

Spec == Init /\ [][Next]_capabilityVars

-----------------------------------------------------------------------------
(* What the other capabilities add up to at every step: pending entries of  *)
(* the bridge, the records of a migrator, captured events, archived files,  *)
(* hashed keys, lockouts, ids of audit entries, compliance reports, budgets,*)
(* experiments, the precedence of the environment, shares of the balancer,  *)
(* the window of the rate limiter, the values handed to plugins and the     *)
(* sizes and orders of the cache.                                           *)
CapabilitiesInvariant ==
  /\ MigrationTypeOK /\ CdcTypeOK /\ BackupTypeOK
  /\ AckedWasHandled
  /\ LedgerIsAnInterval
  /\ ResultsMatchTargets
  /\ CapturedAreAccounted
  /\ LoggedIsArchived
  /\ HashedKeysStay
  /\ LockoutIsEarned
  /\ IdsNameOneEntry
  /\ ReportAddsUp
  /\ BudgetViewsAgree
  /\ ExperimentsAreConserved
  /\ EnvironmentWins
  /\ RoundGivesWeights
  /\ WindowHoldsLimit
  /\ HandedOutValuesStay
  /\ CacheAccounts

=============================================================================
