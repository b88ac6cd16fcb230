------------------------ MODULE MCCapabilitiesProofs -------------------------
(***************************************************************************)
(* What the run of all capabilities checks, for every value of the         *)
(* constants, from the theorems about the components: whichever capability *)
(* runs, the others stand still, so that every behaviour of the whole is   *)
(* one of each of them.                                                    *)
(***************************************************************************)
EXTENDS MCCapabilities, CapabilityProofs, RecordProofs

\* A step of the whole is, for every component, one of its own or none.

LEMMA RunsEach ==
  /\ Spec => BridgeSpec
  /\ Spec => MigrationSpec
  /\ Spec => TargetSpec
  /\ Spec => CdcSpec
  /\ Spec => BackupSpec
  /\ Spec => ArchivalSpec
  /\ Spec => ShardingSpec
  /\ Spec => VaultSpec
  /\ Spec => EncryptionSpec
  /\ Spec => TlsSpec
  /\ Spec => AuthSpec
  /\ Spec => AuditSpec
  /\ Spec => ComplianceSpec
  /\ Spec => CostSpec
  /\ Spec => ChaosSpec
  /\ Spec => ConfigSpec
  /\ Spec => TenantSpec
  /\ Spec => AlertSpec
  /\ Spec => DrainSpec
  /\ Spec => CacheSpec
<1>1. Spec => BridgeSpec
  <2>1. [Next]_capabilityVars => [BridgeNext]_bridgeVars
    BY DEF Next, capabilityVars
  <2>2. Init => BridgeInit
    BY DEF Init
  <2> QED
    BY <2>1, <2>2, PTL DEF Spec, BridgeSpec
<1>2. Spec => MigrationSpec
  <2>1. [Next]_capabilityVars => [MigrationNext]_migrationVars
    BY DEF Next, capabilityVars
  <2>2. Init => MigrationInit
    BY DEF Init
  <2> QED
    BY <2>1, <2>2, PTL DEF Spec, MigrationSpec
<1>3. Spec => TargetSpec
  <2>1. [Next]_capabilityVars => [TargetNext]_targetVars
    BY DEF Next, capabilityVars
  <2>2. Init => TargetInit
    BY DEF Init
  <2> QED
    BY <2>1, <2>2, PTL DEF Spec, TargetSpec
<1>4. Spec => CdcSpec
  <2>1. [Next]_capabilityVars => [CdcNext]_cdcVars
    BY DEF Next, capabilityVars
  <2>2. Init => CdcInit
    BY DEF Init
  <2> QED
    BY <2>1, <2>2, PTL DEF Spec, CdcSpec
<1>5. Spec => BackupSpec
  <2>1. [Next]_capabilityVars => [BackupNext]_backupVars
    BY DEF Next, capabilityVars
  <2>2. Init => BackupInit
    BY DEF Init
  <2> QED
    BY <2>1, <2>2, PTL DEF Spec, BackupSpec
<1>6. Spec => ArchivalSpec
  <2>1. [Next]_capabilityVars => [ArchivalNext]_archivalVars
    BY DEF Next, capabilityVars
  <2>2. Init => ArchivalInit
    BY DEF Init
  <2> QED
    BY <2>1, <2>2, PTL DEF Spec, ArchivalSpec
<1>7. Spec => ShardingSpec
  <2>1. [Next]_capabilityVars => [ShardingNext]_shardingVars
    BY DEF Next, capabilityVars
  <2>2. Init => ShardingInit
    BY DEF Init
  <2> QED
    BY <2>1, <2>2, PTL DEF Spec, ShardingSpec
<1>8. Spec => VaultSpec
  <2>1. [Next]_capabilityVars => [VaultNext]_vaultVars
    BY DEF Next, capabilityVars
  <2>2. Init => VaultInit
    BY DEF Init
  <2> QED
    BY <2>1, <2>2, PTL DEF Spec, VaultSpec
<1>9. Spec => EncryptionSpec
  <2>1. [Next]_capabilityVars => [EncryptionNext]_encryptionVars
    BY DEF Next, capabilityVars
  <2>2. Init => EncryptionInit
    BY DEF Init
  <2> QED
    BY <2>1, <2>2, PTL DEF Spec, EncryptionSpec
<1>10. Spec => TlsSpec
  <2>1. [Next]_capabilityVars => [TlsNext]_tlsVars
    BY DEF Next, capabilityVars
  <2>2. Init => TlsInit
    BY DEF Init
  <2> QED
    BY <2>1, <2>2, PTL DEF Spec, TlsSpec
<1>11. Spec => AuthSpec
  <2>1. [Next]_capabilityVars => [AuthNext]_authVars
    BY DEF Next, capabilityVars
  <2>2. Init => AuthInit
    BY DEF Init
  <2> QED
    BY <2>1, <2>2, PTL DEF Spec, AuthSpec
<1>12. Spec => AuditSpec
  <2>1. [Next]_capabilityVars => [AuditNext]_auditVars
    BY DEF Next, capabilityVars
  <2>2. Init => AuditInit
    BY DEF Init
  <2> QED
    BY <2>1, <2>2, PTL DEF Spec, AuditSpec
<1>13. Spec => ComplianceSpec
  <2>1. [Next]_capabilityVars => [ComplianceNext]_complianceVars
    BY DEF Next, capabilityVars
  <2>2. Init => ComplianceInit
    BY DEF Init
  <2> QED
    BY <2>1, <2>2, PTL DEF Spec, ComplianceSpec
<1>14. Spec => CostSpec
  <2>1. [Next]_capabilityVars => [CostNext]_costVars
    BY DEF Next, capabilityVars
  <2>2. Init => CostInit
    BY DEF Init
  <2> QED
    BY <2>1, <2>2, PTL DEF Spec, CostSpec
<1>15. Spec => ChaosSpec
  <2>1. [Next]_capabilityVars => [ChaosShimNext \/ OrchestratorNext]_chaosVars
    BY DEF Next, capabilityVars
  <2>2. Init => ChaosInit
    BY DEF Init
  <2> QED
    BY <2>1, <2>2, PTL DEF Spec, ChaosSpec
<1>16. Spec => ConfigSpec
  <2>1. [Next]_capabilityVars => [ConfigLoadNext \/ ConfigShimNext]_configVars
    BY DEF Next, capabilityVars
  <2>2. Init => ConfigInit
    BY DEF Init
  <2> QED
    BY <2>1, <2>2, PTL DEF Spec, ConfigSpec
<1>17. Spec => TenantSpec
  <2>1. [Next]_capabilityVars => [TenantNext]_tenantVars
    BY DEF Next, capabilityVars
  <2>2. Init => TenantInit
    BY DEF Init
  <2> QED
    BY <2>1, <2>2, PTL DEF Spec, TenantSpec
<1>18. Spec => AlertSpec
  <2>1. [Next]_capabilityVars => [ManagerNext \/ AlertShimNext]_alertVars
    BY DEF Next, capabilityVars
  <2>2. Init => AlertingInit
    BY DEF Init
  <2> QED
    BY <2>1, <2>2, PTL DEF Spec, AlertSpec
<1>19. Spec => DrainSpec
  <2>1. [Next]_capabilityVars => [DrainNext]_drainVars
    BY DEF Next, capabilityVars
  <2>2. Init => DrainInit
    BY DEF Init
  <2> QED
    BY <2>1, <2>2, PTL DEF Spec, DrainSpec
<1>20. Spec => CacheSpec
  <2>1. [Next]_capabilityVars => [CacheNext]_cacheVars
    BY DEF Next, capabilityVars
  <2>2. Init => CacheInit
    BY DEF Init
  <2> QED
    BY <2>1, <2>2, PTL DEF Spec, CacheSpec
<1> QED
  BY <1>1, <1>2, <1>3, <1>4, <1>5, <1>6, <1>7, <1>8, <1>9, <1>10, <1>11, <1>12,
     <1>13, <1>14, <1>15, <1>16, <1>17, <1>18, <1>19, <1>20

\* The parts of the proxy, of the rate limiter and of the plugins change
\* disjoint variables.
LEMMA RunsTraffic == Spec => BalanceSpec /\ WindowSpec
<1>1. [Next]_capabilityVars => [BalanceNext]_balanceVars /\ [WindowNext]_windowVars
  <2>1. CASE BalanceNext
    <3>1. UNCHANGED windowVars
      BY <2>1 DEF BalanceNext, SelectBackend, RegisterBackend, SetBackendHealth, AddRouteRule
    <3> QED
      BY <2>1, <3>1
  <2>2. CASE ConnNext
    <3>1. UNCHANGED balanceVars /\ UNCHANGED windowVars
      BY <2>2 DEF ConnNext, SetRateLimit, CheckRateLimit, Accept, PipeEnds
    <3> QED
      BY <3>1
  <2>3. CASE WindowNext
    <3>1. UNCHANGED balanceVars
      BY <2>3 DEF WindowNext, Allow, WindowTick
    <3> QED
      BY <2>3, <3>1
  <2>4. CASE UNCHANGED trafficVars
    <3>1. UNCHANGED balanceVars /\ UNCHANGED windowVars
      BY <2>4 DEF trafficVars
    <3> QED
      BY <3>1
  <2>5. [Next]_capabilityVars =>
          BalanceNext \/ ConnNext \/ WindowNext \/ UNCHANGED trafficVars
    BY DEF Next, capabilityVars
  <2> QED
    BY <2>1, <2>2, <2>3, <2>4, <2>5
<1>2. Init => TrafficInit
  BY DEF Init
<1> QED
  BY <1>1, <1>2, PTL DEF Spec, BalanceSpec, WindowSpec

LEMMA RunsWasm == Spec => WasmSpec
<1>1. [Next]_capabilityVars => [WasmNext]_wasmVars
  <2>1. CASE LoaderNext
    <3>1. UNCHANGED wasmVars
      BY <2>1 DEF LoaderNext, LoadAll, PluginInitCall, PluginStart, PluginStop, CallPlugin
    <3> QED
      BY <3>1
  <2>2. CASE UNCHANGED pluginVars
    <3>1. UNCHANGED wasmVars
      BY <2>2 DEF pluginVars
    <3> QED
      BY <3>1
  <2>3. [Next]_capabilityVars => WasmNext \/ LoaderNext \/ UNCHANGED pluginVars
    BY DEF Next, capabilityVars
  <2> QED
    BY <2>1, <2>2, <2>3
<1>2. Init => PluginInit
  BY DEF Init
<1> QED
  BY <1>1, <1>2, PTL DEF Spec, WasmSpec

-----------------------------------------------------------------------------
(* For every value of the constants, and whichever capability runs: the    *)
(* records of migrations, captures, archives, audits, reports, budgets,    *)
(* experiments, turns, windows, plugins and the cache add up at every step *)
(* (the properties of these components, each at its own code).             *)
THEOREM CapabilitiesAddUp == Spec => []CapabilitiesInvariant
<1>1. Spec => /\ []MigrationTypeOK /\ []CdcTypeOK /\ []BackupTypeOK
              /\ []AckedWasHandled /\ []LedgerIsAnInterval
              /\ []ResultsMatchTargets /\ []CapturedAreAccounted
  BY RunsEach, MigrationTypes, CdcTypes, BackupTypesHold, AckedWereHandled,
     LedgersAreIntervals, TargetsMatch, CapturesAddUp
<1>2. Spec => /\ []LoggedIsArchived /\ []HashedKeysStay /\ []LockoutIsEarned
              /\ []IdsNameOneEntry /\ []ReportAddsUp /\ []BudgetViewsAgree
  BY RunsEach, LogIsArchived, KeysStay, LockoutsAreEarned, IdsNameOne, ReportsAddUp,
     BudgetViews
<1>3. Spec => /\ []ExperimentsAreConserved /\ []EnvironmentWins
              /\ []RoundGivesWeights /\ []WindowHoldsLimit
              /\ []HandedOutValuesStay /\ []CacheAccounts
  BY RunsEach, RunsTraffic, RunsWasm, NoExperimentIsLost, PrecedenceHolds,
     RoundsGiveWeights, WindowsHold, ValuesStay, CacheAddsUp
<1> QED
  BY <1>1, <1>2, <1>3, PTL DEF CapabilitiesInvariant

(* The promises across crashes, takeovers, restarts and time, in the same  *)
(* specification: relayed once, locks overlapping only by theft, changes   *)
(* in order, restorable backups, fresh credentials, readable payloads,     *)
(* fitting pairs, one entry per torn write, the rate of a tenant, drained  *)
(* connections, and what is withdrawn or dropped as a repeat.              *)
THEOREM CapabilitiesKeepPromises ==
  Spec => /\ [](/\ RelayedAtMostOnce /\ OverlapNeedsTheft /\ ReceivedInOrder
                /\ LastBackupIsRestorable /\ CredentialsAreFresh
                /\ PayloadsStayReadable /\ ServedPairFits /\ JoinedLinesCostTwo
                /\ BucketHoldsTheRate /\ DrainedBeforeSignal)
          /\ WithdrawnStayOut
          /\ SuppressedWasTried
<1>1. Spec => /\ []RelayedAtMostOnce /\ []OverlapNeedsTheft /\ []ReceivedInOrder
              /\ []LastBackupIsRestorable /\ []CredentialsAreFresh
  BY RunsEach, RelayOnce, OverlapIsTheft, ChangesInOrder, BackupsRestorable, FreshCredentials
<1>2. Spec => /\ []PayloadsStayReadable /\ []ServedPairFits /\ []JoinedLinesCostTwo
              /\ []BucketHoldsTheRate /\ []DrainedBeforeSignal
  BY RunsEach, PayloadsReadable, PairFits, JoinedLinesCost, RateIsHeld, DrainWaits
<1>3. Spec => WithdrawnStayOut /\ SuppressedWasTried
  BY RunsEach, WithdrawnNeverAuthenticates, RepeatsWereSent
<1> QED
  BY <1>1, <1>2, <1>3, PTL
=============================================================================
