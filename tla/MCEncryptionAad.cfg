SPECIFICATION Spec
CONSTANTS
  Bridge = {b1, b2}
  MaxEntries = 3
  BatchSize = 2
  MaxCrashes = 1
  Migrator = {m1, m2}
  NoOne = NoOne
  MigrationFiles <- ThreeMigrations
  MaxRestarts = 1
  TargetDbs = 2
  CdcKey = {k1, k2}
  WalPosition = {9, 11, 16}
  BatchMax = 2
  WebhookRetries = 1
  RingCapacity = 2
  MaxEvents = 3
  Every = 4
  RetryAttempts = 1
  Retention = 3
  MaxBackups = 3
  MaxNow = 6
  Table = {"ruled", "plain"}
  RuleTier <- TierOf
  RuleDays <- DaysOf
  Lifecycles <- TwoLifecycles
  MaxArchives = 3
  MaxDay = 3
  Shard = {"s", "t"}
  ShardKey = {"k", "l"}
  KeyHash <- HashOf
  PointHash <- PointOf
  KeyValue <- ValueOf
  RangeBound = {0, 1, 2}
  Rotation = 3
  Lease = 5
  Latency = 2
  MaxTime = 9
  KeyId = {"a", "b"}
  Prefix = "p"
  MaxMaterial = 3
  Validity = 3
  RenewBefore = 1
  MaxCerts = 3
  MaxDays = 4
  User = {"u"}
  TokenId = {"t1"}
  ApiKeyId = {"k1"}
  MaxFailedLogins = 2
  LockoutSecs = 1
  TokenExpiry = 1
  MaxAuthTime = 2
  MaxAuthRestarts = 1
  MaxAuditEntries = 1
  MaxAudited = 3
  MaxAuditRestarts = 2
  DbType = "mariadb"
  MinSeverity = 5
  MaxRounds = 2
  Tenant = {"t", "u"}
  Resource = {"r"}
  BudgetLimit = 2
  AlertPercent = 80
  CpuPoint = {0, 5, 90}
  Underutilized = 10
  Overutilized = 80
  AnalysisWindow = 1
  MaxSpent = 2
  MaxPoints = 2
  Target = {"x"}
  Anywhere = "anywhere"
  Duration = 1
  MaxExperiments = 2
  MaxChaosTime = 2
  Setting = {"interval", "timeout"}
  Numeric = {"interval", "timeout"}
  Unread = {"timeout"}
  TenantId = {"t", "u"}
  MaxConfigEdits = 4
  TenantName = {"t"}
  Unregistered = "u"
  MaxRps = 2
  ResetPeriod = 2
  MaxTenantAudit = 1
  MaxTenantTime = 5
  Backend = {"x", "y"}
  Weight <- WeightOf
  Burst = 2
  Conn = {"c", "d"}
  WindowLimit = 2
  Window = 2
  MaxBackends = 3
  MaxTrafficTime = 7
  MaxPages = 4
  FirstPages = 1
  ConfigKey = {"k", "l"}
  MaxLogged = 2
  Library = {"x", "y"}
  Broken = {"y"}
  MaxScans = 2
  AlertSource = {"s"}
  Hook = {"p", "q"}
  Accepts <- MinSeverities
  GlobalMin = 1
  DedupWindow = 2
  HookRetries = 1
  MaxAlerts = 3
  MaxAlertTime = 4
  Operation = {"o1", "o2", "o3"}
  DrainTimeout = 2
  Key = {"k", "l", "m"}
  MaxSize = 3
  MaxCached = 2
  MaxCount = 1
INVARIANT KnownKeysDecrypt
CHECK_DEADLOCK FALSE
