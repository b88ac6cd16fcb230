SPECIFICATION Spec
CONSTANTS
  Cluster = {"a", "b"}
  FirstPrimary = "a"
  Endpoints <- TwoClusters
  ClusterThreshold = 2
  MaxPromotions = 1
  Master = {"m", "n"}
  Replica = {r1, r2}
  PrimaryDb = p
  MaxCalls = 2
  Period <- ThreeTasks
  Day = 12
  TaskRetries = 1
  MaxEdits = 4
  Unparsable = {2}
  Invalid = {3}
  Scraper = {s}
  Caller = {c1, c2}
  Job = {j1, j2}
  Worker = {w1, w2}
  MaxWorkers = 2
  MaxRetries = 1
  MayHang = TRUE
  ClockMayStep = TRUE
  None = None
  HealthCap = {"x"}
  StartupRetries = 2
  MaxFailures = 1
  MaxGenerations = 3
  MaxApiErrors = 3
  ConnRetries = 2
  ClusterSize = 2
  MaxCheckCalls = 2
  Marker = {"x", "y"}
  MaxLoops = 2
  MaxCountedEvents = 1
INVARIANTS
  ServicesInvariant
  JobsAreConserved
PROPERTIES
  PromotionIsEarned
  DeadPrimaryIsReplaced
  ReplicationHeals
  LastEditIsLoaded
  JobsEnd
  ProbesAreAnswered
  SpecIsApplied
  ServicesEnd
CHECK_DEADLOCK FALSE
