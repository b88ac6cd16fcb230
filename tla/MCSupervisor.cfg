SPECIFICATION FairSpec
CONSTANTS
  DbTypes = {"Postgres", "Redis", "Generic"}
  Entries = {"stop", "graceful_shutdown"}
  MaxStarts = 3
  MayRecycle = TRUE
  Caps <- ThreeCaps
  Critical = {"health", "migration"}
INVARIANTS
  SupervisorInvariant
  NoProcessLeftBehind
  StopsInReverse
PROPERTIES
  StopsEnd
  DeathIsNoticed
