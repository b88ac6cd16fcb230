SPECIFICATION FairSpec
CONSTANTS
  FailureThreshold = 2
  FailbackChecks = 3
  MaxFailovers = 2
INVARIANTS
  IInv
  FailoverIsEarned
  FailbackIsEarned
PROPERTIES
  SwitchIsAnnounced
  LoopMakesProgress
