SPECIFICATION FairSpec
CONSTANTS
  FailureThreshold = 2
  FailbackChecks = 2
  MaxFailovers = 1
PROPERTIES
  FailbackHappens
