SPECIFICATION FairSpec
CONSTANTS
  Publisher = {p1, p2}
  Capacity = 8
  Threshold = 2
  MaxEvents = 2
  Setups <- WiredOnly
  Readers = {}
PROPERTIES
  AlertsReachShim
CHECK_DEADLOCK FALSE
