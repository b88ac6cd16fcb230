SPECIFICATION FairSpec
CONSTANTS
  Publisher = {p1, p2}
  Capacity = 2
  Threshold = 2
  MaxEvents = 3
  Setups <- AllSetups
  Readers = {r1}
INVARIANTS
  BusInvariant
  NumbersAreUnique
  TriggersAreEarned
PROPERTIES
  HandlersAnswer
CHECK_DEADLOCK FALSE
