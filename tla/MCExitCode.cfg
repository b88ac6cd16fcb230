SPECIFICATION Spec
CONSTANTS
  DbTypes = {"Generic"}
  Entries = {"stop"}
  MaxStarts = 3
  MayRecycle = FALSE
  Caps <- ThreeCaps
  Critical = {"health", "migration"}
INVARIANT
  ExitCodePropagates
