SPECIFICATION FairSpec
CONSTANTS
  Caller = {c1, c2}
  Key = {k1}
  Apis = {"handle_request"}
  Degradation = {FALSE}
  Abandonment = {FALSE}
  CircuitThreshold = 2
  CounterSize = 2
PROPERTIES
  HandleRequestRecovers
