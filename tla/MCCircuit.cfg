SPECIFICATION FairSpec
CONSTANTS
  Caller = {c1, c2, c3}
  Key = {k1}
  Apis = {"check_circuit", "handle_request", "degradation"}
  Degradation = {TRUE, FALSE}
  Abandonment = {TRUE, FALSE}
  CircuitThreshold = 2
  CounterSize = 2
INVARIANTS
  OneProbePerEpisode
PROPERTIES
  KeepsPromise
  Recovers
