------------------------------ MODULE Traffic -------------------------------
(***************************************************************************)
(* proxy-shim without its circuit breaker (module CircuitBreaker): routes, *)
(* the choice of a backend by weighted round-robin, the token bucket and   *)
(* the TCP connections; and the sliding-window rate limiter of             *)
(* management-api.                                                         *)
(***************************************************************************)
EXTENDS Naturals, Sequences, SequencesExt, FiniteSets, Functions

CONSTANTS
  Backend, Weight,     \* addresses and their weights
  Burst,               \* capacity of the proxy's bucket
  Conn,                \* connections accepted by start_tcp_proxy
  WindowLimit, Window, \* MGMT_RATE_LIMIT_RPM, and its minute, in ticks
  MaxBackends, MaxTrafficTime   \* bounds

ASSUME TrafficAssumption ==
  Weight \in [Backend -> Nat] /\ {WindowLimit, Window} \subseteq Nat

VARIABLES
  backends,       \* sequence of [addr, healthy]
  rr_index,
  turns,          \* history: picks by position, since the backends last changed
  route_rules,    \* sequence of [target, healthy]; all match the path
  bucketTokens,   \* of the proxy's bucket; no limit was set when it is Burst + 1
  conns,          \* connection -> its stage
  circuit_failures,
  timestamps,     \* of the requests the window holds
  admitted,       \* history: times of all requests admitted
  trafficNow

balanceVars == <<backends, rr_index, turns, route_rules>>
connVars == <<conns, circuit_failures, bucketTokens>>
windowVars == <<timestamps, admitted, trafficNow>>
trafficVars == <<balanceVars, connVars, windowVars>>

TrafficInit ==
  /\ backends = <<>> /\ rr_index = 0 /\ turns = <<>> /\ route_rules = <<>>
  /\ bucketTokens = Burst + 1
  /\ conns = [c \in Conn |-> "new"] /\ circuit_failures = 0
  /\ timestamps = <<>> /\ admitted = <<>> /\ trafficNow = 0

-----------------------------------------------------------------------------
(* Positions of the healthy backends, in order, each as often as its weight. *)
HealthyTurns(bs) ==
  FlattenSeq([i \in DOMAIN bs |->
    IF bs[i].healthy THEN [j \in 1..Weight[bs[i].addr] |-> i] ELSE <<>>])

(* Walking the weights from rr_index modulo their sum reaches that slot. *)
select_backend(bs, rr) ==
  LET slots == HealthyTurns(bs)
  IN  [pick |-> slots[(rr % Len(slots)) + 1], next |-> (rr + 1) % Len(slots)]

NoTurns(bs) == [i \in DOMAIN bs |-> 0]

(* The same address may be registered twice. *)
RegisterBackend(addr, healthy) ==
  /\ Len(backends) < MaxBackends
  /\ backends' = Append(backends, [addr |-> addr, healthy |-> healthy])
  /\ turns' = NoTurns(backends')
  /\ UNCHANGED <<rr_index, route_rules, connVars, windowVars>>

SetBackendHealth(addr, healthy) ==
  /\ \E i \in DOMAIN backends :
       /\ backends[i].addr = addr /\ \A j \in 1..(i - 1) : backends[j].addr # addr
       /\ backends' = [backends EXCEPT ![i].healthy = healthy]
  /\ turns' = NoTurns(backends')
  /\ UNCHANGED <<rr_index, route_rules, connVars, windowVars>>

SelectBackend ==
  /\ HealthyTurns(backends) # <<>>
  /\ LET s == select_backend(backends, rr_index)
     IN  /\ rr_index' = s.next
         /\ turns' = IF SumFunction(turns) = Len(HealthyTurns(backends))
                     THEN [NoTurns(backends) EXCEPT ![s.pick] = 1]
                     ELSE [turns EXCEPT ![s.pick] = @ + 1]
  /\ UNCHANGED <<backends, route_rules, connVars, windowVars>>

AddRouteRule(target, healthy) ==
  /\ Len(route_rules) < 2
  /\ route_rules' = Append(route_rules, [target |-> target, healthy |-> healthy])
  /\ UNCHANGED <<backends, rr_index, turns, connVars, windowVars>>

(* The first healthy rule, in the order they were added. *)
route == SelectSeq(route_rules, LAMBDA r : r.healthy)

BalanceNext ==
  \/ SelectBackend
  \/ \E b \in Backend, h \in BOOLEAN :
       RegisterBackend(b, h) \/ SetBackendHealth(b, h) \/ AddRouteRule(b, h)

-----------------------------------------------------------------------------
SetRateLimit ==
  /\ bucketTokens' = Burst
  /\ UNCHANGED <<balanceVars, conns, circuit_failures, windowVars>>

(* Time has added some tokens, up to the burst, since the last check. *)
CheckRateLimit ==
  /\ bucketTokens <= Burst
  /\ \E now \in bucketTokens..Burst : bucketTokens' = IF now >= 1 THEN now - 1 ELSE now
  /\ UNCHANGED <<balanceVars, conns, circuit_failures, windowVars>>

(* The list of backends is the one of the start; the health is today's.    *)
(* A failed connect is only counted: it opens no circuit.                  *)
Accept(c) ==
  /\ conns[c] = "new"
  /\ \/ conns' = [conns EXCEPT ![c] = "no backend"] /\ UNCHANGED circuit_failures
     \/ conns' = [conns EXCEPT ![c] = "piping"] /\ UNCHANGED circuit_failures
     \/ conns' = [conns EXCEPT ![c] = "failed"] /\ circuit_failures' = circuit_failures + 1
  /\ UNCHANGED <<balanceVars, bucketTokens, windowVars>>

(* Whichever direction ends first ends the connection: an answer that is   *)
(* still on its way when the client has finished sending is cut off.       *)
PipeEnds(c) ==
  /\ conns[c] = "piping"
  /\ \E how \in {"done", "cut off"} : conns' = [conns EXCEPT ![c] = how]
  /\ UNCHANGED <<balanceVars, bucketTokens, circuit_failures, windowVars>>

ConnNext == SetRateLimit \/ CheckRateLimit \/ \E c \in Conn : Accept(c) \/ PipeEnds(c)

-----------------------------------------------------------------------------
Unexpired ==
  FlattenSeq([i \in DOMAIN timestamps |->
    IF trafficNow - timestamps[i] <= Window THEN <<timestamps[i]>> ELSE <<>>])

(* A refused request leaves no timestamp. *)
Allow ==
  /\ IF Len(Unexpired) >= WindowLimit
     THEN timestamps' = Unexpired /\ UNCHANGED admitted
     ELSE timestamps' = Append(Unexpired, trafficNow) /\ admitted' = Append(admitted, trafficNow)
  /\ UNCHANGED <<balanceVars, connVars, trafficNow>>

WindowTick ==
  /\ trafficNow < MaxTrafficTime /\ trafficNow' = trafficNow + 1
  /\ UNCHANGED <<balanceVars, connVars, timestamps, admitted>>

WindowNext == Allow \/ WindowTick

-----------------------------------------------------------------------------
(* A full round of picks gives every healthy backend exactly its weight,   *)
(* wherever rr_index stood when the backends last changed                  *)
(* (select_backend).                                                       *)
RoundGivesWeights ==
  (backends # <<>> /\ SumFunction(turns) = Len(HealthyTurns(backends))) =>
    \A i \in DOMAIN backends :
      turns[i] = IF backends[i].healthy THEN Weight[backends[i].addr] ELSE 0

(* No minute, wherever it begins, admits more than the limit               *)
(* (RateLimiter::allow).                                                   *)
WindowHoldsLimit ==
  \A i \in DOMAIN admitted :
    Cardinality({j \in DOMAIN admitted : admitted[j] \in admitted[i]..(admitted[i] + Window)})
      <= WindowLimit
=============================================================================
