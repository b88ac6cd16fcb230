--------------------------- MODULE ClusterFailover ---------------------------
(* failover-shim: the stand-alone monitors.  MultiClusterMonitor checks the *)
(* endpoints of every cluster and promotes a healthy cluster when the       *)
(* primary one has failed, once in the methods a caller drives and once in  *)
(* the task start_loop() spawns, which keeps a primary of its own.          *)
(* PatroniMonitor and RedisSentinelMonitor announce changes of role and of  *)
(* master.                                                                  *)
EXTENDS Naturals, FiniteSets

CONSTANTS
  Cluster,            \* cluster names
  Endpoints,          \* [Cluster -> number of endpoints]; parse_clusters gives >= 1
  FirstPrimary,       \* FAILOVER_PRIMARY
  ClusterThreshold,   \* failure_threshold
  MaxPromotions,      \* bound on promotions_total
  Master              \* addresses the sentinel may name

ASSUME ClusterAssumption ==
  /\ FirstPrimary \in Cluster
  /\ Endpoints \in [Cluster -> Nat \ {0}]
  /\ ClusterThreshold \in Nat \ {0}

VARIABLES
  reach,          \* endpoints of each cluster that accept a connection now
  outage,         \* history: consecutive rounds of the loop that reached none
  monitor,        \* the methods' state: status, failures, primary, promotions
  loop            \* the task's state: running, asked to stop, status, failures, primary
clusterVars == <<reach, outage, monitor, loop>>

ClusterStatus == {"Healthy", "Degraded", "Failed", "Unknown"}
AllUnknown == [c \in Cluster |-> "Unknown"]
NoFailures == [c \in Cluster |-> 0]

ClusterTypeOK ==
  /\ reach \in [Cluster -> Nat] /\ \A c \in Cluster : reach[c] <= Endpoints[c]
  /\ outage \in [Cluster -> 0..ClusterThreshold]
  /\ monitor.status \in [Cluster -> ClusterStatus] /\ monitor.primary \in Cluster
  /\ loop.status \in [Cluster -> ClusterStatus] /\ loop.primary \in Cluster

ClusterInit ==
  /\ reach = Endpoints
  /\ outage = NoFailures
  /\ monitor = [status |-> AllUnknown, failures |-> NoFailures,
                primary |-> FirstPrimary, promotions |-> 0]
  /\ loop = [run |-> "off", status |-> AllUnknown, failures |-> NoFailures,
             primary |-> FirstPrimary]

EndpointsChange ==
  /\ \E c \in Cluster, n \in 0..2 :
       n <= Endpoints[c] /\ n # reach[c] /\ reach' = [reach EXCEPT ![c] = n]
  /\ UNCHANGED <<outage, monitor, loop>>

\* Counters saturate at the threshold, past which their value is not told apart.
CountUp(n) == IF n < ClusterThreshold THEN n + 1 ELSE n
FailuresKept(failures) ==
  [c \in Cluster |-> IF reach[c] = Endpoints[c] THEN 0
                     ELSE IF reach[c] > 0 THEN failures[c] ELSE CountUp(failures[c])]
FailuresNext(failures) ==
  [c \in Cluster |-> IF reach[c] > 0 THEN 0 ELSE CountUp(failures[c])]
StatusNext(failures) ==
  [c \in Cluster |->
     CASE reach[c] = Endpoints[c]                                -> "Healthy"
       [] reach[c] > 0 /\ reach[c] < Endpoints[c]                -> "Degraded"
       [] reach[c] = 0 /\ FailuresNext(failures)[c] >= ClusterThreshold -> "Failed"
       [] reach[c] = 0 /\ FailuresNext(failures)[c] < ClusterThreshold  -> "Degraded"]
SecondariesOnly(status, primary) ==
  {c \in Cluster \ {primary, FirstPrimary} : status[c] = "Healthy"}
Candidates(status, primary) == {c \in Cluster \ {primary} : status[c] = "Healthy"}
----------------------------------------------------------------------------
(* The methods of MultiClusterMonitor                                      *)

CheckAllClusters ==
  /\ monitor' = [monitor EXCEPT !.status = StatusNext(monitor.failures),
                                !.failures = FailuresNext(monitor.failures)]
  /\ UNCHANGED <<reach, outage, loop>>

\* Sequential takes the map's first candidate, in no fixed order; the other
\* strategies weigh latencies.  Any candidate may be the one.
PromoteSecondary ==
  /\ monitor.promotions < MaxPromotions
  /\ \E target \in Candidates(monitor.status, monitor.primary) :
       monitor' = [monitor EXCEPT !.primary = target, !.promotions = @ + 1]
  /\ UNCHANGED <<reach, outage, loop>>
----------------------------------------------------------------------------
(* The task of start_loop()                                                *)

StartLoop ==
  /\ loop.run = "off"
  /\ loop' = [run |-> "on", status |-> AllUnknown, failures |-> NoFailures,
              primary |-> monitor.primary]
  /\ outage' = NoFailures
  /\ UNCHANGED <<reach, monitor>>

\* One tick checks every cluster and, if the primary has failed and there is
\* a candidate, promotes.  The tick is finished before a stop is looked at:
\* the webhook of a promotion has no timeout, and a silent one ends the loop.
LoopTick ==
  LET status == StatusNext(loop.failures)
      candidates == Candidates(status, loop.primary)
  IN
  /\ loop.run \in {"on", "stopping"}
  /\ outage' = [c \in Cluster |-> IF reach[c] = 0 THEN CountUp(outage[c]) ELSE 0]
  /\ \E next \in IF status[loop.primary] = "Failed" /\ candidates # {}
                 THEN candidates ELSE {loop.primary} :
       \E run \in IF next # loop.primary THEN {loop.run, "hung"} ELSE {loop.run} :
         loop' = [run |-> run, status |-> status,
                  failures |-> FailuresNext(loop.failures), primary |-> next]
  /\ UNCHANGED <<reach, monitor>>

LoopStop ==
  /\ loop.run = "on" /\ loop' = [loop EXCEPT !.run = "stopping"]
  /\ UNCHANGED <<reach, outage, monitor>>
LoopEnds ==
  /\ loop.run = "stopping" /\ loop' = [loop EXCEPT !.run = "ended"]
  /\ UNCHANGED <<reach, outage, monitor>>

ClusterNext ==
  \/ EndpointsChange \/ CheckAllClusters \/ PromoteSecondary
  \/ StartLoop \/ LoopTick \/ LoopStop \/ LoopEnds

(* The loop leaves a primary only after ClusterThreshold consecutive        *)
(* rounds in which none of its endpoints answered, and goes to a cluster    *)
(* all of whose endpoints answered in this round.                           *)
PromotionIsEarned ==
  [][(loop.run # "off" /\ loop'.primary # loop.primary) =>
       /\ outage'[loop.primary] = ClusterThreshold
       /\ reach[loop'.primary] = Endpoints[loop'.primary]]_clusterVars

(* While the loop runs, that is until it is stopped or the webhook of a     *)
(* promotion hangs: a primary that stays down is replaced, if some other    *)
(* cluster stays reachable.                                                 *)
DeadPrimaryIsReplaced ==
  \A c, d \in Cluster :
    (<>[](c # d /\ loop.run = "on" /\ reach[c] = 0 /\ reach[d] = Endpoints[d]))
      => <>[](loop.primary # c)
----------------------------------------------------------------------------
(* PatroniMonitor: recovery is last_recovery_state, said the last role that *)
(* an event announced; RedisSentinelMonitor: the same for the master.       *)

VARIABLES patroni, sentinel
patroniVars == <<patroni>>
sentinelVars == <<sentinel>>

MonitorsInit ==
  /\ patroni = [run |-> FALSE, recovery |-> "none", said |-> "none", lagWarned |-> FALSE]
  /\ sentinel = [run |-> FALSE, master |-> "none", said |-> "none"]

\* What a check that gets an answer may find: the role, and the lag of the
\* replica past its threshold; the address of the master.
patroni_check == [role : {"primary", "replica"}, lagging : BOOLEAN]
redis_sentinel_check == Master

PatroniStart ==
  /\ ~patroni.run
  /\ patroni' = [run |-> TRUE, recovery |-> "none", said |-> "none", lagWarned |-> FALSE]
\* A check that answers: a role other than the last one seen is announced,
\* and a lag past the threshold is warned about on every check.
PatroniHealthy ==
  /\ patroni.run
  /\ \E found \in patroni_check :
       patroni' = [patroni EXCEPT
         !.said = IF patroni.recovery \notin {"none", found.role} THEN found.role ELSE @,
         !.recovery = found.role, !.lagWarned = found.lagging]
\* An unreachable node is announced as failed over to nobody known; the last
\* role seen is kept.
PatroniUnreachable ==
  /\ patroni.run
  /\ patroni' = [patroni EXCEPT !.said = "unknown", !.lagWarned = FALSE]
PatroniStop == patroni.run /\ patroni' = [patroni EXCEPT !.run = FALSE]
PatroniNext == PatroniStart \/ PatroniHealthy \/ PatroniUnreachable \/ PatroniStop

SentinelStart ==
  /\ ~sentinel.run
  /\ sentinel' = [run |-> TRUE, master |-> "none", said |-> "none"]
SentinelMaster ==
  /\ sentinel.run
  /\ \E m \in redis_sentinel_check :
       sentinel' = [sentinel EXCEPT
         !.said = IF sentinel.master \notin {"none", m} THEN m ELSE @,
         !.master = m]
SentinelUnreachable ==
  /\ sentinel.run
  /\ UNCHANGED sentinel
SentinelStop == sentinel.run /\ sentinel' = [sentinel EXCEPT !.run = FALSE]
SentinelNext == SentinelStart \/ SentinelMaster \/ SentinelUnreachable \/ SentinelStop

(* The last role or master a monitor announced is the last one it saw, over *)
(* any number of failed checks in between; a Patroni failure in between is  *)
(* announced as unknown.                                                    *)
AnnouncedIsSeen ==
  /\ patroni.said \in {"none", "unknown", patroni.recovery}
  /\ sentinel.said \in {"none", sentinel.master}
=============================================================================
