------------------------------ MODULE Failover ------------------------------
(***************************************************************************)
(* The monitoring loop of the failover shim (crates/failover-shim): it     *)
(* probes the current primary on every tick, promotes the replica after    *)
(* FAILOVER_FAILURE_THRESHOLD consecutive failures and, for the TCP        *)
(* connector, fails back to the original primary after a run of healthy    *)
(* checks.                                                                 *)
(*                                                                         *)
(* Every await of the loop is a point where the environment (databases     *)
(* going up and down) and stop() interleave, so one tick is several steps: *)
(* pc names the await the loop is suspended in.                            *)
(***************************************************************************)
EXTENDS Integers

CONSTANTS
  FailureThreshold,   \* FAILOVER_FAILURE_THRESHOLD
  FailbackChecks,     \* the literal 10 of handle_check_result
  MaxFailovers        \* failover_count is kept up to this bound

ASSUME ThresholdAssumption == FailureThreshold \in Nat \ {0}
ASSUME FailbackAssumption == FailbackChecks \in Nat \ {0}
ASSUME MaxFailoversAssumption == MaxFailovers \in Nat \ {0}

Primary == "primary"    \* the original primary, FAILOVER_PRIMARY
Replica == "replica"    \* FAILOVER_REPLICA
Node == {Primary, Replica}
None == "none"

VARIABLES
  connector,                    \* FAILOVER_CONNECTOR
  promoter,                     \* what trigger_failover runs to promote
  webhook,                      \* FAILOVER_WEBHOOK is set
  reachable,                    \* the databases that accept connections
  state,                        \* SharedState.state
  consecutive_failures,         \* SharedState.consecutive_failures
  failover_count,               \* SharedState.failover_count
  current_primary,              \* SharedState.current_primary
  pc,                           \* where the loop is suspended
  cur,                          \* current_primary as read at the tick
  promotion_result,             \* did the promotion command succeed
  consecutive_primary_healthy,  \* local of the loop
  last_known,                   \* last_known_primary / last_known_master
  stop_requested,               \* stop() has signalled the watch channel
  announced,                    \* node named by the last failover event
  run                           \* history: the current run of equal probe
                                \* results of one node

config == <<connector, promoter, webhook>>
shared == <<state, consecutive_failures, failover_count, current_primary>>
vars == <<config, reachable, shared, pc, cur, promotion_result,
          consecutive_primary_healthy, last_known, stop_requested,
          announced, run>>

FailoverConnector == {"Tcp", "Patroni", "RedisSentinel"}
\* FAILOVER_PROMOTE_CMD first, then REDIS_SENTINEL_MASTER, else patronictl
Promoter == {"PROMOTE_CMD", "SENTINEL", "patronictl"}
FailoverState == {"Healthy", "Suspect", "FailingOver", "FailedOver",
                  "Recovering", "Recovered"}
PC == {"unstarted", "select", "check", "promote", "report",
       "failback_check", "failback", "hung", "stopped"}

\* Counters that the code only compares with a bound are kept up to it.
UpTo(n, bound) == IF n < bound THEN n ELSE bound

MaxRun == IF FailureThreshold < FailbackChecks THEN FailbackChecks
                                               ELSE FailureThreshold

TypeOK ==
  /\ connector \in FailoverConnector
  /\ promoter \in Promoter
  /\ webhook \in BOOLEAN
  /\ reachable \in SUBSET Node
  /\ state \in FailoverState
  /\ consecutive_failures \in 0..FailureThreshold
  /\ failover_count \in 0..MaxFailovers
  /\ current_primary \in Node
  /\ pc \in PC
  /\ cur \in Node
  /\ promotion_result \in BOOLEAN
  /\ consecutive_primary_healthy \in 0..FailbackChecks
  /\ last_known \in Node \cup {None}
  /\ stop_requested \in BOOLEAN
  /\ announced \in Node \cup {None}
  /\ run \in [node : Node, healthy : BOOLEAN, len : 0..MaxRun]

\* init() copies the configured primary into current_primary, which new()
\* leaves empty; the mutant forgets to.
EmptyAddress == None
InitialPrimary == Primary

\* new() and init().
Init ==
  /\ connector \in FailoverConnector
  /\ promoter \in Promoter
  /\ webhook \in BOOLEAN
  /\ reachable \in SUBSET Node
  /\ state = "Healthy"
  /\ consecutive_failures = 0
  /\ failover_count = 0
  /\ current_primary = InitialPrimary
  /\ pc = "unstarted"
  /\ cur = Primary
  /\ promotion_result = FALSE
  /\ consecutive_primary_healthy = 0
  /\ last_known = None
  /\ stop_requested = FALSE
  /\ announced = None
  /\ run = [node |-> Primary, healthy |-> TRUE, len |-> 0]

-----------------------------------------------------------------------------
\* The environment: a database becomes reachable or unreachable.
Flip(n) ==
  /\ reachable' = IF n \in reachable THEN reachable \ {n}
                                     ELSE reachable \cup {n}
  /\ UNCHANGED <<config, shared, pc, cur, promotion_result, last_known,
                 consecutive_primary_healthy, stop_requested, announced, run>>

\* start(): a reachable primary sets Healthy, an unreachable one is only
\* logged; then the loop is spawned.
Start ==
  /\ pc = "unstarted"
  /\ state' = IF Primary \in reachable THEN "Healthy" ELSE state
  /\ pc' = "select"
  /\ UNCHANGED <<config, reachable, consecutive_failures, failover_count,
                 current_primary, cur, promotion_result, last_known,
                 consecutive_primary_healthy, stop_requested, announced, run>>

\* stop(): signals the watch channel and returns; the loop may be anywhere.
Stop ==
  /\ pc # "unstarted"
  /\ ~stop_requested
  /\ stop_requested' = TRUE
  /\ UNCHANGED <<config, reachable, shared, pc, cur, promotion_result,
                 last_known, consecutive_primary_healthy, announced, run>>

\* The shutdown branch of the select.
Shutdown ==
  /\ pc = "select"
  /\ stop_requested
  /\ pc' = "stopped"
  /\ UNCHANGED <<config, reachable, shared, cur, promotion_result, last_known,
                 consecutive_primary_healthy, stop_requested, announced, run>>

\* The tick branch: select! picks a ready branch at random, so a tick may
\* still win after stop() has signalled.
Tick ==
  /\ pc = "select"
  /\ cur' = current_primary
  /\ pc' = "check"
  /\ UNCHANGED <<config, reachable, shared, promotion_result, last_known,
                 consecutive_primary_healthy, stop_requested, announced, run>>

-----------------------------------------------------------------------------
\* A failed check of any connector: count it, and promote at the threshold.

\* The healthy streak after a failed check; the mutant forgets the reset.
KeptStreak == consecutive_primary_healthy
StreakAfterFailure == 0
FailuresAfter == UpTo(consecutive_failures + 1, FailureThreshold)

CountFailure ==
  /\ consecutive_primary_healthy' = StreakAfterFailure
  /\ consecutive_failures' = FailuresAfter
  /\ IF consecutive_failures' >= FailureThreshold
       THEN /\ state' = "FailingOver"
            /\ pc' = "promote"
       ELSE /\ state' = "Suspect"
            /\ pc' = "select"
  /\ UNCHANGED <<config, reachable, failover_count, current_primary, cur,
                 promotion_result, last_known, stop_requested, announced>>

\* History: how long the probes of one node have given the same answer.
Observe(n, healthy) ==
  run' = IF run.node = n /\ run.healthy = healthy
           THEN [run EXCEPT !.len = UpTo(run.len + 1, MaxRun)]
           ELSE [node |-> n, healthy |-> healthy, len |-> 1]

\* check_database(cur): a TCP connect, true exactly when it is reachable.
CheckUnhealthy ==
  /\ pc = "check" /\ connector = "Tcp"
  /\ cur \notin reachable
  /\ CountFailure
  /\ Observe(cur, FALSE)

\* Healthy while failed over: count towards failback; at the bound the
\* original primary is probed too (the next await).
CountTowardsFailback ==
  /\ consecutive_primary_healthy' =
       UpTo(consecutive_primary_healthy + 1, FailbackChecks)
  /\ pc' = IF consecutive_primary_healthy' >= FailbackChecks
             THEN "failback_check" ELSE "select"
  /\ UNCHANGED state

\* handle_check_result with healthy = true.
CheckHealthy ==
  /\ pc = "check" /\ connector = "Tcp"
  /\ cur \in reachable
  /\ consecutive_failures' = 0
  /\ IF state = "FailedOver" /\ cur # Primary
       THEN CountTowardsFailback
       ELSE /\ state' = IF state \in {"Suspect", "FailingOver"}
                          THEN "Healthy" ELSE state
            /\ consecutive_primary_healthy' = 0
            /\ pc' = "select"
  /\ Observe(cur, TRUE)
  /\ UNCHANGED <<config, reachable, failover_count, current_primary, cur,
                 promotion_result, last_known, stop_requested, announced>>

\* check_database(original_primary) before failing back.
FailbackCheck ==
  /\ pc = "failback_check"
  /\ pc' = IF Primary \in reachable THEN "failback" ELSE "select"
  /\ UNCHANGED <<config, reachable, shared, cur, promotion_result, last_known,
                 consecutive_primary_healthy, stop_requested, announced, run>>

\* Mutant: repointing without the event.
SilentFailback ==
  /\ pc = "failback"
  /\ current_primary' = Primary
  /\ state' = "Recovered"
  /\ consecutive_primary_healthy' = 0
  /\ pc' = "select"
  /\ UNCHANGED <<config, reachable, consecutive_failures, failover_count, cur,
                 promotion_result, last_known, stop_requested, announced, run>>

\* After the webhook: announce, repoint, Recovered.
Failback ==
  /\ pc = "failback"
  /\ announced' = Primary
  /\ current_primary' = Primary
  /\ state' = "Recovered"
  /\ consecutive_primary_healthy' = 0
  /\ pc' = "select"
  /\ UNCHANGED <<config, reachable, consecutive_failures, failover_count, cur,
                 promotion_result, last_known, stop_requested, run>>

-----------------------------------------------------------------------------
\* patroni_check and redis_sentinel_check: the node that Patroni (by
\* pg_is_in_recovery) or the Sentinel reports as primary. A change against
\* the last report is announced and counted; current_primary is not touched.
MonitorReports(node) ==
  /\ pc = "check" /\ connector \in {"Patroni", "RedisSentinel"}
  /\ LET changed == last_known \notin {None, node}
     IN  /\ announced' = IF changed THEN node ELSE announced
         /\ failover_count' = IF changed
                                THEN UpTo(failover_count + 1, MaxFailovers)
                                ELSE failover_count
  /\ last_known' = node
  /\ consecutive_failures' = 0
  /\ consecutive_primary_healthy' = 0
  /\ state' = "Healthy"
  /\ pc' = "select"
  /\ UNCHANGED <<config, reachable, current_primary, cur, promotion_result,
                 stop_requested, run>>

\* psql or the Sentinel did not answer.
MonitorUnreachable ==
  /\ pc = "check" /\ connector \in {"Patroni", "RedisSentinel"}
  /\ CountFailure
  /\ UNCHANGED run

-----------------------------------------------------------------------------
\* trigger_failover. patronictl counts as success whatever it returns; the
\* other two commands may fail. The mutant lets all three fail.
AnyResult == BOOLEAN
PromotionResults == IF promoter = "patronictl" THEN {TRUE} ELSE BOOLEAN

Promote ==
  /\ pc = "promote"
  /\ promotion_result' \in PromotionResults
  /\ pc' = "report"
  /\ UNCHANGED <<config, reachable, shared, cur, last_known,
                 consecutive_primary_healthy, stop_requested, announced, run>>

\* The failure counter once the replica is promoted; the mutant keeps it.
KeptFailures == consecutive_failures
FailuresAfterPromotion == 0

\* After the webhook: FailoverTriggered is emitted in both cases.
PromotionSucceeded ==
  /\ pc = "report" /\ promotion_result
  /\ announced' = Replica
  /\ current_primary' = Replica
  /\ failover_count' = UpTo(failover_count + 1, MaxFailovers)
  /\ state' = "FailedOver"
  /\ consecutive_failures' = FailuresAfterPromotion
  /\ pc' = "select"
  /\ UNCHANGED <<config, reachable, cur, promotion_result, last_known,
                 consecutive_primary_healthy, stop_requested, run>>

PromotionFailed ==
  /\ pc = "report" /\ ~promotion_result
  /\ announced' = Replica
  /\ state' = "FailingOver"
  /\ pc' = "select"
  /\ UNCHANGED <<config, reachable, consecutive_failures, failover_count,
                 current_primary, cur, promotion_result, last_known,
                 consecutive_primary_healthy, stop_requested, run>>

-----------------------------------------------------------------------------
\* The awaits without a timeout: psql and the Sentinel, the promotion, and
\* the webhook, whose client is reqwest's default. check_database gives up
\* after three seconds.
Unbounded ==
  \/ pc = "check" /\ connector # "Tcp"
  \/ pc = "promote"
  \/ pc \in {"report", "failback"} /\ webhook

\* A command that does not return, or a server that accepts and is silent:
\* the loop stays suspended for good.
Hang ==
  /\ Unbounded
  /\ pc' = "hung"
  /\ UNCHANGED <<config, reachable, shared, cur, promotion_result,
                 consecutive_primary_healthy, last_known, stop_requested,
                 announced, run>>

LoopStep ==
  \/ Tick \/ CheckUnhealthy \/ CheckHealthy \/ FailbackCheck \/ Failback
  \/ (\E n \in Node : MonitorReports(n)) \/ MonitorUnreachable
  \/ Promote \/ PromotionSucceeded \/ PromotionFailed

Next ==
  \/ \E n \in Node : Flip(n)
  \/ Start \/ Stop \/ Shutdown
  \/ LoopStep \/ Hang

Spec == Init /\ [][Next]_vars

\* The interval fires, a connect succeeds or times out, and any other await
\* ends unless it hangs; select! chooses at random among ready branches, so
\* a signalled shutdown is not passed over forever.
Fairness ==
  /\ WF_vars(Start)
  /\ WF_vars(LoopStep)
  /\ SF_vars(Shutdown)

FairSpec == Spec /\ Fairness

-----------------------------------------------------------------------------
\* trigger_failover runs only when the last FailureThreshold probes of the
\* TCP connector all failed and all went to the node it replaces: failures of
\* one node are never charged to another across a switch.
FailoverIsEarned ==
  connector = "Tcp" /\ pc \in {"promote", "report"}
    => /\ run.node = cur /\ ~run.healthy
       /\ run.len >= FailureThreshold

\* handle_check_result fails back only after FailbackChecks uninterrupted
\* healthy probes of the promoted replica.
FailbackIsEarned ==
  pc \in {"failback_check", "failback"}
    => /\ run.node = Replica /\ run.healthy
       /\ run.len >= FailbackChecks

\* The published state and the address the shim points at agree: FailedOver
\* says the replica is primary, Recovered that the original one is again.
StateNamesPrimary ==
  /\ state = "FailedOver" => current_primary = Replica
  /\ state = "Recovered" => current_primary = Primary

\* The inductive strengthening of the three invariants above. A tick works
\* on the address it read, the failure counter never exceeds the run of
\* failed probes of that address, and the healthy streak never exceeds the
\* run of healthy probes of the promoted replica.
CurIsCurrent ==
  pc \in {"check", "promote", "report", "failback_check", "failback"}
    => cur = current_primary

FailuresAreObserved ==
  connector = "Tcp" /\ consecutive_failures > 0
    => /\ run.node = current_primary /\ ~run.healthy
       /\ run.len >= consecutive_failures

StreakIsObserved ==
  consecutive_primary_healthy > 0
    => /\ state = "FailedOver" /\ consecutive_failures = 0
       /\ run.node = Replica /\ run.healthy
       /\ run.len >= consecutive_primary_healthy

PhaseIsJustified ==
  /\ pc = "unstarted" => consecutive_primary_healthy = 0
  /\ pc \in {"promote", "report"} => consecutive_failures >= FailureThreshold
  /\ pc \in {"failback_check", "failback"}
       => consecutive_primary_healthy >= FailbackChecks

IInv ==
  /\ TypeOK
  /\ CurIsCurrent
  /\ FailuresAreObserved
  /\ StreakIsObserved
  /\ PhaseIsJustified
  /\ StateNamesPrimary

\* current_primary never moves without a failover event naming the node it
\* moves to: bus subscribers are not left behind by trigger_failover or by
\* the failback.
SwitchIsAnnounced ==
  [][current_primary' # current_primary => announced' = current_primary']_vars

\* With the TCP connector and a promotion that cannot fail, a primary that
\* stays unreachable is replaced for good by a replica that stays reachable,
\* unless the shim is stopped, or patronictl or the webhook hangs: both are
\* awaited before the switch and neither has a timeout.
FailoverCompletes ==
  /\ connector = "Tcp" /\ promoter = "patronictl"
  /\ []~stop_requested
  /\ <>[](reachable = {Replica})
  => <>[](current_primary = Replica) \/ <>(pc = "hung")

\* stop() eventually ends the loop, wherever the signal finds it, except in
\* an await that hangs: the signal is looked at between ticks only.
StopEndsLoop == stop_requested ~> pc \in {"stopped", "hung"}

\* The loop makes progress: an outage that lasts is answered and a stop is
\* obeyed, wherever in a tick either is noticed, as long as what the loop
\* awaits without a timeout returns.
LoopMakesProgress == FailoverCompletes /\ StopEndsLoop

\* "Supports automatic failback when the original primary recovers": once
\* both databases stay reachable and nothing the loop awaits hangs, the shim
\* ends up on the original primary.
FailbackHappens ==
  /\ connector = "Tcp"
  /\ []~stop_requested
  /\ [](pc # "hung")
  /\ <>[](reachable = Node)
  => <>[](current_primary = Primary)
=============================================================================
