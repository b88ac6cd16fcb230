----------------------------- MODULE Replication -----------------------------
(* replication-shim: the check loop works on the primary and the replicas   *)
(* start() saw; promote() and the other methods change the shim's own view. *)
(* Both write the shared state that the metrics show.                       *)
EXTENDS Naturals, FiniteSets

CONSTANTS
  Replica,           \* REPLICATION_REPLICAS
  PrimaryDb,         \* REPLICATION_PRIMARY
  MaxCalls           \* bound on the calls of the methods

ASSUME ReplicationAssumption == PrimaryDb \notin Replica /\ MaxCalls \in Nat

VARIABLES
  dbUp,              \* the databases that accept connections
  primary,           \* the shim's primary
  replica_status,    \* state of the replicas that are registered
  replShared,        \* SharedState: state, healthy, broken, failovers
  replLoop,          \* "off", "on", "stopping", "ended" or "hung"; watched replicas
  calls
replicationVars == <<dbUp, primary, replica_status, replShared, replLoop, calls>>

ReplicationInit ==
  /\ dbUp = Replica \cup {PrimaryDb}
  /\ primary = PrimaryDb
  /\ replica_status = << >>
  /\ replShared = [state |-> "Healthy", healthy |-> 0, broken |-> 0, failovers |-> 0]
  /\ replLoop = [run |-> "off", primary |-> PrimaryDb, replicas |-> {}]
  /\ calls = 0

DbFlips ==
  /\ \E d \in Replica \cup {PrimaryDb} :
       dbUp' = IF d \in dbUp THEN dbUp \ {d} ELSE dbUp \cup {d}
  /\ UNCHANGED <<primary, replica_status, replShared, replLoop, calls>>

\* start(): every replica is registered as healthy, and the loop takes its copy.
ReplStart ==
  /\ replLoop.run = "off"
  /\ replica_status' = [r \in Replica |-> "Healthy"]
  /\ replLoop' = [run |-> "on", primary |-> primary, replicas |-> Replica]
  /\ UNCHANGED <<dbUp, primary, replShared, calls>>

StateOf(total, healthy, broken) ==
  IF total = 0 \/ healthy = total THEN "Healthy"
  ELSE IF broken > 0 /\ healthy = 0 THEN "Broken" ELSE "Degraded"

Count(status, state) == Cardinality({r \in DOMAIN status : status[r] = state})
Recalculated(status) ==
  [replShared EXCEPT
     !.state = StateOf(Cardinality(DOMAIN status), Count(status, "Healthy"),
                       Count(status, "Broken")),
     !.healthy = Count(status, "Healthy"), !.broken = Count(status, "Broken")]

Called == calls < MaxCalls /\ calls' = calls + 1
\* A lag up to 10 s, up to 30 s, or more.
UpdateReplicaStatus(r) ==
  /\ Called /\ r \in DOMAIN replica_status
  /\ \E state \in {"Healthy", "Degraded", "Broken"} :
       replica_status' = [replica_status EXCEPT ![r] = state]
  /\ UNCHANGED <<dbUp, primary, replShared, replLoop>>
MarkReplicaDisconnected(r) ==
  /\ Called /\ r \in DOMAIN replica_status
  /\ replica_status' = [replica_status EXCEPT ![r] = "Broken"]
  /\ UNCHANGED <<dbUp, primary, replShared, replLoop>>
RecalculateState ==
  /\ Called /\ replShared' = Recalculated(replica_status)
  /\ UNCHANGED <<dbUp, primary, replica_status, replLoop>>
\* The replica leaves the map, and the loop goes on with the old primary.
PromoteReplica(r) ==
  /\ Called /\ r \in DOMAIN replica_status
  /\ replica_status' = [x \in DOMAIN replica_status \ {r} |-> replica_status[x]]
  /\ primary' = r
  /\ replShared' = [Recalculated(replica_status') EXCEPT !.failovers = @ + 1]
  /\ UNCHANGED <<dbUp, replLoop>>

\* An unreachable primary ends the round with the counts of an earlier one.
ReplTickForgetsState ==
  LET up == Cardinality(replLoop.replicas \cap dbUp) IN
  /\ replLoop.run \in {"on", "stopping"}
  /\ replShared' =
       IF replLoop.primary \notin dbUp THEN [replShared EXCEPT !.state = "Broken"]
       ELSE [replShared EXCEPT !.healthy = up,
                               !.broken = Cardinality(replLoop.replicas) - up]
  /\ UNCHANGED <<dbUp, primary, replica_status, replLoop, calls>>
ReplTick ==
  LET up == Cardinality(replLoop.replicas \cap dbUp)
      total == Cardinality(replLoop.replicas)
  IN
  /\ replLoop.run \in {"on", "stopping"}
  /\ replShared' =
       IF replLoop.primary \notin dbUp THEN [replShared EXCEPT !.state = "Broken"]
       ELSE [replShared EXCEPT !.healthy = up, !.broken = total - up,
                               !.state = StateOf(total, up, total - up)]
  /\ UNCHANGED <<dbUp, primary, replica_status, replLoop, calls>>
ReplStop ==
  /\ replLoop.run = "on" /\ replLoop' = [replLoop EXCEPT !.run = "stopping"]
  /\ UNCHANGED <<dbUp, primary, replica_status, replShared, calls>>
ReplEnds ==
  /\ replLoop.run = "stopping" /\ replLoop' = [replLoop EXCEPT !.run = "ended"]
  /\ UNCHANGED <<dbUp, primary, replica_status, replShared, calls>>

\* psql is awaited without a timeout: it may connect and never return.
ReplHangs ==
  /\ replLoop.run \in {"on", "stopping"} /\ replLoop.primary \in dbUp
  /\ replLoop' = [replLoop EXCEPT !.run = "hung"]
  /\ UNCHANGED <<dbUp, primary, replica_status, replShared, calls>>

ReplicationNext ==
  \/ DbFlips \/ ReplStart \/ RecalculateState \/ ReplTick \/ ReplStop \/ ReplEnds
  \/ ReplHangs
  \/ \E r \in Replica :
       UpdateReplicaStatus(r) \/ MarkReplicaDisconnected(r) \/ PromoteReplica(r)

(* While the loop runs, that is until it is stopped or a psql hangs, and    *)
(* the databases it watches stay up, the shim ends up reporting Healthy,    *)
(* whatever calls and outages came before.                                  *)
ReplicationHeals ==
  (<>[](replLoop.run = "on" /\ dbUp = Replica \cup {PrimaryDb}))
    => <>[](replShared.state = "Healthy")
=============================================================================
