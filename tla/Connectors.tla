----------------------------- MODULE Connectors -----------------------------
(***************************************************************************)
(* The database shims that only answer calls: MongoDB and Elasticsearch    *)
(* check health with retries, CockroachDB reads the size of the cluster in *)
(* two queries, Cassandra reads one listing, DynamoDB lists its tables;    *)
(* MongoDB also takes dumps.                                               *)
(***************************************************************************)
EXTENDS Naturals

CONSTANTS
  ConnRetries,         \* RetryConfig.max_retries of mongodb and elasticsearch
  ClusterSize,         \* how many nodes or tables there may be
  MaxCheckCalls        \* bound

ASSUME ConnectorAssumption == ConnRetries \in Nat /\ ClusterSize \in Nat

Connector == {"mongodb", "elasticsearch", "cockroachdb", "cassandra", "dynamodb"}
Retrying == {"mongodb", "elasticsearch"}
(* What counts as healthy: a node that is up and normal, a table.          *)
cassandra_ok(live) == live > 0
dynamodb_ok(tables) == tables > 0
NoReport == [ok |-> FALSE, node_count |-> 0, live_nodes |-> 0]

VARIABLES
  connector,           \* which shim this is
  connPc,              \* "idle", "checking", "counting", "dumping" or "hung"
  connTries,
  report,              \* what the last check returned, NoReport before and for an error
  check_total, topology_queries,
  dumps_ok, dumps_failed, dumpsTaken    \* the last is history: dumps on disk

connVars == <<connector, connPc, connTries, report, check_total, topology_queries, dumps_ok,
              dumps_failed, dumpsTaken>>
dumpVars == <<dumps_ok, dumps_failed, dumpsTaken>>

ConnectorInit ==
  /\ connector \in Connector /\ connPc = "idle" /\ connTries = 0 /\ report = NoReport
  /\ check_total = 0 /\ topology_queries = 0
  /\ dumps_ok = 0 /\ dumps_failed = 0 /\ dumpsTaken = 0

CheckHealth ==
  /\ connPc = "idle" /\ check_total < MaxCheckCalls
  /\ connPc' = "checking" /\ check_total' = check_total + 1 /\ connTries' = 0
  /\ UNCHANGED <<connector, report, topology_queries, dumpVars>>

(* with_backoff: every error is retryable. *)
CheckErrs ==
  /\ connPc = "checking"
  /\ IF connector \in Retrying /\ connTries < ConnRetries
     THEN connTries' = connTries + 1 /\ UNCHANGED <<connPc, report>>
     ELSE connPc' = "idle" /\ report' = NoReport /\ UNCHANGED connTries
  /\ UNCHANGED <<connector, check_total, topology_queries, dumpVars>>

(* One answer tells all: a status document, a listing, the tables.         *)
CheckAnswers ==
  /\ connPc = "checking" /\ connector # "cockroachdb"
  /\ \E n \in 0..ClusterSize, live \in 0..ClusterSize, said \in BOOLEAN :
       /\ live <= n
       /\ report' = [ok |-> CASE connector = "cassandra" -> cassandra_ok(live)
                              [] connector = "dynamodb" -> dynamodb_ok(n)
                              [] OTHER -> said,
                     node_count |-> n, live_nodes |-> live]
  /\ connPc' = "idle" /\ UNCHANGED <<connector, connTries, check_total, topology_queries, dumpVars>>

(* pg_isready decides; one node is assumed until the queries say more.     *)
CrdbReachable ==
  /\ connPc = "checking" /\ connector = "cockroachdb"
  /\ \E ready, pool \in BOOLEAN :
       /\ report' = [ok |-> ready, node_count |-> 1, live_nodes |-> IF ready THEN 1 ELSE 0]
       /\ connPc' = IF ready /\ pool THEN "counting" ELSE "idle"
       /\ topology_queries' = topology_queries + (IF ready /\ pool THEN 1 ELSE 0)
  /\ UNCHANGED <<connector, connTries, check_total, dumpVars>>

(* Each query may fail by itself and then leaves its default, and the      *)
(* cluster may grow or shrink between them.                                *)
CrdbCounts ==
  /\ connPc = "counting" /\ connPc' = "idle"
  /\ \E live \in 0..ClusterSize, n \in 0..ClusterSize :
       \/ report' = [report EXCEPT !.live_nodes = live, !.node_count = n]
       \/ report' = [report EXCEPT !.live_nodes = live]
       \/ report' = [report EXCEPT !.node_count = n]
       \/ UNCHANGED report
  /\ UNCHANGED <<connector, connTries, check_total, topology_queries, dumpVars>>

GetTopology ==
  /\ connector = "cockroachdb" /\ connPc = "idle" /\ topology_queries < MaxCheckCalls
  /\ topology_queries' = topology_queries + 1
  /\ UNCHANGED <<connector, connPc, connTries, report, check_total, dumpVars>>

(* An error before or after the dump itself returns without counting, so a *)
(* dump may be on disk that neither counter knows of.                      *)
DumpBegins ==
  /\ connector = "mongodb" /\ connPc = "idle" /\ connPc' = "dumping"
  /\ dumpsTaken < MaxCheckCalls
  /\ UNCHANGED <<connector, connTries, report, check_total, topology_queries, dumpVars>>
DumpEnds ==
  /\ connPc = "dumping" /\ connPc' = "idle"
  /\ \/ dumps_ok' = dumps_ok + 1 /\ dumpsTaken' = dumpsTaken + 1 /\ UNCHANGED dumps_failed
     \/ dumpsTaken' = dumpsTaken + 1 /\ UNCHANGED <<dumps_ok, dumps_failed>>
     \/ /\ dumps_failed < MaxCheckCalls /\ dumps_failed' = dumps_failed + 1
        /\ UNCHANGED <<dumps_ok, dumpsTaken>>
     \/ UNCHANGED dumpVars
  /\ UNCHANGED <<connector, connTries, report, check_total, topology_queries>>

(* Only the requests of Elasticsearch have a timeout; a tool, a query or a *)
(* table listing may never return.                                         *)
CheckHangs ==
  /\ connector # "elasticsearch" /\ connPc \in {"checking", "counting", "dumping"}
  /\ connPc' = "hung"
  /\ UNCHANGED <<connector, connTries, report, check_total, topology_queries, dumpVars>>

ConnectorNext ==
  \/ CheckHealth \/ CheckErrs \/ CheckAnswers \/ CrdbReachable \/ CrdbCounts \/ GetTopology
  \/ DumpBegins \/ DumpEnds \/ CheckHangs

-----------------------------------------------------------------------------
(* A health check ends, after its retries at the latest, with a report or  *)
(* an error, if what it calls returns; that of Elasticsearch always does   *)
(* (check_health of every connector).                                      *)
ChecksEnd ==
  connPc \in {"checking", "counting"}
    ~> (connPc = "idle" \/ (connPc = "hung" /\ connector # "elasticsearch"))
=============================================================================
