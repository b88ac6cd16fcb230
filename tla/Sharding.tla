------------------------------ MODULE Sharding ------------------------------
(***************************************************************************)
(* sharding-shim: keys are routed by a consistent hash ring of virtual     *)
(* nodes, by numeric ranges, or by a directory.  An unhealthy shard serves *)
(* nothing, whichever strategy would choose it.                            *)
(***************************************************************************)
EXTENDS Naturals, FiniteSets

CONSTANTS
  Shard,           \* shard ids
  ShardKey,        \* the keys that are routed
  KeyHash,         \* hash_key of a key, ShardKey -> Nat
  PointHash,       \* hash_key of a virtual node, Shard \X vnodes -> Nat
  KeyValue,        \* the number a key parses to, for the range strategy
  RangeBound       \* the bounds set_range is called with

ASSUME ShardingAssumption ==
  /\ \A k \in ShardKey : KeyHash[k] \in Nat /\ KeyValue[k] \in Nat
  /\ \A p, q \in DOMAIN PointHash : PointHash[p] = PointHash[q] => p = q
  /\ \A p \in DOMAIN PointHash : p[1] \in Shard /\ PointHash[p] \in Nat
  /\ DOMAIN PointHash # {}
  /\ RangeBound \subseteq Nat

VARIABLES
  routing,         \* the strategy
  shards,          \* Shard -> [healthy, start, end]; start = end: no range
  directory,       \* key -> shard, for the keys that are mapped
  served           \* history: the shards each key was routed to

shardingVars == <<routing, shards, directory, served>>

ShardingInit ==
  /\ routing \in {"hash", "range", "directory"}
  /\ shards = [s \in Shard |-> [healthy |-> TRUE, start |-> 0, end |-> 0]]
  /\ directory = << >>
  /\ served = [k \in ShardKey |-> {}]

(* The first virtual node at or after the key's hash, else the first of    *)
(* the ring (binary search modulo the ring's length).                      *)
RingPoint(k) ==
  LET after == {p \in DOMAIN PointHash : PointHash[p] >= KeyHash[k]}
      from  == IF after = {} THEN DOMAIN PointHash ELSE after
  IN  CHOOSE p \in from : \A q \in from : PointHash[p] <= PointHash[q]

(* The shards that route() may answer with, at most one for a hash or a    *)
(* directory; the empty set is an error.                                   *)
route_hash(k) == {RingPoint(k)[1]} \cap {s \in Shard : shards[s].healthy}

route_range(k) ==
  {s \in Shard : /\ shards[s].healthy
                 /\ shards[s].start <= KeyValue[k]
                 /\ KeyValue[k] < shards[s].end}

route_directory(k) ==
  {s \in Shard : k \in DOMAIN directory /\ directory[k] = s /\ shards[s].healthy}

Route(k) ==
  /\ \E s \in CASE routing = "hash" -> route_hash(k)
                [] routing = "range" -> route_range(k)
                [] routing = "directory" -> route_directory(k) :
       served' = [served EXCEPT ![k] = @ \cup {s}]
  /\ UNCHANGED <<routing, shards, directory>>

SetRange(s) ==
  /\ \E b, e \in RangeBound : b <= e /\ shards' = [shards EXCEPT ![s].start = b, ![s].end = e]
  /\ UNCHANGED <<routing, directory, served>>

AddDirectoryMapping(k, s) ==
  /\ directory' = [x \in DOMAIN directory \cup {k} |->
                     IF x = k THEN s ELSE directory[x]]
  /\ UNCHANGED <<routing, shards, served>>

SetShardHealth(s) ==
  /\ shards' = [shards EXCEPT ![s].healthy = ~@]
  /\ UNCHANGED <<routing, directory, served>>

ShardingNext ==
  \/ \E k \in ShardKey : Route(k) \/ \E s \in Shard : AddDirectoryMapping(k, s)
  \/ \E s \in Shard : SetRange(s) \/ SetShardHealth(s)

-----------------------------------------------------------------------------
(* With the hash strategy a key's rows stay on one shard: whatever shards  *)
(* fail and recover in between, every successful route of a key names the  *)
(* same shard (route_hash refuses the key rather than move it).            *)
HashedKeysStay ==
  routing = "hash" => \A k \in ShardKey : Cardinality(served[k]) <= 1
=============================================================================
