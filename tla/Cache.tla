-------------------------------- MODULE Cache --------------------------------
(* cache-shim: entries, two orders for eviction, and the counters, all     *)
(* under one RwLock (module Telemetry has the lock itself).                *)
EXTENDS Naturals, Sequences, FiniteSets, FiniteSetsExt, SequencesExt, Functions

CONSTANTS
  Key,               \* cache keys
  MaxSize,           \* CACHE_MAX_SIZE
  MaxCached,         \* CACHE_MAX_ENTRIES
  MaxCount           \* bound on access_count

ASSUME CacheAssumption == MaxSize \in Nat \ {0} /\ MaxCached \in Nat \ {0}

VARIABLES
  strategy,          \* "lru", "lfu" or "fifo"
  cached,            \* entries: [size, expired, count] of the keys in it
  access_order, insert_order, size_bytes
cacheVars == <<strategy, cached, access_order, insert_order, size_bytes>>

CacheInit ==
  /\ strategy \in {"lru", "lfu", "fifo"}
  /\ cached = << >> /\ access_order = << >> /\ insert_order = << >>
  /\ size_bytes = 0

\* retain: the keys in K, or those that are not.
Keep(s, K) == FlattenSeq([i \in DOMAIN s |-> IF s[i] \in K THEN <<s[i]>> ELSE << >>])
Retain(s, K) == Keep(s, Key \ K)
Sizes(K) == SumFunctionOnSet([k \in DOMAIN cached |-> cached[k].size], K)

\* What invalidate, invalidate_prefix, purge_expired, sweep_expired and an
\* expired get have in common.
DropEntries(K) ==
  /\ cached' = [k \in DOMAIN cached \ K |-> cached[k]]
  /\ access_order' = Retain(access_order, K)
  /\ insert_order' = Retain(insert_order, K)
  /\ size_bytes' = size_bytes - Sizes(K)

\* Time passes the TTL of an entry.
Expire(k) ==
  /\ k \in DOMAIN cached /\ ~cached[k].expired
  /\ cached' = [cached EXCEPT ![k].expired = TRUE]
  /\ UNCHANGED <<strategy, access_order, insert_order, size_bytes>>

CacheGet(k) ==
  /\ k \in DOMAIN cached
  /\ IF cached[k].expired
     THEN DropEntries({k})
     ELSE /\ cached' = [cached EXCEPT ![k].count = IF @ < MaxCount THEN @ + 1 ELSE @]
          /\ access_order' = Append(Retain(access_order, {k}), k)
          /\ UNCHANGED <<insert_order, size_bytes>>
  /\ UNCHANGED strategy

\* The orders in which evict_one_inner may take victims among the keys K.
EvictionOrders(K) ==
  CASE strategy = "lru"  -> {Keep(access_order, K)}
    [] strategy = "fifo" -> {Keep(insert_order, K)}
    [] strategy = "lfu"  -> {o \in SetToSeqs(K) : \A i, j \in DOMAIN o :
                               i < j => cached[o[i]].count <= cached[o[j]].count}

\* The old entry goes, victims go until the new one fits, then it is added.
CacheSet(k, size) ==
  /\ size <= MaxSize
  /\ LET K == DOMAIN cached \ {k} IN
     \E o \in EvictionOrders(K) :
       LET Fits(n) == LET rest == K \ {o[i] : i \in 1..n} IN
                      Sizes(rest) + size <= MaxSize /\ Cardinality(rest) < MaxCached
           out == {k} \cup {o[i] : i \in 1..Min({n \in 0..Len(o) : Fits(n)})}
       IN /\ cached' = [x \in (DOMAIN cached \ out) \cup {k} |->
                          IF x = k THEN [size |-> size, expired |-> FALSE, count |-> 0]
                          ELSE cached[x]]
          /\ access_order' = Append(Retain(access_order, out), k)
          /\ insert_order' = Append(Retain(insert_order, out), k)
          /\ size_bytes' = size_bytes + size - Sizes(out \cap DOMAIN cached)
  /\ UNCHANGED strategy

Invalidate(k) == k \in DOMAIN cached /\ DropEntries({k}) /\ UNCHANGED strategy
InvalidatePrefix(K) ==
  K \cap DOMAIN cached # {} /\ DropEntries(K \cap DOMAIN cached) /\ UNCHANGED strategy
Sweep ==
  LET gone == {k \in DOMAIN cached : cached[k].expired} IN
  gone # {} /\ DropEntries(gone) /\ UNCHANGED strategy
CacheClear ==
  /\ cached # << >> /\ cached' = << >>
  /\ access_order' = << >> /\ insert_order' = << >> /\ size_bytes' = 0
  /\ UNCHANGED strategy

CacheNext ==
  \/ Sweep \/ CacheClear
  \/ \E k \in Key : Expire(k) \/ CacheGet(k) \/ Invalidate(k)
  \/ \E k \in Key, size \in 1..MaxSize : CacheSet(k, size)
  \/ \E K \in SUBSET Key : InvalidatePrefix(K)

(* size_bytes is the sum of the entries' sizes and within CACHE_MAX_SIZE,   *)
(* the entries are at most CACHE_MAX_ENTRIES, and both orders hold each     *)
(* cached key exactly once, after any sequence of calls and sweeps.         *)
CacheAccounts ==
  /\ size_bytes = Sizes(DOMAIN cached) /\ size_bytes <= MaxSize
  /\ Cardinality(DOMAIN cached) <= MaxCached
  /\ \A o \in {access_order, insert_order} :
       IsInjective(o) /\ Range(o) = DOMAIN cached
=============================================================================
