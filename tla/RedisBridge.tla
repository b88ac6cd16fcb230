----------------------------- MODULE RedisBridge -----------------------------
(* shim-core/redis_bridge: shims in several containers share a Redis stream *)
(* through one consumer group.  Each bridge reads a batch of new entries,   *)
(* relays them one by one into its local bus (except those it wrote itself) *)
(* and then acknowledges the last entry it has seen.  A consumer with a     *)
(* handler instead of a bus runs the same loop.                             *)
EXTENDS Naturals, Sequences, FiniteSets

CONSTANTS
  Bridge,        \* instance ids
  MaxEntries,    \* bound on the entries of the stream
  BatchSize,     \* COUNT of XREADGROUP
  MaxCrashes     \* bound on crashes

ASSUME BridgeAssumption == MaxEntries \in Nat /\ BatchSize \in Nat \ {0}

VARIABLES
  stream,        \* entries: who wrote it, and whether its source is the instance id
  cursor,        \* last entry the group has delivered
  bridgePending,       \* the group's delivered and not acknowledged entries
  bridge,        \* per bridge: connected, rest of the batch, last_id
  relayed,       \* history: <<bridge, entry>> published to a local bus, per entry
  handled,       \* history: entries some bridge went past
  crashes
bridgeVars == <<stream, cursor, bridgePending, bridge, relayed, handled, crashes>>

BridgeIdle == [up |-> FALSE, batch |-> << >>, last_id |-> 0]

BridgeInit ==
  /\ stream = << >> /\ cursor = 0 /\ bridgePending = {}
  /\ bridge = [b \in Bridge |-> BridgeIdle]
  /\ relayed = [e \in 1..MaxEntries |-> << >>]
  /\ handled = {} /\ crashes = 0

\* publish: XADD.  A failed XADD changes nothing.  The source of an event is
\* the name its emitter gave: a shim's, or the bridge's instance id.
BridgePublish(b) ==
  /\ Len(stream) < MaxEntries
  /\ \E own \in BOOLEAN : stream' = Append(stream, [by |-> b, own |-> own])
  /\ UNCHANGED <<cursor, bridgePending, bridge, relayed, handled, crashes>>

\* init_group (idempotent: an existing group keeps its cursor) and the start of
\* the consuming loop.
BridgeConnect(b) ==
  /\ ~bridge[b].up
  /\ bridge' = [bridge EXCEPT ![b] = [BridgeIdle EXCEPT !.up = TRUE]]
  /\ UNCHANGED <<stream, cursor, bridgePending, relayed, handled, crashes>>

\* XREADGROUP ... > : entries nobody was given yet, at most BatchSize of them.
ReadGroupAgain(b) ==
  LET n == IF Len(stream) - cursor < BatchSize THEN Len(stream) - cursor ELSE BatchSize
      first == IF \E e \in bridgePending : e <= cursor THEN cursor ELSE cursor + 1
  IN
  /\ bridge[b].up /\ bridge[b].batch = << >> /\ n > 0
  /\ cursor' = cursor + n
  /\ bridgePending' = bridgePending \cup (cursor + 1)..(cursor + n)
  /\ bridge' = [bridge EXCEPT ![b].batch = [i \in 1..(cursor + n + 1 - first) |-> first + i - 1]]
  /\ UNCHANGED <<stream, relayed, handled, crashes>>
ReadGroup(b) ==
  LET n == IF Len(stream) - cursor < BatchSize THEN Len(stream) - cursor ELSE BatchSize IN
  /\ bridge[b].up /\ bridge[b].batch = << >> /\ n > 0
  /\ cursor' = cursor + n
  /\ bridgePending' = bridgePending \cup (cursor + 1)..(cursor + n)
  /\ bridge' = [bridge EXCEPT ![b].batch = [i \in 1..n |-> cursor + i]]
  /\ UNCHANGED <<stream, relayed, handled, crashes>>

\* One message of the batch.  A bridge skips the events whose source is its
\* instance id; what its own shims emitted under their names comes back.
RelayEntry(b) ==
  /\ bridge[b].batch # << >>
  /\ LET e == Head(bridge[b].batch) IN
     /\ relayed' = IF stream[e] = [by |-> b, own |-> TRUE] THEN relayed
                   ELSE [relayed EXCEPT ![e] = Append(@, b)]
     /\ handled' = handled \cup {e}
     /\ bridge' = [bridge EXCEPT ![b].batch = Tail(@), ![b].last_id = e]
  /\ UNCHANGED <<stream, cursor, bridgePending, crashes>>

\* After each poll, XACK of last_id alone; a failed XACK is ignored, and the
\* next batch replaces last_id.
AckLast(b) ==
  /\ bridge[b].batch = << >> /\ bridge[b].last_id \in bridgePending
  /\ bridgePending' = bridgePending \ {bridge[b].last_id}
  /\ UNCHANGED <<stream, cursor, bridge, relayed, handled, crashes>>
\* The container dies; the group keeps its entries, which nobody claims.
BridgeCrash(b) ==
  /\ bridge[b].up /\ crashes < MaxCrashes
  /\ bridge' = [bridge EXCEPT ![b] = BridgeIdle]
  /\ crashes' = crashes + 1
  /\ UNCHANGED <<stream, cursor, bridgePending, relayed, handled>>

BridgeNext ==
  \E b \in Bridge : \/ BridgePublish(b) \/ BridgeConnect(b) \/ ReadGroup(b)
                    \/ RelayEntry(b) \/ AckLast(b) \/ BridgeCrash(b)

(* An entry reaches at most one local bus, once, over crashes and           *)
(* reconnections, and one that carries its writer's instance id never       *)
(* reaches the writer's bus.                                                *)
RelayedAtMostOnce ==
  \A e \in 1..MaxEntries :
    /\ Len(relayed[e]) <= 1
    /\ \A i \in DOMAIN relayed[e] : stream[e] # [by |-> relayed[e][i], own |-> TRUE]

(* An acknowledged entry was handled first: what a crash cuts short stays   *)
(* in the group's list of pending entries.                                  *)
AckedWasHandled == \A e \in 1..cursor : e \in handled \/ e \in bridgePending
=============================================================================
