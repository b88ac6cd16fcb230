-------------------------------- MODULE Cdc --------------------------------
(***************************************************************************)
(* cdc-shim: changes are captured into pending_events, drained in batches  *)
(* by publish_batch and delivered to a webhook one by one, each with up to *)
(* WebhookRetries further attempts, or written to the log.  The changes    *)
(* come from the callers of capture() or from one of the three polling     *)
(* loops, which alternate a poll of the database with publish_batch.  An   *)
(* event is its capture number; what it carries does not matter here.      *)
(***************************************************************************)
EXTENDS Naturals, Sequences, FiniteSets

CONSTANTS
  CdcKey,          \* keys of the polled redis
  WalPosition,     \* positions the polled database's log may reach
  BatchMax,        \* CDC_BATCH_SIZE
  WebhookRetries,  \* max_retries of publish_via_webhook
  RingCapacity,    \* DEFAULT_RING_CAPACITY
  MaxEvents        \* bound: events captured in a behaviour

ASSUME CdcAssumption ==
  /\ WalPosition \subseteq Nat /\ IsFiniteSet(CdcKey)
  /\ {BatchMax, WebhookRetries, RingCapacity, MaxEvents} \subseteq Nat
  /\ BatchMax > 0 /\ RingCapacity > 0

VARIABLES
  cdcSetup,   \* which feed drives the shim and where it publishes
  changes,    \* the polled database: log position and key checksums
  cdc,        \* counters, pending_events, published_ring, what the poll saw
  sending,    \* the batch publish_batch has drained and not finished
  inbox       \* what the webhook's receiver got, in order

cdcVars == <<cdcSetup, changes, cdc, sending, inbox>>

CdcFeeds == {"api", "postgres", "mariadb", "redis"}
CdcOutputs == {"webhook", "webhook without url", "log"}
NoSum == 0
Checksums == 1..2

(* No batch in flight; the loops are then at their poll. *)
Idle == [events |-> <<>>, next |-> 1, tries |-> 0, got |-> 0]

CdcInit ==
  /\ cdcSetup \in [feed: CdcFeeds, output: CdcOutputs]
  /\ changes = [pos |-> 0, sums |-> [k \in CdcKey |-> NoSum]]
  /\ cdc = [captured |-> 0, published |-> 0, failed |-> 0, pending |-> <<>>,
            ring |-> <<>>, pos |-> 0, sums |-> [k \in CdcKey |-> NoSum],
            polled |-> FALSE]
  /\ sending = Idle
  /\ inbox = <<>>

(* The database moves on: its log grows or is rotated, keys come, change   *)
(* and go.                                                                 *)
DatabaseChanges ==
  /\ \/ /\ cdcSetup.feed \in {"postgres", "mariadb"}
        /\ \E p \in WalPosition \ {changes.pos} :
             /\ p > changes.pos \/ cdcSetup.feed = "mariadb"
             /\ changes' = [changes EXCEPT !.pos = p]
     \/ /\ cdcSetup.feed = "redis"
        /\ \E k \in CdcKey, c \in Checksums \cup {NoSum} :
             changes' = [changes EXCEPT !.sums[k] = c]
  /\ UNCHANGED <<cdcSetup, cdc, sending, inbox>>

(* capture(), n times: n new events at the end of pending_events. *)
Capture(c, n) ==
  [c EXCEPT !.captured = @ + n,
            !.pending = @ \o [i \in 1..n |-> c.captured + i]]

(* should_capture() decides whether a caller's event counts at all. *)
CaptureEvent ==
  /\ cdcSetup.feed = "api" /\ sending = Idle
  /\ cdc.captured < MaxEvents
  /\ cdc' = Capture(cdc, 1)
  /\ UNCHANGED <<cdcSetup, changes, sending, inbox>>

FailPending ==
  /\ cdcSetup.feed = "api" /\ sending = Idle
  /\ cdc.pending # <<>>
  /\ cdc' = [cdc EXCEPT !.failed = @ + Len(cdc.pending), !.pending = <<>>]
  /\ UNCHANGED <<cdcSetup, changes, sending, inbox>>

(* The server prints a log position in hexadecimal; parse_lsn reads each   *)
(* half as a decimal number and yields 0 when that fails.                  *)
parse_lsn(p) ==
  LET hi == p \div 16
      lo == p % 16
  IN  IF hi < 10 /\ lo < 10 THEN 10 * hi + lo ELSE 0

(* A poll that finds the position beyond the last one captures one event.  *)
PollPosition(new) ==
  IF new > cdc.pos
  THEN [Capture(cdc, 1) EXCEPT !.pos = new, !.polled = TRUE]
  ELSE [cdc EXCEPT !.polled = TRUE]

PollPostgres ==
  /\ cdcSetup.feed = "postgres" /\ sending = Idle /\ ~cdc.polled
  /\ cdc.captured < MaxEvents
  /\ cdc' = PollPosition(parse_lsn(changes.pos))
  /\ UNCHANGED <<cdcSetup, changes, sending, inbox>>

PollMariadb ==
  /\ cdcSetup.feed = "mariadb" /\ sending = Idle /\ ~cdc.polled
  /\ cdc.captured < MaxEvents
  /\ cdc' = PollPosition(changes.pos)
  /\ UNCHANGED <<cdcSetup, changes, sending, inbox>>

(* One SCAN of all keys: an event for each key whose checksum is new.  A   *)
(* key that is gone is not scanned, so its removal is no event.            *)
ChangedKeys ==
  {k \in CdcKey : changes.sums[k] # NoSum /\ changes.sums[k] # cdc.sums[k]}

PollRedis ==
  /\ cdcSetup.feed = "redis" /\ sending = Idle /\ ~cdc.polled
  /\ cdc.captured + Cardinality(ChangedKeys) <= MaxEvents
  /\ cdc' = [Capture(cdc, Cardinality(ChangedKeys))
               EXCEPT !.polled = TRUE,
                      !.sums = [k \in CdcKey |->
                                  IF k \in ChangedKeys
                                  THEN changes.sums[k] ELSE @[k]]]
  /\ UNCHANGED <<cdcSetup, changes, sending, inbox>>

DrainedNewest ==
  LET n == IF Len(cdc.pending) < BatchMax THEN Len(cdc.pending) ELSE BatchMax
      k == Len(cdc.pending) - n
  IN  [batch |-> SubSeq(cdc.pending, k + 1, Len(cdc.pending)),
       rest  |-> SubSeq(cdc.pending, 1, k)]

(* The first BatchMax pending events are drained. *)
Drained ==
  LET n == IF Len(cdc.pending) < BatchMax THEN Len(cdc.pending) ELSE BatchMax
  IN  [batch |-> SubSeq(cdc.pending, 1, n),
       rest  |-> SubSeq(cdc.pending, n + 1, Len(cdc.pending))]

PushToRing(ring, events) ==
  LET all == ring \o events
  IN  IF Len(all) <= RingCapacity THEN all
      ELSE SubSeq(all, Len(all) - RingCapacity + 1, Len(all))

MayPublish == sending = Idle /\ (cdcSetup.feed = "api" \/ cdc.polled)

(* publish_batch with nothing pending returns at once. *)
PublishNothing ==
  /\ MayPublish /\ cdc.polled /\ cdc.pending = <<>>
  /\ cdc' = [cdc EXCEPT !.polled = FALSE]
  /\ UNCHANGED <<cdcSetup, changes, sending, inbox>>

PublishLog ==
  /\ MayPublish /\ cdc.pending # <<>> /\ cdcSetup.output = "log"
  /\ cdc' = [cdc EXCEPT !.pending = Drained.rest, !.polled = FALSE,
                        !.published = @ + Len(Drained.batch),
                        !.ring = PushToRing(@, Drained.batch)]
  /\ UNCHANGED <<cdcSetup, changes, sending, inbox>>

(* publish_via_webhook without a URL reports that nothing was published. *)
PublishNowhere ==
  /\ MayPublish /\ cdc.pending # <<>> /\ cdcSetup.output = "webhook without url"
  /\ cdc' = [cdc EXCEPT !.pending = Drained.rest, !.polled = FALSE,
                        !.failed = @ + Len(Drained.batch)]
  /\ UNCHANGED <<cdcSetup, changes, sending, inbox>>

PublishWebhook ==
  /\ MayPublish /\ cdc.pending # <<>> /\ cdcSetup.output = "webhook"
  /\ sending' = [Idle EXCEPT !.events = Drained.batch]
  /\ cdc' = [cdc EXCEPT !.pending = Drained.rest]
  /\ UNCHANGED <<cdcSetup, changes, inbox>>

(* One POST of the current event.  The receiver may have got it although   *)
(* the answer was an error or was lost.                                    *)
Post(arrives) ==
  /\ sending.next <= Len(sending.events)
  /\ inbox' = IF arrives THEN Append(inbox, sending.events[sending.next])
              ELSE inbox
  /\ UNCHANGED <<cdcSetup, changes, cdc>>

PostAccepted ==
  /\ Post(TRUE)
  /\ sending' = [sending EXCEPT !.next = @ + 1, !.tries = 0, !.got = @ + 1]

(* A 4xx other than 429 is not retried. *)
PostRejected ==
  /\ Post(FALSE)
  /\ sending' = [sending EXCEPT !.next = @ + 1, !.tries = 0]

(* A 5xx, a 429 or a transport error is retried until the attempts are     *)
(* used up.                                                                *)
AfterFailedPost(s) ==
  IF s.tries < WebhookRetries
  THEN [s EXCEPT !.tries = @ + 1]
  ELSE [s EXCEPT !.next = @ + 1, !.tries = 0]

PostFails ==
  /\ \E arrives \in BOOLEAN : Post(arrives)
  /\ sending' = AfterFailedPost(sending)

(* publish_batch counts the whole batch as published when any event of it  *)
(* was accepted, and as failed otherwise.                                  *)
BatchEnds ==
  /\ sending # Idle /\ sending.next > Len(sending.events)
  /\ cdc' = IF sending.got > 0
            THEN [cdc EXCEPT !.published = @ + Len(sending.events),
                             !.ring = PushToRing(@, sending.events),
                             !.polled = FALSE]
            ELSE [cdc EXCEPT !.failed = @ + Len(sending.events),
                             !.polled = FALSE]
  /\ sending' = Idle
  /\ UNCHANGED <<cdcSetup, changes, inbox>>

CdcNext ==
  \/ DatabaseChanges
  \/ CaptureEvent \/ FailPending
  \/ PollPostgres \/ PollMariadb \/ PollRedis
  \/ PublishNothing \/ PublishLog \/ PublishNowhere \/ PublishWebhook
  \/ PostAccepted \/ PostRejected \/ PostFails \/ BatchEnds

-----------------------------------------------------------------------------
CdcTypeOK ==
  /\ cdcSetup \in [feed: CdcFeeds, output: CdcOutputs]
  /\ changes \in [pos: WalPosition \cup {0}, sums: [CdcKey -> Checksums \cup {NoSum}]]
  /\ cdc \in [captured: 0..MaxEvents, published: 0..MaxEvents,
              failed: 0..MaxEvents, pending: Seq(1..MaxEvents),
              ring: Seq(1..MaxEvents), pos: Nat,
              sums: [CdcKey -> Checksums \cup {NoSum}], polled: BOOLEAN]
  /\ sending \in [events: Seq(1..MaxEvents), next: Nat, tries: 0..WebhookRetries,
                  got: Nat]
  /\ inbox \in Seq(1..MaxEvents)

(* Every captured event is pending, in the batch in flight, or counted as  *)
(* published or failed, exactly once (CdcShim::publish_batch and           *)
(* fail_pending against CdcShim::capture).                                 *)
CapturedAreAccounted ==
  cdc.captured = cdc.published + cdc.failed + Len(cdc.pending)
                 + Len(sending.events)

(* The receiver of the webhook gets the changes in the order they were     *)
(* captured: retries put copies next to each other, at most one more than  *)
(* WebhookRetries of them, and never an older change after a newer one     *)
(* (publish_batch, publish_via_webhook).                                   *)
ReceivedInOrder ==
  /\ \A i \in 1..(Len(inbox) - 1) : inbox[i] <= inbox[i + 1]
  /\ \A e \in 1..MaxEvents :
       Cardinality({i \in 1..Len(inbox) : inbox[i] = e}) <= WebhookRetries + 1
=============================================================================
