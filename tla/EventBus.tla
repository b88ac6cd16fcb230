------------------------------ MODULE EventBus ------------------------------
(***************************************************************************)
(* The event bus of shim-core (bus.rs) with the four handlers that         *)
(* wire_all_handlers attaches to it (wiring.rs). publish numbers an event  *)
(* per source under a lock and sends it after the lock is released; the    *)
(* broadcast channel keeps the last Capacity events, and a receiver that   *)
(* falls further behind loses the oldest ones. Handlers publish to the bus *)
(* they listen to.                                                         *)
(***************************************************************************)
EXTENDS Integers, Sequences, FiniteSets

CONSTANTS
  Publisher,  \* the shims' threads that publish
  Capacity,   \* slots of the broadcast channel
  Threshold,  \* failover_threshold
  Setups,     \* the deployments of the bus: the handlers started, in order;
              \* the kinds of event published; whether the caller of start()
              \* keeps the handlers (wire_all_handlers does not); the readers
  Readers,    \* the readers that use recv_filtered
  MaxEvents   \* bound on the events the publishers publish

\* A scheduler task counts as a backup task by its name ("backup", "daily").
PublishedKinds == {"unhealthy", "healthy", "failover_triggered",
                   "backup_completed", "backup_task_fired", "other_task_fired"}

ASSUME CapacityAssumption == Capacity \in Nat \ {0}
ASSUME ThresholdAssumption == Threshold \in Nat \ {0}
ASSUME MaxEventsAssumption == MaxEvents \in Nat

\* wire_all_handlers starts these four, in this order.
Handler == {"health_failover", "backup_encryption", "alert_fanin",
            "scheduler_backup"}
ASSUME SetupsAssumption ==
  \A s \in Setups : /\ s.wiring \in Seq(Handler)
                    /\ \A i, j \in DOMAIN s.wiring :       \* each started once
                         s.wiring[i] = s.wiring[j] => i = j
                    /\ s.kinds \subseteq PublishedKinds
                    /\ s.kept \in BOOLEAN
                    /\ s.readers \subseteq Readers

Receiver == Handler \cup Readers
Actor == Publisher \cup Handler

ASSUME ActorsAssumption ==
  Publisher \cap Handler = {} /\ Readers \cap Handler = {}

Source == {"health-shim", "failover-shim", "backup-shim", "scheduler-shim",
           "encryption-shim"}
Kind == PublishedKinds \cup {"backup_started", "key_rotated"}
SourceOf ==
  [k \in Kind |->
    CASE k \in {"unhealthy", "healthy"} -> "health-shim"
      [] k = "failover_triggered" -> "failover-shim"
      [] k \in {"backup_completed", "backup_started"} -> "backup-shim"
      [] k \in {"backup_task_fired", "other_task_fired"} -> "scheduler-shim"
      [] k = "key_rotated" -> "encryption-shim"]

\* is_alertable: the kinds that are published above Info.
Alertable == {"unhealthy", "failover_triggered"}

Event == [source : Source, kind : Kind, sequence : Nat]
NoEvent == [source |-> "none", kind |-> "none", sequence |-> 0]

VARIABLES
  setup,            \* the deployment; it never changes
  sequences,        \* source -> the last number handed out
  pending,          \* actor -> the event it has numbered and not yet sent
  log,              \* every event sent to a receiver, in channel order
  unheard,          \* the events sent while nobody was subscribed
  total_published,
  total_dropped,
  pos,              \* receiver -> log index it reads next, 0 if not subscribed
  joined,           \* receiver -> its first log index
  missed,           \* receiver -> the log indexes it lagged behind
  running,          \* the handler tasks that have not left their loop
  sender,           \* handler -> its shutdown_tx
  wired,            \* how many handlers have been started
  unhealthy_count,
  triggers,         \* history: failovers the health handler triggered
  alerted,          \* the log indexes the alert fan-in has routed
  budget            \* events the publishers may still publish

busVars == <<sequences, pending, log, unheard, total_published>>
wiringVars == <<running, sender, wired, unhealthy_count, triggers, alerted>>
readVars == <<pos, joined, missed, total_dropped>>
vars == <<busVars, wiringVars, readVars, budget, setup>>

TypeOK ==
  /\ setup \in Setups
  /\ sequences \in [Source -> Nat]
  /\ pending \in [Actor -> Event \cup {NoEvent}]
  /\ log \in Seq(Event)
  /\ unheard \subseteq Event
  /\ total_published \in Nat
  /\ total_dropped \in Nat
  /\ pos \in [Receiver -> Nat]
  /\ joined \in [Receiver -> Nat]
  /\ missed \in [Receiver -> SUBSET Nat]
  /\ running \subseteq Handler
  /\ sender \in [Handler -> {"none", "live", "signalled", "dropped"}]
  /\ wired \in 0..Len(setup.wiring)
  /\ unhealthy_count \in 0..(Threshold - 1)
  /\ triggers \in Nat
  /\ alerted \subseteq Nat
  /\ budget \in 0..MaxEvents

Init ==
  /\ setup \in Setups
  /\ sequences = [s \in Source |-> 0]
  /\ pending = [a \in Actor |-> NoEvent]
  /\ log = << >>
  /\ unheard = {}
  /\ total_published = 0
  /\ total_dropped = 0
  /\ pos = [r \in Receiver |-> 0]
  /\ joined = [r \in Receiver |-> 0]
  /\ missed = [r \in Receiver |-> {}]
  /\ running = {}
  /\ sender = [h \in Handler |-> "none"]
  /\ wired = 0
  /\ unhealthy_count = 0
  /\ triggers = 0
  /\ alerted = {}
  /\ budget = MaxEvents

-----------------------------------------------------------------------------
\* publish, first half: the number is assigned under the write lock. The
\* mutant reads the counter without taking its turn.
KeepCounter(s) == sequences
BumpCounter(s) == [sequences EXCEPT ![s] = @ + 1]

Assign(a, k) ==
  LET s == SourceOf[k]
  IN  /\ sequences' = BumpCounter(s)
      /\ pending' = [pending EXCEPT ![a] =
           [source |-> s, kind |-> k, sequence |-> sequences[s] + 1]]

Publish(p, k) ==
  /\ budget > 0
  /\ pending[p] = NoEvent
  /\ Assign(p, k)
  /\ budget' = budget - 1
  /\ UNCHANGED <<log, unheard, total_published, wiringVars, readVars>>

\* publish, second half: send, and count whatever send answered. A channel
\* without receivers refuses the event.
Subscribed == {r \in Receiver : pos[r] > 0 /\ (r \in Handler => r \in running)}

Send(a) ==
  /\ pending[a] # NoEvent
  /\ IF Subscribed # {}
       THEN /\ log' = Append(log, pending[a])
            /\ UNCHANGED unheard
       ELSE /\ unheard' = unheard \cup {pending[a]}
            /\ UNCHANGED log
  /\ pending' = [pending EXCEPT ![a] = NoEvent]
  /\ total_published' = total_published + 1
  /\ UNCHANGED <<sequences, wiringVars, readVars, budget>>

-----------------------------------------------------------------------------
\* A receiver that subscribes sees the events sent from then on.
Subscribe(r) ==
  /\ pos' = [pos EXCEPT ![r] = Len(log) + 1]
  /\ joined' = [joined EXCEPT ![r] = Len(log) + 1]
  /\ UNCHANGED <<missed, total_dropped>>

\* wire_all_handlers starts the next handler: subscribe, keep the sender of
\* the shutdown channel in the handler, spawn the task.
StartHandler ==
  /\ wired < Len(setup.wiring)
  /\ LET h == setup.wiring[wired + 1]
     IN  /\ Subscribe(h)
         /\ running' = running \cup {h}
         /\ sender' = [sender EXCEPT ![h] = "live"]
  /\ wired' = wired + 1
  /\ UNCHANGED <<busVars, unhealthy_count, triggers, alerted, budget>>

\* The tasks that hold a clone of the handler, and the shutdown sender in it.
HoldsItself == {"health_failover", "backup_encryption", "scheduler_backup"}

\* start() returns and a caller that kept no clone drops the last Arc: the
\* sender goes with it unless the task holds the handler.
DropHandler(h) ==
  /\ ~setup.kept /\ h \notin HoldsItself
  /\ sender[h] = "live"
  /\ sender' = [sender EXCEPT ![h] = "dropped"]
  /\ UNCHANGED <<busVars, readVars, running, wired, unhealthy_count,
                 triggers, alerted, budget>>

\* stop() of a handler the caller kept.
StopHandler(h) ==
  /\ setup.kept /\ sender[h] = "live"
  /\ sender' = [sender EXCEPT ![h] = "signalled"]
  /\ UNCHANGED <<busVars, readVars, running, wired, unhealthy_count,
                 triggers, alerted, budget>>

\* changed() returns, with Ok or because the sender is gone, and the biased
\* select takes that branch first; the task ends and drops its receiver.
LeaveLoop(h) ==
  /\ h \in running /\ sender[h] # "live"
  /\ pending[h] = NoEvent
  /\ running' = running \ {h}
  /\ UNCHANGED <<busVars, readVars, sender, wired, unhealthy_count,
                 triggers, alerted, budget>>

-----------------------------------------------------------------------------
\* Reading. A receiver whose next slot has been overwritten is told so once
\* and goes on with the oldest event the channel still holds.
Oldest == IF Len(log) > Capacity THEN Len(log) - Capacity + 1 ELSE 1
Backlog(r) == pos[r] > 0 /\ pos[r] <= Len(log)
Ready(h) == h \in running /\ sender[h] = "live" /\ pending[h] = NoEvent

Skip(r) ==
  /\ Backlog(r) /\ pos[r] < Oldest
  /\ missed' = [missed EXCEPT ![r] = @ \cup pos[r]..(Oldest - 1)]
  /\ pos' = [pos EXCEPT ![r] = Oldest]
  /\ UNCHANGED joined

Take(r) ==
  /\ Backlog(r) /\ pos[r] >= Oldest
  /\ pos' = [pos EXCEPT ![r] = @ + 1]
  /\ UNCHANGED <<joined, missed, total_dropped>>

\* The handlers only log that they lagged.
HandlerLags(h) ==
  /\ Ready(h)
  /\ Skip(h)
  /\ UNCHANGED <<busVars, wiringVars, total_dropped, budget>>

\* recv_filtered counts what it lost and passes on the events it wants.
SubscribeFiltered(r) ==
  /\ pos[r] = 0
  /\ Subscribe(r)
  /\ UNCHANGED <<busVars, wiringVars, budget>>

FilteredLags(r) ==
  /\ Skip(r)
  /\ total_dropped' = total_dropped + Oldest - pos[r]
  /\ UNCHANGED <<busVars, wiringVars, budget>>

FilteredReads(r) ==
  /\ Take(r)
  /\ UNCHANGED <<busVars, wiringVars, budget>>

\* The count after a health event; the mutant forgets the healthy ones.
NeverReset(k, n) == IF k = "unhealthy" THEN n + 1 ELSE n
NextCount(k, n) ==
  CASE k = "unhealthy" -> n + 1
    [] k = "healthy" -> 0
    [] OTHER -> n

\* The count once a failover has been triggered; the mutant keeps some of it.
KeepOne == Threshold - 1
CountAfterTrigger == 0

HealthFailoverReads ==
  LET h == "health_failover"
      n == NextCount(log[pos[h]].kind, unhealthy_count)
  IN  /\ Ready(h)
      /\ Take(h)
      /\ \/ /\ n >= Threshold
            /\ Assign(h, "failover_triggered")
            /\ unhealthy_count' = CountAfterTrigger
            /\ triggers' = triggers + 1
         \/ /\ n < Threshold
            /\ unhealthy_count' = n
            /\ UNCHANGED <<sequences, pending, triggers>>
      /\ UNCHANGED <<log, unheard, total_published, running, sender, wired,
                     alerted, budget>>

\* The two handlers that answer one kind of event with another.
Forward(h, in, out) ==
  /\ Ready(h)
  /\ Take(h)
  /\ IF log[pos[h]].kind = in
       THEN Assign(h, out)
       ELSE UNCHANGED <<sequences, pending>>
  /\ UNCHANGED <<log, unheard, total_published, wiringVars, budget>>

BackupEncryptionReads ==
  Forward("backup_encryption", "backup_completed", "key_rotated")

SchedulerBackupReads ==
  Forward("scheduler_backup", "backup_task_fired", "backup_started")

\* The fan-in asks is_alertable; the mutant passes critical events only.
CriticalOnly(k) == k = "failover_triggered"
Routed(k) == k \in Alertable

AlertFanInReads ==
  LET h == "alert_fanin"
  IN  /\ Ready(h)
      /\ Take(h)
      /\ alerted' = IF Routed(log[pos[h]].kind)
                      THEN alerted \cup {pos[h]} ELSE alerted
      /\ UNCHANGED <<busVars, running, sender, wired, unhealthy_count, triggers,
                     budget>>

-----------------------------------------------------------------------------
HandlerStep(h) ==
  \/ HandlerLags(h)
  \/ LeaveLoop(h)
  \/ h = "health_failover" /\ HealthFailoverReads
  \/ h = "backup_encryption" /\ BackupEncryptionReads
  \/ h = "alert_fanin" /\ AlertFanInReads
  \/ h = "scheduler_backup" /\ SchedulerBackupReads

Step ==
  \/ \E p \in Publisher, k \in setup.kinds : Publish(p, k)
  \/ \E a \in Actor : Send(a)
  \/ StartHandler
  \/ \E h \in Handler : DropHandler(h) \/ StopHandler(h) \/ HandlerStep(h)
  \/ \E r \in setup.readers :
       SubscribeFiltered(r) \/ FilteredLags(r) \/ FilteredReads(r)

Next == Step /\ UNCHANGED setup

Spec == Init /\ [][Next]_vars

\* The runtime polls every task: a numbered event is sent, and a handler with
\* something to read, or told to stop, gets to it.
Fairness ==
  /\ \A a \in Actor : WF_vars(Send(a) /\ UNCHANGED setup)
  /\ \A h \in Handler : /\ WF_vars(HandlerStep(h) /\ UNCHANGED setup)
                       /\ WF_vars(DropHandler(h) /\ UNCHANGED setup)
  /\ WF_vars(StartHandler /\ UNCHANGED setup)

FairSpec == Spec /\ Fairness

-----------------------------------------------------------------------------
\* The indexes of the log that r has read, and the ones that hold kind k.
Read(r) == {i \in 1..Len(log) : joined[r] <= i /\ i < pos[r]} \ missed[r]
Of(k) == {i \in 1..Len(log) : log[i].kind = k}

\* The numbers of a source that are on the bus, lost for lack of a receiver,
\* or with a publisher that has not sent yet.
Logged(s) == {i \in 1..Len(log) : log[i].source = s}
Unheard(s) == {e \in unheard : e.source = s}
InFlight(s) == {a \in Actor : pending[a].source = s}

\* Only numbers that were handed out are in use.
NumbersAreIssued ==
  /\ \A i \in 1..Len(log) : log[i].sequence \in 1..sequences[log[i].source]
  /\ \A a \in Actor : pending[a] # NoEvent
       => pending[a].sequence \in 1..sequences[pending[a].source]

\* Publishers that race on one source never share a number: no two events
\* sent or about to be sent carry the same source and sequence.
NumbersAreUnique ==
  /\ \A i, j \in 1..Len(log) :
       log[i].source = log[j].source /\ log[i].sequence = log[j].sequence
         => i = j
  /\ \A i \in 1..Len(log), a \in Actor :
       log[i].source = pending[a].source => log[i].sequence # pending[a].sequence
  /\ \A a, b \in Actor :
       a # b /\ pending[a] # NoEvent /\ pending[a].source = pending[b].source
         => pending[a].sequence # pending[b].sequence

\* The inductive invariant behind NumbersAreUnique.
IInv == TypeOK /\ NumbersAreIssued /\ NumbersAreUnique

\* No number of a source is skipped or lost: every one handed out belongs to
\* an event that was sent, was refused by an empty channel, or is in flight.
NumbersHaveNoGaps ==
  \A s \in Source :
    {log[i].sequence : i \in Logged(s)} \cup {e.sequence : e \in Unheard(s)}
      \cup {pending[a].sequence : a \in InFlight(s)} = 1..sequences[s]

\* Every triggered failover of the handler is paid for by Threshold unhealthy
\* events that it read itself and that no other trigger was charged for.
TriggersAreEarned ==
  Threshold * triggers + unhealthy_count
    <= Cardinality(Read("health_failover") \cap Of("unhealthy"))

\* "Triggers failover after N consecutive unhealthy events": the unhealthy
\* events counted so far are the last health events the handler received, with
\* no healthy one between them. (A healthy event it lagged behind does not
\* reset the count.)
CountIsConsecutive ==
  LET read == Read("health_failover")
      sinceHealthy == {i \in read : \A j \in read :
                        j > i => log[j].kind # "healthy"}
  IN  unhealthy_count <= Cardinality(sinceHealthy \cap Of("unhealthy"))

\* What the bus adds up to at every step: the types, no number skipped by two
\* publishers of one source, and a failure count that is the run of unhealthy
\* events the handler has read (publish, HealthFailoverHandler::start).
BusInvariant ==
  /\ TypeOK
  /\ NumbersHaveNoGaps
  /\ CountIsConsecutive

\* The events of one kind that h has had, or still has, the chance to read.
Heard(h, k) == {j \in Of(k) : joined[h] > 0 /\ joined[h] <= j} \ missed[h]

\* The i-th event of the log, if it is one that h answers, is answered or lost
\* to lag, while h listens: h's answers keep up with the questions it heard.
Answers(h, i, in, out) ==
  (i \in Of(in) /\ i \in Heard(h, in))
    ~> \/ sender[h] # "live"
       \/ i \in missed[h]
       \/ Cardinality(Of(out)) >= Cardinality({j \in Heard(h, in) : j <= i})

\* Every completed backup on the bus is followed by a key rotation.
BackupsAreEncrypted ==
  \A i \in 1..MaxEvents :
    Answers("backup_encryption", i, "backup_completed", "key_rotated")

\* Every backup task that fires on the bus starts a backup.
TasksStartBackups ==
  \A i \in 1..MaxEvents :
    Answers("scheduler_backup", i, "backup_task_fired", "backup_started")

AlertableHeard(i) ==
  /\ joined["alert_fanin"] > 0 /\ joined["alert_fanin"] <= i /\ i <= Len(log)
  /\ log[i].kind \in Alertable

\* An alertable event sent while the fan-in listens is routed, unless the
\* fan-in lagged behind it or its task has been ended.
AlertsAreRouted ==
  \A i \in 1..MaxEvents :
    AlertableHeard(i)
      ~> \/ i \in alerted \cup missed["alert_fanin"]
         \/ sender["alert_fanin"] # "live"

\* The handlers that run answer what they read: a backup is followed by its
\* encryption, a backup task by its backup and an alertable event by its
\* route, though the answers go to the very channel they are read from.
HandlersAnswer ==
  /\ BackupsAreEncrypted
  /\ TasksStartBackups
  /\ AlertsAreRouted

\* "Alert fan-in (all alertable events -> alerting shim)": an alertable event
\* sent after the wiring is routed, unless the handler was told to stop.
AlertsReachShim ==
  \A i \in 1..MaxEvents :
    AlertableHeard(i)
      ~> (i \in alerted \/ sender["alert_fanin"] = "signalled")

-----------------------------------------------------------------------------
(* The deployments that are model-checked, with two publishers that share   *)
(* sources with each other and with the handlers: handlers that somebody    *)
(* keeps (and may stop), handlers that hold themselves, wire_all_handlers'  *)
(* fan-in, which nobody keeps, and a reader.                                *)
HealthSetup ==
  [wiring |-> <<"health_failover">>, kinds |-> {"unhealthy", "healthy"},
   kept |-> TRUE, readers |-> {}]
AlertSetup ==
  [wiring |-> <<"alert_fanin">>, kept |-> TRUE, readers |-> {},
   kinds |-> {"unhealthy", "healthy", "failover_triggered"}]
EncryptionSetup ==
  [wiring |-> <<"backup_encryption">>, kinds |-> {"backup_completed", "healthy"},
   kept |-> FALSE, readers |-> {}]
SchedulerSetup ==
  [wiring |-> <<"scheduler_backup", "backup_encryption">>, kept |-> FALSE,
   kinds |-> {"backup_task_fired", "other_task_fired"}, readers |-> {}]
WiredSetup ==
  [wiring |-> <<"health_failover", "alert_fanin">>, kinds |-> {"unhealthy"},
   kept |-> FALSE, readers |-> {}]
ReaderSetup ==
  [wiring |-> << >>, kinds |-> {"unhealthy", "healthy"}, kept |-> FALSE,
   readers |-> Readers]

AllSetups == {HealthSetup, AlertSetup, EncryptionSetup, SchedulerSetup,
              WiredSetup, ReaderSetup}
WiredOnly == {WiredSetup}
=============================================================================
