--------------------------- MODULE EventBusProofs ---------------------------
(***************************************************************************)
(* The event bus, for any number of publishers, sources shared between     *)
(* publishers and handlers, and any channel capacity: its numbering, and   *)
(* the failovers that the health handler triggers, for any threshold.      *)
(***************************************************************************)
EXTENDS EventBus, FiniteSetTheorems, TLAPS

USE CapacityAssumption, ThresholdAssumption, MaxEventsAssumption

Numbers == NumbersAreIssued /\ NumbersAreUnique
NumberTypes ==
  /\ sequences \in [Source -> Nat]
  /\ pending \in [Actor -> Event \cup {NoEvent}]
  /\ log \in Seq(Event)

LEMMA SourceOfKind == \A k \in Kind : SourceOf[k] \in Source
BY DEF SourceOf, Kind, PublishedKinds, Source

LEMMA NoEventIsNone == NoEvent.source \notin Source /\ NoEvent \notin Event
<1>1. NoEvent.source = "none"
  BY DEF NoEvent
<1>2. NoEvent.source \notin Source
  BY <1>1 DEF Source
<1>3. \A e \in Event : e.source \in Source
  BY DEF Event
<1>4. QED BY <1>2, <1>3

LEMMA EventFields ==
  \A e \in Event : e.source \in Source /\ e.kind \in Kind /\ e.sequence \in Nat
BY DEF Event

LEMMA LogFields ==
  ASSUME NumberTypes, NEW i \in 1..Len(log)
  PROVE  /\ log[i] \in Event /\ log[i].source \in Source
         /\ log[i].kind \in Kind /\ log[i].sequence \in Nat
<1>1. log[i] \in Event
  BY DEF NumberTypes
<1>2. QED BY <1>1, EventFields

\* Numbering an event under the lock yields a number nobody has, and makes it
\* the greatest one of its source.
LEMMA AssignNumbers ==
  ASSUME NumberTypes, Numbers, NEW a \in Actor, NEW k \in Kind,
         pending[a] = NoEvent, Assign(a, k), log' = log
  PROVE  NumberTypes' /\ Numbers'
<1> DEFINE s == SourceOf[k]
           e == [source |-> s, kind |-> k, sequence |-> sequences[s] + 1]
<1>1. s \in Source /\ sequences[s] \in Nat /\ e \in Event
  BY SourceOfKind DEF NumberTypes, Event
<1>2. /\ sequences' = [sequences EXCEPT ![s] = @ + 1]
      /\ pending' = [pending EXCEPT ![a] = e]
  BY DEF Assign, BumpCounter
<1> HIDE DEF e
<1>3. e.source = s /\ e.sequence = sequences[s] + 1 /\ e # NoEvent
  BY <1>1, NoEventIsNone DEF e
<1> HIDE DEF s
<1>4. \A t \in Source : sequences'[t] = IF t = s THEN sequences[s] + 1
                                                 ELSE sequences[t]
  BY <1>2 DEF NumberTypes
<1>5. \A b \in Actor : pending'[b] = IF b = a THEN e ELSE pending[b]
  BY <1>2 DEF NumberTypes
<1>6. NumberTypes'
  <2>1. sequences' \in [Source -> Nat]
    BY <1>1, <1>2 DEF NumberTypes
  <2>2. pending' \in [Actor -> Event \cup {NoEvent}]
    BY <1>1, <1>2 DEF NumberTypes
  <2>3. QED BY <2>1, <2>2 DEF NumberTypes
<1>7. \A i \in 1..Len(log) : log[i] \in Event /\ log[i].source \in Source
                             /\ log[i].sequence \in Nat
  BY LogFields
<1>8. \A b \in Actor : pending[b] # NoEvent =>
        pending[b].source \in Source /\ pending[b].sequence \in Nat
  BY DEF NumberTypes, Event
<1>9. NumbersAreIssued'
  <2>1. ASSUME NEW i \in 1..Len(log)
        PROVE  log[i].sequence \in 1..sequences'[log[i].source]
    BY <1>1, <1>4, <1>7 DEF NumberTypes, Numbers, NumbersAreIssued
  <2>2. ASSUME NEW b \in Actor, pending'[b] # NoEvent
        PROVE  pending'[b].sequence \in 1..sequences'[pending'[b].source]
    <3>1. CASE b = a
      BY <3>1, <1>1, <1>3, <1>4, <1>5
    <3>2. CASE b # a
      BY <3>2, <2>2, <1>1, <1>4, <1>5, <1>8
      DEF NumberTypes, Numbers, NumbersAreIssued
    <3>3. QED BY <3>1, <3>2
  <2>3. QED BY <2>1, <2>2 DEF NumbersAreIssued
<1>10. NumbersAreUnique'
  <2>1. \A i \in 1..Len(log), b \in Actor :
          log[i].source = pending'[b].source
            => log[i].sequence # pending'[b].sequence
    <3>1. SUFFICES ASSUME NEW i \in 1..Len(log), NEW b \in Actor,
                          log[i].source = pending'[b].source
                   PROVE  log[i].sequence # pending'[b].sequence
      OBVIOUS
    <3>2. CASE b = a
      BY <3>1, <3>2, <1>1, <1>3, <1>5, <1>7 DEF Numbers, NumbersAreIssued
    <3>3. CASE b # a
      BY <3>1, <3>3, <1>5 DEF Numbers, NumbersAreUnique
    <3>4. QED BY <3>2, <3>3
  <2>2. \A b, c \in Actor :
          b # c /\ pending'[b] # NoEvent
            /\ pending'[b].source = pending'[c].source
          => pending'[b].sequence # pending'[c].sequence
    <3>1. SUFFICES ASSUME NEW b \in Actor, NEW c \in Actor, b # c,
                          pending'[b] # NoEvent,
                          pending'[b].source = pending'[c].source
                   PROVE  pending'[b].sequence # pending'[c].sequence
      OBVIOUS
    <3>2. CASE b # a /\ c # a
      BY <3>1, <3>2, <1>5 DEF Numbers, NumbersAreUnique
    <3>3. CASE b = a
      <4>1. pending[c] # NoEvent /\ pending[c].source = s
        BY <3>1, <3>3, <1>1, <1>3, <1>5, NoEventIsNone
      <4>2. QED BY <4>1, <3>1, <3>3, <1>1, <1>3, <1>5, <1>8
                DEF Numbers, NumbersAreIssued
    <3>4. CASE c = a
      <4>1. pending[b] # NoEvent /\ pending[b].source = s
        BY <3>1, <3>4, <1>3, <1>5
      <4>2. QED BY <4>1, <3>1, <3>4, <1>1, <1>3, <1>5, <1>8
                DEF Numbers, NumbersAreIssued
    <3>5. QED BY <3>2, <3>3, <3>4
  <2>3. QED BY <2>1, <2>2 DEF Numbers, NumbersAreUnique
<1>11. QED BY <1>6, <1>9, <1>10 DEF Numbers

\* Sending moves a number from the publisher to the log, or off the bus.
LEMMA SendNumbers ==
  ASSUME NumberTypes, Numbers, NEW a \in Actor, pending[a] # NoEvent,
         log' = Append(log, pending[a]) \/ log' = log,
         sequences' = sequences,
         pending' = [pending EXCEPT ![a] = NoEvent]
  PROVE  NumberTypes' /\ Numbers'
<1> DEFINE e == pending[a]
<1>1. e \in Event /\ e.source \in Source
  BY DEF NumberTypes, Event
<1>2. \A b \in Actor : pending'[b] = IF b = a THEN NoEvent ELSE pending[b]
  BY DEF NumberTypes
<1>3. NumberTypes'
  <2>1. pending' \in [Actor -> Event \cup {NoEvent}]
    BY DEF NumberTypes
  <2>2. log' \in Seq(Event)
    BY <1>1 DEF NumberTypes
  <2>3. QED BY <2>1, <2>2 DEF NumberTypes
<1>4. \A i \in 1..Len(log) : log[i] \in Event /\ log[i].source \in Source
  BY LogFields
<1>5. \A b \in Actor : pending'[b] # NoEvent => b # a /\ pending'[b] = pending[b]
  BY <1>2
<1>6. CASE log' = log
  <2>1. NumbersAreIssued'
    BY <1>5, <1>6 DEF Numbers, NumbersAreIssued
  <2>2. \A i \in 1..Len(log), b \in Actor :
          log[i].source = pending'[b].source
            => log[i].sequence # pending'[b].sequence
    BY <1>2, <1>4, NoEventIsNone DEF Numbers, NumbersAreUnique
  <2>3. \A b, c \in Actor :
          b # c /\ pending'[b] # NoEvent
            /\ pending'[b].source = pending'[c].source
          => pending'[b].sequence # pending'[c].sequence
    <3>1. SUFFICES ASSUME NEW b \in Actor, NEW c \in Actor, b # c,
                          pending'[b] # NoEvent,
                          pending'[b].source = pending'[c].source
                   PROVE  pending'[b].sequence # pending'[c].sequence
      OBVIOUS
    <3>2. b # a /\ pending'[b] = pending[b] /\ pending[b].source \in Source
      BY <1>5, <3>1 DEF NumberTypes, Event
    <3>3. c # a
      BY <3>1, <3>2, <1>2, NoEventIsNone
    <3>4. QED BY <3>1, <3>2, <3>3, <1>2 DEF Numbers, NumbersAreUnique
  <2>4. QED BY <1>3, <1>6, <2>1, <2>2, <2>3 DEF Numbers, NumbersAreUnique
<1>7. CASE log' = Append(log, e)
  <2>1. /\ Len(log') = Len(log) + 1 /\ Len(log) \in Nat
        /\ \A i \in 1..Len(log) : log'[i] = log[i]
        /\ log'[Len(log) + 1] = e
    BY <1>7, <1>1 DEF NumberTypes
  <2>2. \A i \in 1..Len(log') : i \in 1..Len(log) \/ i = Len(log) + 1
    BY <2>1
  <2>3. NumbersAreIssued'
    <3>1. ASSUME NEW i \in 1..Len(log')
          PROVE  log'[i].sequence \in 1..sequences[log'[i].source]
      BY <2>1, <2>2, <1>1 DEF Numbers, NumbersAreIssued
    <3>2. QED BY <3>1, <1>5 DEF Numbers, NumbersAreIssued
  <2>4. \A i, j \in 1..Len(log') :
          log'[i].source = log'[j].source /\ log'[i].sequence = log'[j].sequence
            => i = j
    <3>1. \A i \in 1..Len(log) :
            log[i].source = e.source => log[i].sequence # e.sequence
      BY DEF Numbers, NumbersAreUnique
    <3>2. QED BY <3>1, <2>1, <2>2 DEF Numbers, NumbersAreUnique
  <2>5. \A i \in 1..Len(log'), b \in Actor :
          log'[i].source = pending'[b].source
            => log'[i].sequence # pending'[b].sequence
    <3>1. SUFFICES ASSUME NEW i \in 1..Len(log'), NEW b \in Actor,
                          log'[i].source = pending'[b].source
                   PROVE  log'[i].sequence # pending'[b].sequence
      OBVIOUS
    <3>2. log'[i].source \in Source
      BY <2>1, <2>2, <1>1, <1>4
    <3>3. b # a /\ pending'[b] = pending[b]
      BY <3>1, <3>2, <1>2, NoEventIsNone
    <3>4. CASE i \in 1..Len(log)
      BY <3>1, <3>3, <3>4, <2>1 DEF Numbers, NumbersAreUnique
    <3>5. CASE i = Len(log) + 1
      BY <3>1, <3>3, <3>5, <2>1 DEF Numbers, NumbersAreUnique
    <3>6. QED BY <3>4, <3>5, <2>2
  <2>6. \A b, c \in Actor :
          b # c /\ pending'[b] # NoEvent
            /\ pending'[b].source = pending'[c].source
          => pending'[b].sequence # pending'[c].sequence
    <3>1. SUFFICES ASSUME NEW b \in Actor, NEW c \in Actor, b # c,
                          pending'[b] # NoEvent,
                          pending'[b].source = pending'[c].source
                   PROVE  pending'[b].sequence # pending'[c].sequence
      OBVIOUS
    <3>2. b # a /\ pending'[b] = pending[b] /\ pending[b].source \in Source
      BY <1>5, <3>1 DEF NumberTypes, Event
    <3>3. c # a
      BY <3>1, <3>2, <1>2, NoEventIsNone
    <3>4. QED BY <3>1, <3>2, <3>3, <1>2 DEF Numbers, NumbersAreUnique
  <2>7. QED BY <1>3, <2>3, <2>4, <2>5, <2>6 DEF Numbers, NumbersAreUnique
<1>8. QED BY <1>6, <1>7

LEMMA TypesOfNumbers == TypeOK => NumberTypes
BY DEF TypeOK, NumberTypes

LEMMA HandlersAreActors == Handler \subseteq Actor /\ Handler \subseteq Receiver
BY DEF Actor, Receiver

\* What the readers change keeps its type.
LEMMA SubscribeTypes ==
  ASSUME TypeOK, NEW r \in Receiver, Subscribe(r)
  PROVE  /\ pos' \in [Receiver -> Nat] /\ joined' \in [Receiver -> Nat]
         /\ missed' \in [Receiver -> SUBSET Nat] /\ total_dropped' \in Nat
<1>1. Len(log) + 1 \in Nat
  BY DEF TypeOK
<1>2. QED BY <1>1 DEF TypeOK, Subscribe

LEMMA SkipTypes ==
  ASSUME TypeOK, NEW r \in Receiver, Skip(r)
  PROVE  /\ pos' \in [Receiver -> Nat] /\ joined' \in [Receiver -> Nat]
         /\ missed' \in [Receiver -> SUBSET Nat]
         /\ Oldest - pos[r] \in Nat
<1>1. Len(log) \in Nat /\ pos[r] \in Nat
  BY DEF TypeOK
<1>2. Oldest \in Nat /\ Oldest > pos[r]
  BY <1>1 DEF Oldest, Skip
<1>3. missed[r] \cup pos[r]..(Oldest - 1) \in SUBSET Nat
  BY <1>1, <1>2 DEF TypeOK
<1>4. missed' \in [Receiver -> SUBSET Nat]
  BY <1>3 DEF TypeOK, Skip
<1>5. QED BY <1>1, <1>2, <1>4 DEF TypeOK, Skip

LEMMA TakeTypes ==
  ASSUME TypeOK, NEW r \in Receiver, Take(r)
  PROVE  /\ pos' \in [Receiver -> Nat] /\ joined' \in [Receiver -> Nat]
         /\ missed' \in [Receiver -> SUBSET Nat] /\ total_dropped' \in Nat
         /\ pos[r] \in 1..Len(log) /\ log[pos[r]].kind \in Kind
<1>1. Len(log) \in Nat /\ pos[r] \in Nat
  BY DEF TypeOK
<1>2. pos[r] \in 1..Len(log)
  BY <1>1 DEF Take, Backlog
<1>3. log[pos[r]].kind \in Kind
  BY <1>2, LogFields, TypesOfNumbers
<1>4. QED BY <1>1, <1>2, <1>3 DEF TypeOK, Take

LEMMA InitIInv == Init => IInv
<1> SUFFICES ASSUME Init PROVE IInv
  OBVIOUS
<1> USE DEF Init
<1>1. TypeOK
  <2>1. setup \in Setups /\ Len(setup.wiring) \in Nat
    BY SetupsAssumption
  <2>2. log \in Seq(Event)
    OBVIOUS
  <2>3. missed \in [Receiver -> SUBSET Nat]
    OBVIOUS
  <2>4. QED BY <2>1, <2>2, <2>3 DEF TypeOK
<1>2. Len(log) = 0
  OBVIOUS
<1>3. NumbersAreIssued
  BY <1>2 DEF NumbersAreIssued
<1>4. NumbersAreUnique
  BY <1>2 DEF NumbersAreUnique
<1>5. QED BY <1>1, <1>3, <1>4 DEF IInv

\* A step that numbers and sends nothing leaves the numbers as they were.
LEMMA QuietNumbers ==
  ASSUME NumberTypes, Numbers, UNCHANGED <<sequences, pending, log>>
  PROVE  NumberTypes' /\ Numbers'
BY DEF NumberTypes, Numbers, NumbersAreIssued, NumbersAreUnique

LEMMA NextIInv == IInv /\ [Next]_vars => IInv'
<1> SUFFICES ASSUME IInv, [Next]_vars PROVE IInv'
  OBVIOUS
<1>1. TypeOK /\ NumberTypes /\ Numbers
  BY TypesOfNumbers DEF IInv, Numbers
<1>0. setup' = setup /\ setup \in Setups
  BY DEF Next, vars, IInv, TypeOK
<1> DEFINE ReadTypes == /\ pos' \in [Receiver -> Nat]
                        /\ joined' \in [Receiver -> Nat]
                        /\ missed' \in [Receiver -> SUBSET Nat]
                        /\ total_dropped' \in Nat
           WiringTypes == /\ running' \subseteq Handler
                          /\ sender' \in [Handler ->
                               {"none", "live", "signalled", "dropped"}]
                          /\ wired' \in 0..Len(setup.wiring)
                          /\ unhealthy_count' \in 0..(Threshold - 1)
                          /\ triggers' \in Nat
                          /\ alerted' \subseteq Nat
           Rest == /\ unheard' \subseteq Event /\ total_published' \in Nat
                   /\ budget' \in 0..MaxEvents
<1>2. UNCHANGED readVars => ReadTypes
  BY <1>1 DEF readVars, TypeOK
<1>3. UNCHANGED wiringVars => WiringTypes
  BY <1>1 DEF wiringVars, TypeOK
<1>4. UNCHANGED <<unheard, total_published, budget>> => Rest
  BY <1>1 DEF TypeOK
<1>5. UNCHANGED <<sequences, pending, log>> => NumberTypes' /\ Numbers'
  BY <1>1, QuietNumbers
<1>6. NumberTypes' /\ Numbers' /\ ReadTypes /\ WiringTypes /\ Rest => IInv'
  BY <1>0 DEF IInv, TypeOK, NumberTypes, Numbers
<1>7. ASSUME NEW p \in Publisher, NEW k \in setup.kinds, Publish(p, k)
      PROVE  IInv'
  <2>1. p \in Actor /\ k \in Kind
    BY <1>0, SetupsAssumption DEF Actor, Kind
  <2>2. NumberTypes' /\ Numbers'
    BY <1>1, <1>7, <2>1, AssignNumbers DEF Publish
  <2>3. Rest
    BY <1>1, <1>7 DEF Publish, TypeOK
  <2>4. QED BY <1>2, <1>3, <1>6, <1>7, <2>2, <2>3 DEF Publish
<1>8. ASSUME NEW a \in Actor, Send(a)
      PROVE  IInv'
  <2>1. NumberTypes' /\ Numbers'
    BY <1>1, <1>8, SendNumbers DEF Send
  <2>2. pending[a] \in Event
    BY <1>1, <1>8 DEF TypeOK, Send
  <2>3. Rest
    BY <1>1, <1>8, <2>2 DEF Send, TypeOK
  <2>4. QED BY <1>2, <1>3, <1>6, <1>8, <2>1, <2>3 DEF Send
<1>9. CASE StartHandler
  <2> DEFINE h == setup.wiring[wired + 1]
  <2>0. setup.wiring \in Seq(Handler)
    BY <1>0, SetupsAssumption
  <2>1. Len(setup.wiring) \in Nat /\ wired \in 0..Len(setup.wiring)
    BY <1>1, <2>0 DEF TypeOK
  <2>2. wired + 1 \in 1..Len(setup.wiring)
    BY <1>9, <2>1 DEF StartHandler
  <2>3. h \in Handler
    BY <2>0, <2>2
  <2> HIDE DEF h
  <2>4. ReadTypes
    <3>1. Subscribe(h)
      BY <1>9 DEF StartHandler, h
    <3>2. QED BY <1>1, <2>3, <3>1, SubscribeTypes, HandlersAreActors
  <2>5. WiringTypes
    <3>1. /\ running' = running \cup {h}
          /\ sender' = [sender EXCEPT ![h] = "live"]
          /\ wired' = wired + 1
          /\ UNCHANGED <<unhealthy_count, triggers, alerted>>
      BY <1>9 DEF StartHandler, h
    <3>2. QED BY <1>1, <2>2, <2>3, <3>1 DEF TypeOK
  <2>6. QED BY <1>4, <1>5, <1>6, <1>9, <2>4, <2>5 DEF StartHandler, busVars
<1>10. ASSUME NEW h \in Handler, DropHandler(h) \/ StopHandler(h) \/ LeaveLoop(h)
       PROVE  IInv'
  <2>1. WiringTypes
    BY <1>1, <1>10 DEF DropHandler, StopHandler, LeaveLoop, TypeOK
  <2>2. UNCHANGED <<busVars, readVars, budget>>
    BY <1>10 DEF DropHandler, StopHandler, LeaveLoop
  <2>3. QED BY <1>2, <1>4, <1>5, <1>6, <2>1, <2>2 DEF busVars
<1>11. ASSUME NEW h \in Handler, HandlerLags(h)
       PROVE  IInv'
  <2>1. ReadTypes
    BY <1>1, <1>11, SkipTypes, HandlersAreActors DEF HandlerLags, TypeOK
  <2>2. QED BY <1>3, <1>4, <1>5, <1>6, <1>11, <2>1 DEF HandlerLags, busVars
<1>12. CASE HealthFailoverReads
  <2> DEFINE h == "health_failover"
             n == NextCount(log[pos[h]].kind, unhealthy_count)
  <2>1. h \in Handler /\ h \in Actor /\ h \in Receiver /\ pending[h] = NoEvent
    BY <1>1, <1>12, HandlersAreActors
    DEF HealthFailoverReads, Ready, TypeOK
  <2>2. Take(h)
    BY <1>12 DEF HealthFailoverReads
  <2>3. ReadTypes
    BY <1>1, <2>1, <2>2, TakeTypes
  <2>4. n \in Nat
    BY <1>1 DEF NextCount, TypeOK
  <2>5. /\ \/ /\ n >= Threshold
              /\ Assign(h, "failover_triggered")
              /\ unhealthy_count' = 0
              /\ triggers' = triggers + 1
           \/ /\ n < Threshold
              /\ unhealthy_count' = n
              /\ UNCHANGED <<sequences, pending, triggers>>
        /\ UNCHANGED <<log, unheard, total_published, running, sender, wired,
                       alerted, budget>>
    BY <1>12 DEF HealthFailoverReads, CountAfterTrigger
  <2> HIDE DEF h, n
  <2>6. WiringTypes
    BY <1>1, <2>4, <2>5 DEF TypeOK
  <2>7. NumberTypes' /\ Numbers'
    <3>1. "failover_triggered" \in Kind
      BY DEF Kind, PublishedKinds
    <3>2. QED BY <1>1, <1>5, <2>1, <2>5, <3>1, AssignNumbers
  <2>8. QED BY <1>4, <1>6, <2>3, <2>5, <2>6, <2>7
<1>13. ASSUME NEW h, NEW in, NEW out \in Kind, Forward(h, in, out)
       PROVE  IInv'
  <2>1. h \in Actor /\ h \in Receiver /\ pending[h] = NoEvent
    BY <1>1, <1>13, HandlersAreActors DEF Forward, Ready, TypeOK
  <2>2. ReadTypes
    BY <1>1, <1>13, <2>1, TakeTypes DEF Forward
  <2>3. NumberTypes' /\ Numbers'
    BY <1>1, <1>5, <1>13, <2>1, AssignNumbers DEF Forward
  <2>4. QED BY <1>3, <1>4, <1>6, <1>13, <2>2, <2>3 DEF Forward
<1>14. CASE AlertFanInReads
  <2> DEFINE h == "alert_fanin"
  <2>1. h \in Receiver /\ Take(h)
    BY <1>1, <1>14, HandlersAreActors DEF AlertFanInReads, Ready, TypeOK
  <2>2. ReadTypes
    BY <1>1, <2>1, TakeTypes
  <2>3. pos[h] \in Nat
    BY <1>1, <2>1 DEF TypeOK
  <2>4. WiringTypes
    BY <1>1, <1>14, <2>3 DEF AlertFanInReads, TypeOK
  <2>5. QED BY <1>4, <1>5, <1>6, <1>14, <2>2, <2>4 DEF AlertFanInReads, busVars
<1>15. ASSUME NEW r \in setup.readers,
              SubscribeFiltered(r) \/ FilteredLags(r) \/ FilteredReads(r)
       PROVE  IInv'
  <2>1. r \in Receiver
    BY <1>0, SetupsAssumption DEF Receiver
  <2>2. CASE SubscribeFiltered(r)
    <3>1. ReadTypes
      BY <1>1, <2>1, <2>2, SubscribeTypes DEF SubscribeFiltered
    <3>2. QED BY <1>3, <1>4, <1>5, <1>6, <2>2, <3>1 DEF SubscribeFiltered, busVars
  <2>3. CASE FilteredLags(r)
    <3>1. Oldest - pos[r] \in Nat /\ total_dropped \in Nat
          /\ Oldest \in Int /\ pos[r] \in Int
      <4>1. pos[r] \in Nat /\ Len(log) \in Nat
        BY <1>1, <2>1 DEF TypeOK
      <4>2. QED BY <1>1, <2>1, <2>3, <4>1, SkipTypes
                DEF FilteredLags, TypeOK, Oldest
    <3>2. total_dropped' \in Nat
      BY <2>3, <3>1 DEF FilteredLags
    <3>3. ReadTypes
      BY <1>1, <2>1, <2>3, <3>2, SkipTypes DEF FilteredLags
    <3>4. QED BY <1>3, <1>4, <1>5, <1>6, <2>3, <3>3 DEF FilteredLags, busVars
  <2>4. CASE FilteredReads(r)
    <3>1. ReadTypes
      BY <1>1, <2>1, <2>4, TakeTypes DEF FilteredReads
    <3>2. QED BY <1>3, <1>4, <1>5, <1>6, <2>4, <3>1 DEF FilteredReads, busVars
  <2>5. QED BY <1>15, <2>2, <2>3, <2>4
<1>16. ASSUME NEW h \in Handler, HandlerStep(h)
       PROVE  IInv'
  <2>1. "key_rotated" \in Kind /\ "backup_started" \in Kind
    BY DEF Kind
  <2>2. BackupEncryptionReads \/ SchedulerBackupReads => IInv'
    BY <2>1, <1>13 DEF BackupEncryptionReads, SchedulerBackupReads
  <2>3. QED BY <1>10, <1>11, <1>12, <1>14, <1>16, <2>2 DEF HandlerStep
<1>17. CASE UNCHANGED vars
  BY <1>2, <1>3, <1>4, <1>5, <1>6, <1>17 DEF vars, busVars
<1>18. QED
  BY <1>7, <1>8, <1>9, <1>10, <1>15, <1>16, <1>17 DEF Next, Step

\* The inductive invariant holds in every reachable state.
THEOREM EventBusInvariant == Spec => []IInv
BY InitIInv, NextIInv, PTL DEF Spec

\* Every variable of the bus and of the handlers keeps its type; in
\* particular the unhealthy count stays below the failover threshold.
THEOREM EventBusTypes == Spec => []TypeOK
<1>1. IInv => TypeOK
  BY DEF IInv
<1>2. QED BY <1>1, EventBusInvariant, PTL

\* publish gives no two events of a source the same sequence number, however
\* many publishers and handlers race between numbering and sending.
THEOREM UniqueNumbers == Spec => []NumbersAreUnique
<1>1. IInv => NumbersAreUnique
  BY DEF IInv
<1>2. QED BY <1>1, EventBusInvariant, PTL

-----------------------------------------------------------------------------
(* No number is skipped.                                                   *)

Used(s, n) ==
  \/ \E i \in 1..Len(log) : log[i].source = s /\ log[i].sequence = n
  \/ \E e \in unheard : e.source = s /\ e.sequence = n
  \/ \E a \in Actor : pending[a].source = s /\ pending[a].sequence = n
GapFree == \A s \in Source : \A n : Used(s, n) <=> n \in 1..sequences[s]

LEMMA GapFreeMeans == GapFree => NumbersHaveNoGaps
<1> SUFFICES ASSUME GapFree, NEW s \in Source
             PROVE  {log[i].sequence : i \in Logged(s)} \cup {e.sequence : e \in Unheard(s)}
                      \cup {pending[a].sequence : a \in InFlight(s)} = 1..sequences[s]
  BY DEF NumbersHaveNoGaps
<1> DEFINE All == {log[i].sequence : i \in Logged(s)} \cup {e.sequence : e \in Unheard(s)}
                    \cup {pending[a].sequence : a \in InFlight(s)}
<1>1. \A n : n \in All <=> Used(s, n)
  BY Zenon DEF Logged, Unheard, InFlight, Used
<1>2. \A n : n \in All <=> n \in 1..sequences[s]
  BY <1>1, Zenon DEF GapFree
<1> HIDE DEF All
<1>3. All = 1..sequences[s]
  BY <1>2
<1> QED
  BY <1>3 DEF All

LEMMA AssignGapFree ==
  ASSUME NumberTypes, GapFree, NEW a \in Actor, NEW k \in Kind,
         pending[a] = NoEvent, Assign(a, k), log' = log, unheard' = unheard
  PROVE  GapFree'
<1> DEFINE t == SourceOf[k]
           e == [source |-> t, kind |-> k, sequence |-> sequences[t] + 1]
<1>1. t \in Source /\ sequences[t] \in Nat
  BY SourceOfKind DEF NumberTypes
<1>2. /\ sequences' = [sequences EXCEPT ![t] = @ + 1]
      /\ pending' = [pending EXCEPT ![a] = e]
  BY DEF Assign, BumpCounter
<1>3. e.source = t /\ e.sequence = sequences[t] + 1
  OBVIOUS
<1> HIDE DEF e, t
<1>4. \A u \in Source : sequences'[u] = IF u = t THEN sequences[t] + 1 ELSE sequences[u]
  BY <1>2 DEF NumberTypes
<1>5. \A b \in Actor : pending'[b] = IF b = a THEN e ELSE pending[b]
  BY <1>2 DEF NumberTypes
<1> SUFFICES ASSUME NEW s \in Source, NEW n
             PROVE  Used(s, n)' <=> n \in 1..sequences'[s]
  BY DEF GapFree
<1>6. (\E b \in Actor : pending'[b].source = s /\ pending'[b].sequence = n)
        <=> \/ \E b \in Actor : pending[b].source = s /\ pending[b].sequence = n
            \/ s = t /\ n = sequences[t] + 1
  <2>1. pending[a].source # s
    BY NoEventIsNone
  <2> QED
    BY <1>3, <1>5, <2>1
<1>7. Used(s, n)' <=> Used(s, n) \/ (s = t /\ n = sequences[t] + 1)
  BY <1>6 DEF Used
<1>8. Used(s, n) <=> n \in 1..sequences[s]
  BY DEF GapFree
<1>9. CASE s = t
  BY <1>1, <1>4, <1>7, <1>8, <1>9
<1>10. CASE s # t
  BY <1>4, <1>7, <1>8, <1>10
<1> QED
  BY <1>9, <1>10

LEMMA SendGapFree ==
  ASSUME NumberTypes, GapFree, NEW a \in Actor, pending[a] # NoEvent,
         \/ log' = Append(log, pending[a]) /\ unheard' = unheard
         \/ log' = log /\ unheard' = unheard \cup {pending[a]},
         sequences' = sequences,
         pending' = [pending EXCEPT ![a] = NoEvent]
  PROVE  GapFree'
<1>1. \A b \in Actor : pending'[b] = IF b = a THEN NoEvent ELSE pending[b]
  BY DEF NumberTypes
<1> SUFFICES ASSUME NEW s \in Source, NEW n
             PROVE  Used(s, n)' <=> Used(s, n)
  BY DEF GapFree
<1> DEFINE Mine == pending[a].source = s /\ pending[a].sequence = n
           Sent == \E i \in 1..Len(log) : log[i].source = s /\ log[i].sequence = n
           Lost == \E e \in unheard : e.source = s /\ e.sequence = n
           Held == \E b \in Actor : pending[b].source = s /\ pending[b].sequence = n
           Kept == \E b \in Actor : pending'[b].source = s /\ pending'[b].sequence = n
           SentNow == \E i \in 1..Len(log') : log'[i].source = s /\ log'[i].sequence = n
           LostNow == \E e \in unheard' : e.source = s /\ e.sequence = n
<1>2. Held <=> Kept \/ Mine
  <2>1. NoEvent.source # s
    BY NoEventIsNone
  <2> QED
    BY <1>1, <2>1
<1>3. SentNow \/ LostNow <=> Sent \/ Lost \/ Mine
  <2>1. CASE log' = Append(log, pending[a]) /\ unheard' = unheard
    <3>1. pending[a] \in Event
      BY DEF NumberTypes
    <3>2. /\ Len(log') = Len(log) + 1 /\ Len(log) \in Nat
          /\ \A i \in 1..Len(log) : log'[i] = log[i]
          /\ log'[Len(log) + 1] = pending[a]
      BY <2>1, <3>1 DEF NumberTypes
    <3>3. \A i : i \in 1..Len(log') <=> i \in 1..Len(log) \/ i = Len(log) + 1
      BY <3>2
    <3>4. SentNow <=> Sent \/ Mine
      BY <3>2, <3>3
    <3> QED
      BY <2>1, <3>4
  <2>2. CASE log' = log /\ unheard' = unheard \cup {pending[a]}
    BY <2>2
  <2> QED
    BY <2>1, <2>2
<1>4. Used(s, n) <=> Sent \/ Lost \/ Held
  BY DEF Used
<1>5. Used(s, n)' <=> SentNow \/ LostNow \/ Kept
  BY DEF Used
<1> HIDE DEF Mine, Sent, Lost, Held, Kept, SentNow, LostNow
<1> QED
  BY <1>2, <1>3, <1>4, <1>5

\* Every step numbers one event, sends one, or leaves numbers alone.
LEMMA NumberingSteps ==
  ASSUME IInv, [Next]_vars
  PROVE  \/ UNCHANGED <<sequences, pending, log, unheard>>
         \/ \E a \in Actor, k \in Kind : /\ pending[a] = NoEvent /\ Assign(a, k)
                                         /\ UNCHANGED <<log, unheard>>
         \/ \E a \in Actor : Send(a)
<1> DEFINE Quiet == UNCHANGED <<sequences, pending, log, unheard>>
           Numbered == \E a \in Actor, k \in Kind :
             pending[a] = NoEvent /\ Assign(a, k) /\ UNCHANGED <<log, unheard>>
<1>1. ASSUME NEW p \in Publisher, NEW k \in setup.kinds, Publish(p, k)
      PROVE  Numbered
  <2>1. p \in Actor /\ k \in Kind
    BY SetupsAssumption DEF IInv, TypeOK, Actor, Kind
  <2>2. pending[p] = NoEvent /\ Assign(p, k) /\ UNCHANGED <<log, unheard>>
    BY <1>1 DEF Publish
  <2> QED
    BY <2>1, <2>2, Zenon
<1>2. CASE StartHandler
  BY <1>2 DEF StartHandler, busVars
<1>3. ASSUME NEW h \in Handler, DropHandler(h) \/ StopHandler(h) PROVE Quiet
  BY <1>3 DEF DropHandler, StopHandler, busVars
<1>4. ASSUME NEW h \in Handler, HandlerStep(h) PROVE Quiet \/ Numbered
  <2>1. HandlerLags(h) \/ LeaveLoop(h) \/ AlertFanInReads => Quiet
    BY DEF HandlerLags, LeaveLoop, AlertFanInReads, busVars
  <2>2. ASSUME NEW g \in Handler, NEW in, NEW out \in Kind, Forward(g, in, out)
        PROVE  Quiet \/ Numbered
    <3>1. g \in Actor /\ pending[g] = NoEvent
      BY <2>2, HandlersAreActors DEF Forward, Ready
    <3>2. UNCHANGED <<log, unheard>> /\ (Assign(g, out) \/ UNCHANGED <<sequences, pending>>)
      BY <2>2 DEF Forward
    <3> QED
      BY <3>1, <3>2, Zenon
  <2>3. BackupEncryptionReads \/ SchedulerBackupReads => Quiet \/ Numbered
    <3>1. "key_rotated" \in Kind /\ "backup_started" \in Kind
          /\ "backup_encryption" \in Handler /\ "scheduler_backup" \in Handler
      BY DEF Kind, Handler
    <3> QED
      BY <2>2, <3>1, Zenon DEF BackupEncryptionReads, SchedulerBackupReads
  <2>4. HealthFailoverReads => Quiet \/ Numbered
    <3> SUFFICES ASSUME HealthFailoverReads PROVE Quiet \/ Numbered
      OBVIOUS
    <3> DEFINE g == "health_failover"
    <3>1. g \in Actor /\ "failover_triggered" \in Kind
      BY HandlersAreActors DEF Handler, Kind, PublishedKinds
    <3>2. pending[g] = NoEvent /\ UNCHANGED <<log, unheard>>
          /\ (Assign(g, "failover_triggered") \/ UNCHANGED <<sequences, pending>>)
      BY DEF HealthFailoverReads, Ready
    <3> QED
      BY <3>1, <3>2, Zenon
  <2> QED
    BY <1>4, <2>1, <2>3, <2>4 DEF HandlerStep
<1>5. ASSUME NEW r, SubscribeFiltered(r) \/ FilteredLags(r) \/ FilteredReads(r)
      PROVE  Quiet
  BY <1>5 DEF SubscribeFiltered, FilteredLags, FilteredReads, busVars
<1>6. UNCHANGED vars => Quiet
  BY DEF vars, busVars
<1> QED
  BY <1>1, <1>2, <1>3, <1>4, <1>5, <1>6, Zenon DEF Next, Step

LEMMA GapFreeStep == IInv /\ GapFree /\ [Next]_vars => GapFree'
<1> SUFFICES ASSUME IInv, GapFree, [Next]_vars PROVE GapFree'
  OBVIOUS
<1>1. NumberTypes
  BY TypesOfNumbers DEF IInv
<1>2. CASE UNCHANGED <<sequences, pending, log, unheard>>
  BY <1>2 DEF GapFree, Used
<1>3. ASSUME NEW a \in Actor, NEW k \in Kind,
             pending[a] = NoEvent /\ Assign(a, k) /\ UNCHANGED <<log, unheard>>
      PROVE  GapFree'
  BY <1>1, <1>3, AssignGapFree
<1>4. ASSUME NEW a \in Actor, Send(a) PROVE GapFree'
  BY <1>1, <1>4, SendGapFree DEF Send
<1> QED
  BY <1>2, <1>3, <1>4, NumberingSteps, Zenon

LEMMA GapFreeInit == Init => GapFree
<1> SUFFICES ASSUME Init, NEW s \in Source, NEW n
             PROVE  Used(s, n) <=> n \in 1..sequences[s]
  BY DEF GapFree
<1>1. Len(log) = 0 /\ unheard = {} /\ sequences[s] = 0
  BY DEF Init
<1>2. \A a \in Actor : pending[a].source # s
  BY NoEventIsNone DEF Init
<1> QED
  BY <1>1, <1>2 DEF Used


-----------------------------------------------------------------------------
(* What the health handler has read and counted.                           *)

HF == "health_failover"
ReadUnhealthy == Read(HF) \cap Of("unhealthy")
SinceHealthy ==
  {i \in Read(HF) : \A j \in Read(HF) : j > i => log[j].kind # "healthy"} \cap Of("unhealthy")

\* The handler subscribes once; it has read what it has passed and not lost.
HandlerInv ==
  /\ pos[HF] <= Len(log) + 1 /\ joined[HF] <= pos[HF]
  /\ \A i \in missed[HF] : i < pos[HF]
  /\ pos[HF] = 0 => unhealthy_count = 0 /\ triggers = 0
  /\ pos[HF] > 0 => \E i \in 1..wired : setup.wiring[i] = HF
  /\ Threshold * triggers + unhealthy_count <= Cardinality(ReadUnhealthy)
  /\ unhealthy_count <= Cardinality(SinceHealthy)

LEMMA HFReceives == HF \in Handler /\ HF \in Receiver /\ HF \in Actor
BY HandlersAreActors DEF HF, Handler

LEMMA HandlerTypes ==
  ASSUME TypeOK
  PROVE  /\ Len(log) \in Nat /\ pos[HF] \in Nat /\ joined[HF] \in Nat
         /\ missed[HF] \in SUBSET Nat
         /\ unhealthy_count \in 0..(Threshold - 1) /\ triggers \in Nat
         /\ wired \in Nat
BY HFReceives, SetupsAssumption DEF TypeOK

LEMMA ReadIs ==
  ASSUME TypeOK, NEW i
  PROVE  i \in Read(HF) <=> /\ i \in 1..Len(log) /\ joined[HF] <= i /\ i < pos[HF]
                            /\ i \notin missed[HF]
BY DEF Read

LEMMA CountsAreFinite ==
  ASSUME TypeOK
  PROVE  /\ IsFiniteSet(ReadUnhealthy) /\ Cardinality(ReadUnhealthy) \in Nat
         /\ IsFiniteSet(SinceHealthy) /\ Cardinality(SinceHealthy) \in Nat
<1>1. IsFiniteSet(1..Len(log))
  BY HandlerTypes, FS_Interval
<1>2. ReadUnhealthy \in SUBSET (1..Len(log)) /\ SinceHealthy \in SUBSET (1..Len(log))
  BY DEF ReadUnhealthy, SinceHealthy, Of
<1>3. IsFiniteSet(ReadUnhealthy) /\ IsFiniteSet(SinceHealthy)
  BY <1>1, <1>2, FS_Subset
<1> QED
  BY <1>3, FS_CardinalityType

Countable ==
  /\ Cardinality(ReadUnhealthy) \in Nat /\ Cardinality(SinceHealthy) \in Nat
  /\ pos[HF] \in Nat /\ Len(log) \in Nat /\ wired \in Nat

LEMMA NextCounts ==
  TypeOK' => /\ Cardinality(ReadUnhealthy') \in Nat /\ Cardinality(SinceHealthy') \in Nat
             /\ pos'[HF] \in Nat /\ Len(log') \in Nat /\ wired' \in Nat
<1>1. TypeOK => Countable
  BY CountsAreFinite, HandlerTypes DEF Countable
<1>2. TypeOK' => Countable'
  BY <1>1, PTL
<1> QED
  BY <1>2 DEF Countable

\* The same events, read: what is appended lies ahead of the handler.
LEMMA SameRead ==
  ASSUME TypeOK, TypeOK', Read(HF)' = Read(HF),
         \A i \in Read(HF) : i \in 1..Len(log) /\ i \in 1..Len(log') /\ log'[i] = log[i]
  PROVE  ReadUnhealthy' = ReadUnhealthy /\ SinceHealthy' = SinceHealthy
<1>1. \A i : i \in ReadUnhealthy' <=> i \in ReadUnhealthy
  BY DEF ReadUnhealthy, Of
<1>2. \A i : i \in SinceHealthy' <=> i \in SinceHealthy
  BY DEF SinceHealthy, Of
<1> QED
  BY <1>1, <1>2

LEMMA GrowingLog ==
  ASSUME TypeOK, TypeOK', pos[HF] <= Len(log) + 1, Len(log) <= Len(log'),
         \A i \in 1..Len(log) : log'[i] = log[i],
         pos'[HF] = pos[HF], joined'[HF] = joined[HF], missed'[HF] = missed[HF]
  PROVE  ReadUnhealthy' = ReadUnhealthy /\ SinceHealthy' = SinceHealthy
<1>1. Len(log) \in Nat /\ Len(log') \in Nat /\ pos[HF] \in Nat
  BY HandlerTypes
<1>2. \A i : i \in Read(HF) => i \in 1..Len(log) /\ i \in 1..Len(log') /\ log'[i] = log[i]
  BY <1>1, ReadIs
<1>3. \A i : i \in Read(HF)' <=> i \in Read(HF)
  <2> TAKE i
  <2>1. i \in Read(HF)' <=> /\ i \in 1..Len(log') /\ joined'[HF] <= i /\ i < pos'[HF]
                            /\ i \notin missed'[HF]
    BY DEF Read
  <2>2. i < pos[HF] => (i \in 1..Len(log') <=> i \in 1..Len(log))
    BY <1>1
  <2> QED
    BY <2>1, <2>2, ReadIs
<1>4. Read(HF)' = Read(HF)
  BY <1>3
<1> QED
  BY <1>2, <1>4, SameRead

\* Lagging moves on without reading.
LEMMA SkippedRead ==
  ASSUME TypeOK, TypeOK', log' = log, Skip(HF), pos[HF] <= Len(log) + 1
  PROVE  /\ ReadUnhealthy' = ReadUnhealthy /\ SinceHealthy' = SinceHealthy
         /\ pos'[HF] <= Len(log) + 1 /\ pos'[HF] > pos[HF] /\ pos[HF] > 0
         /\ joined'[HF] = joined[HF]
         /\ (\A i \in missed[HF] : i < pos[HF]) => \A i \in missed'[HF] : i < pos'[HF]
<1>1. Len(log) \in Nat /\ pos[HF] \in Nat /\ joined[HF] \in Nat
      /\ missed[HF] \in SUBSET Nat
  BY HandlerTypes
<1>2. Oldest \in Nat /\ Oldest <= Len(log) + 1 /\ pos[HF] < Oldest /\ pos[HF] > 0
  BY <1>1 DEF Oldest, Skip, Backlog
<1>3. /\ missed'[HF] = missed[HF] \cup pos[HF]..(Oldest - 1)
      /\ pos'[HF] = Oldest /\ joined'[HF] = joined[HF]
  BY HFReceives DEF Skip, TypeOK
<1>4. \A i : i \in Read(HF)' <=> i \in Read(HF)
  <2> TAKE i
  <2>1. i \in Read(HF)' <=> /\ i \in 1..Len(log) /\ joined[HF] <= i /\ i < Oldest
                            /\ i \notin missed[HF] /\ i \notin pos[HF]..(Oldest - 1)
    BY <1>3 DEF Read
  <2>2. i \in 1..Len(log)
          => (i < Oldest /\ i \notin pos[HF]..(Oldest - 1) <=> i < pos[HF])
    BY <1>1, <1>2
  <2> QED
    BY <2>1, <2>2, ReadIs
<1>5. Read(HF)' = Read(HF)
  BY <1>4
<1>6. \A i \in Read(HF) : i \in 1..Len(log)
  BY ReadIs
<1>7. ReadUnhealthy' = ReadUnhealthy /\ SinceHealthy' = SinceHealthy
  BY <1>5, <1>6, SameRead
<1> QED
  BY <1>1, <1>2, <1>3, <1>7

\* Taking the next event adds it to what was read.
LEMMA TakenRead ==
  ASSUME TypeOK, TypeOK', log' = log, Take(HF), \A i \in missed[HF] : i < pos[HF],
         joined[HF] <= pos[HF]
  PROVE  /\ pos[HF] \in 1..Len(log) /\ pos'[HF] = pos[HF] + 1
         /\ joined'[HF] = joined[HF] /\ missed'[HF] = missed[HF]
         /\ log[pos[HF]].kind = "unhealthy"
              => Cardinality(ReadUnhealthy') = Cardinality(ReadUnhealthy) + 1
         /\ log[pos[HF]].kind # "unhealthy" => ReadUnhealthy' = ReadUnhealthy
         /\ log[pos[HF]].kind = "unhealthy"
              => Cardinality(SinceHealthy') = Cardinality(SinceHealthy) + 1
         /\ log[pos[HF]].kind \notin {"unhealthy", "healthy"}
              => SinceHealthy' = SinceHealthy
<1> DEFINE p == pos[HF]
<1>1. Len(log) \in Nat /\ p \in Nat /\ joined[HF] \in Nat /\ missed[HF] \in SUBSET Nat
  BY HandlerTypes
<1>2. p \in 1..Len(log)
  BY <1>1 DEF Take, Backlog
<1>3. pos'[HF] = p + 1 /\ joined'[HF] = joined[HF] /\ missed'[HF] = missed[HF]
  BY HFReceives DEF Take, TypeOK
<1>4. p \notin Read(HF)
  BY <1>1, ReadIs
<1>5. \A i : i \in Read(HF)' <=> i \in Read(HF) \/ i = p
  <2> TAKE i
  <2>1. i \in Read(HF)' <=> /\ i \in 1..Len(log) /\ joined[HF] <= i /\ i < p + 1
                            /\ i \notin missed[HF]
    BY <1>3 DEF Read
  <2>2. i \in 1..Len(log) => (i < p + 1 <=> i < p \/ i = p)
    BY <1>1
  <2>3. p \notin missed[HF]
    BY <1>1
  <2> QED
    BY <1>2, <2>1, <2>2, <2>3, ReadIs
<1>6. \A i \in Read(HF) : i \in 1..Len(log) /\ i < p
  BY ReadIs
<1> HIDE DEF p
<1>7. \A i : i \in Of("unhealthy") <=> i \in 1..Len(log) /\ log[i].kind = "unhealthy"
  BY DEF Of
<1>8. Of("unhealthy")' = Of("unhealthy")
  BY DEF Of
<1>9. \A i : i \in ReadUnhealthy' <=> i \in ReadUnhealthy \/ (i = p /\ log[p].kind = "unhealthy")
  BY <1>2, <1>5, <1>7, <1>8 DEF ReadUnhealthy
<1>10. log[p].kind = "unhealthy" => ReadUnhealthy' = ReadUnhealthy \cup {p}
  BY <1>9
<1>11. log[p].kind # "unhealthy" => ReadUnhealthy' = ReadUnhealthy
  BY <1>9
<1>12. p \notin ReadUnhealthy /\ p \notin SinceHealthy
  BY <1>4 DEF ReadUnhealthy, SinceHealthy
<1>13. log[p].kind # "healthy" =>
         \A i : i \in SinceHealthy'
                  <=> i \in SinceHealthy \/ (i = p /\ log[p].kind = "unhealthy")
  <2> SUFFICES ASSUME log[p].kind # "healthy", NEW i
               PROVE  i \in SinceHealthy'
                        <=> i \in SinceHealthy \/ (i = p /\ log[p].kind = "unhealthy")
    OBVIOUS
  <2>1. i \in SinceHealthy' <=> /\ i \in Read(HF) \/ i = p
                                /\ \A j : (j \in Read(HF) \/ j = p) /\ j > i
                                            => log[j].kind # "healthy"
                                /\ i \in Of("unhealthy")
    BY <1>5, <1>8 DEF SinceHealthy
  <2>2. i \in SinceHealthy <=> /\ i \in Read(HF)
                               /\ \A j \in Read(HF) : j > i => log[j].kind # "healthy"
                               /\ i \in Of("unhealthy")
    BY DEF SinceHealthy
  <2>3. \A j \in Read(HF) : ~(j > p)
    BY <1>1, <1>6 DEF p
  <2>4. ~(p > p)
    BY <1>1 DEF p
  <2>5. CASE i = p
    BY <1>2, <1>4, <1>7, <2>1, <2>2, <2>3, <2>4, <2>5
  <2>6. CASE i # p
    BY <2>1, <2>2, <2>6
  <2> QED
    BY <2>5, <2>6
<1>14. log[p].kind = "unhealthy" => SinceHealthy' = SinceHealthy \cup {p}
  BY <1>13
<1>15. log[p].kind \notin {"unhealthy", "healthy"} => SinceHealthy' = SinceHealthy
  BY <1>13
<1>16. log[p].kind = "unhealthy"
         => /\ Cardinality(ReadUnhealthy') = Cardinality(ReadUnhealthy) + 1
            /\ Cardinality(SinceHealthy') = Cardinality(SinceHealthy) + 1
  BY <1>10, <1>12, <1>14, CountsAreFinite, FS_AddElement
<1> QED
  BY <1>2, <1>3, <1>11, <1>15, <1>16 DEF p

\* A step that does not move the handler.
LEMMA HandlerUnmoved ==
  ASSUME TypeOK, TypeOK', HandlerInv,
         Len(log) <= Len(log'), \A i \in 1..Len(log) : log'[i] = log[i],
         pos'[HF] = pos[HF], joined'[HF] = joined[HF], missed'[HF] = missed[HF],
         UNCHANGED <<setup, unhealthy_count, triggers>>, wired <= wired'
  PROVE  HandlerInv'
<1>1. ReadUnhealthy' = ReadUnhealthy /\ SinceHealthy' = SinceHealthy
  BY GrowingLog DEF HandlerInv
<1>2. Len(log) \in Nat /\ Len(log') \in Nat /\ pos[HF] \in Nat /\ wired \in Nat
      /\ wired' \in Nat
  BY HandlerTypes, NextCounts
<1>3. pos'[HF] <= Len(log') + 1 /\ joined'[HF] <= pos'[HF]
  BY <1>2 DEF HandlerInv
<1>4. \A i \in missed'[HF] : i < pos'[HF]
  BY DEF HandlerInv
<1>5. pos'[HF] = 0 => unhealthy_count' = 0 /\ triggers' = 0
  BY DEF HandlerInv
<1>6. pos'[HF] > 0 => \E i \in 1..wired' : setup'.wiring[i] = HF
  BY <1>2 DEF HandlerInv
<1>7. /\ Threshold * triggers' + unhealthy_count' <= Cardinality(ReadUnhealthy')
      /\ unhealthy_count' <= Cardinality(SinceHealthy')
  BY <1>1 DEF HandlerInv
<1> QED
  BY <1>3, <1>4, <1>5, <1>6, <1>7 DEF HandlerInv

\* The other receivers move only themselves.
LEMMA OthersMove ==
  ASSUME TypeOK, NEW r \in Receiver, r # HF, Subscribe(r) \/ Skip(r) \/ Take(r)
  PROVE  pos'[HF] = pos[HF] /\ joined'[HF] = joined[HF] /\ missed'[HF] = missed[HF]
BY HFReceives DEF TypeOK, Subscribe, Skip, Take

LEMMA HandlerStarts ==
  ASSUME TypeOK, TypeOK', HandlerInv, StartHandler, UNCHANGED setup
  PROVE  HandlerInv'
<1> DEFINE h == setup.wiring[wired + 1]
<1>1. setup.wiring \in Seq(Handler)
      /\ \A i, j \in DOMAIN setup.wiring : setup.wiring[i] = setup.wiring[j] => i = j
  BY SetupsAssumption DEF TypeOK
<1>2. Len(setup.wiring) \in Nat /\ wired \in Nat /\ wired + 1 \in 1..Len(setup.wiring)
      /\ wired' = wired + 1
  BY <1>1, HandlerTypes DEF StartHandler
<1>3. h \in Handler /\ Subscribe(h) /\ h \in Receiver
  BY <1>1, <1>2, HandlersAreActors DEF StartHandler
<1>4. log' = log /\ UNCHANGED <<unhealthy_count, triggers>>
  BY DEF StartHandler, busVars
<1>5. CASE h # HF
  <2>1. pos'[HF] = pos[HF] /\ joined'[HF] = joined[HF] /\ missed'[HF] = missed[HF]
    BY <1>3, <1>5, OthersMove
  <2>2. wired <= wired' /\ Len(log) <= Len(log')
    BY <1>2, <1>4, HandlerTypes
  <2> QED
    BY <1>4, <2>1, <2>2, HandlerUnmoved
<1>6. CASE h = HF
  <2>1. pos[HF] = 0
    <3>1. \A i \in 1..wired : setup.wiring[i] # HF
      <4> SUFFICES ASSUME NEW i \in 1..wired, setup.wiring[i] = HF PROVE FALSE
        OBVIOUS
      <4>1. i \in DOMAIN setup.wiring /\ wired + 1 \in DOMAIN setup.wiring /\ i # wired + 1
        BY <1>1, <1>2
      <4> QED
        BY <1>1, <1>6, <4>1
    <3> QED
      BY <3>1, HandlerTypes DEF HandlerInv
  <2>2. unhealthy_count' = 0 /\ triggers' = 0 /\ \A i \in missed[HF] : i < 0
    BY <1>4, <2>1 DEF HandlerInv
  <2>3. /\ pos'[HF] = Len(log) + 1 /\ joined'[HF] = Len(log) + 1
        /\ missed'[HF] = missed[HF]
    BY <1>3, <1>6, HFReceives DEF Subscribe, TypeOK
  <2>4. Len(log) \in Nat /\ missed[HF] \in SUBSET Nat
    BY HandlerTypes
  <2>5. pos'[HF] <= Len(log') + 1 /\ joined'[HF] <= pos'[HF]
        /\ \A i \in missed'[HF] : i < pos'[HF]
    BY <1>4, <2>2, <2>3, <2>4
  <2>6. \E i \in 1..wired' : setup'.wiring[i] = HF
    BY <1>2, <1>6
  <2>7. /\ Threshold * triggers' + unhealthy_count' <= Cardinality(ReadUnhealthy')
        /\ unhealthy_count' <= Cardinality(SinceHealthy')
    <3>1. Cardinality(ReadUnhealthy') \in Nat /\ Cardinality(SinceHealthy') \in Nat
      BY NextCounts
    <3> QED
      BY <2>2, <3>1
  <2> QED
    BY <2>2, <2>5, <2>6, <2>7 DEF HandlerInv
<1> QED
  BY <1>5, <1>6

LEMMA HandlerSkips ==
  ASSUME TypeOK, TypeOK', HandlerInv, HandlerLags(HF), UNCHANGED setup
  PROVE  HandlerInv'
<1>1. log' = log /\ Skip(HF) /\ UNCHANGED <<unhealthy_count, triggers, wired>>
  BY DEF HandlerLags, busVars, wiringVars
<1>2. /\ ReadUnhealthy' = ReadUnhealthy /\ SinceHealthy' = SinceHealthy
      /\ pos'[HF] <= Len(log) + 1 /\ pos'[HF] > pos[HF] /\ pos[HF] > 0
      /\ joined'[HF] = joined[HF]
      /\ \A i \in missed'[HF] : i < pos'[HF]
  BY <1>1, SkippedRead DEF HandlerInv
<1>3. pos[HF] \in Nat /\ pos'[HF] \in Nat /\ joined[HF] \in Nat
  BY HandlerTypes, NextCounts
<1>4. joined'[HF] <= pos'[HF] /\ pos'[HF] # 0
  BY <1>2, <1>3 DEF HandlerInv
<1>5. \E i \in 1..wired' : setup'.wiring[i] = HF
  BY <1>1, <1>2 DEF HandlerInv
<1>6. /\ Threshold * triggers' + unhealthy_count' <= Cardinality(ReadUnhealthy')
      /\ unhealthy_count' <= Cardinality(SinceHealthy')
  BY <1>1, <1>2 DEF HandlerInv
<1> QED
  BY <1>1, <1>2, <1>4, <1>5, <1>6 DEF HandlerInv

\* A trigger takes the event that reached the threshold and all the count.
LEMMA HandlerReads ==
  ASSUME TypeOK, TypeOK', HandlerInv, HealthFailoverReads, UNCHANGED setup
  PROVE  HandlerInv'
<1> DEFINE kind == log[pos[HF]].kind
           n == NextCount(kind, unhealthy_count)
           R == Cardinality(ReadUnhealthy)
           S == Cardinality(SinceHealthy)
<1>1. Take(HF) /\ log' = log /\ wired' = wired
  BY DEF HealthFailoverReads, HF
<1>2. \/ /\ n >= Threshold /\ unhealthy_count' = 0 /\ triggers' = triggers + 1
      \/ /\ n < Threshold /\ unhealthy_count' = n /\ triggers' = triggers
  BY DEF HealthFailoverReads, HF, CountAfterTrigger
<1>3. /\ pos[HF] \in 1..Len(log) /\ pos'[HF] = pos[HF] + 1
      /\ joined'[HF] = joined[HF] /\ missed'[HF] = missed[HF]
      /\ kind = "unhealthy" => Cardinality(ReadUnhealthy') = R + 1
      /\ kind # "unhealthy" => Cardinality(ReadUnhealthy') = R
      /\ kind = "unhealthy" => Cardinality(SinceHealthy') = S + 1
      /\ kind \notin {"unhealthy", "healthy"} => Cardinality(SinceHealthy') = S
  BY <1>1, TakenRead DEF HandlerInv
<1>4. /\ unhealthy_count \in 0..(Threshold - 1) /\ triggers \in Nat /\ R \in Nat /\ S \in Nat
      /\ Threshold * triggers + unhealthy_count <= R /\ unhealthy_count <= S
  BY HandlerTypes, CountsAreFinite DEF HandlerInv
<1>5. Cardinality(ReadUnhealthy') \in Nat /\ Cardinality(SinceHealthy') \in Nat
  BY NextCounts
<1>6. /\ kind = "unhealthy" => n = unhealthy_count + 1
      /\ kind = "healthy" => n = 0
      /\ kind \notin {"unhealthy", "healthy"} => n = unhealthy_count
  BY DEF NextCount
<1> HIDE DEF kind, n, R, S
<1>7. Threshold * triggers \in Nat /\ Threshold * (triggers + 1) = Threshold * triggers + Threshold
  BY <1>4
<1>8. /\ Threshold * triggers' + unhealthy_count' <= Cardinality(ReadUnhealthy')
      /\ unhealthy_count' <= Cardinality(SinceHealthy')
  <2>1. CASE kind = "unhealthy"
    <3>1. CASE n >= Threshold
      <4>1. unhealthy_count + 1 = Threshold
        BY <1>4, <1>6, <2>1, <3>1
      <4>2. n >= Threshold /\ unhealthy_count' = 0 /\ triggers' = triggers + 1
        BY <1>2, <1>4, <1>6, <2>1, <3>1
      <4> QED
        BY <1>3, <1>4, <1>5, <1>7, <2>1, <4>1, <4>2
    <3>2. CASE n < Threshold
      <4>1. unhealthy_count' = unhealthy_count + 1 /\ triggers' = triggers
        BY <1>2, <1>4, <1>6, <2>1, <3>2
      <4> QED
        BY <1>3, <1>4, <1>7, <2>1, <4>1
    <3> QED
      BY <1>2, <3>1, <3>2
  <2>2. CASE kind = "healthy"
    <3>1. unhealthy_count' = 0 /\ triggers' = triggers
      BY <1>2, <1>6, <2>2
    <3>2. Cardinality(ReadUnhealthy') = R
      BY <1>3, <2>2
    <3> QED
      BY <1>4, <1>5, <1>7, <3>1, <3>2
  <2>3. CASE kind \notin {"unhealthy", "healthy"}
    <3>1. unhealthy_count' = unhealthy_count /\ triggers' = triggers
      BY <1>2, <1>4, <1>6, <2>3
    <3> QED
      BY <1>3, <1>4, <2>3, <3>1
  <2> QED
    BY <2>1, <2>2, <2>3
<1>9. Len(log) \in Nat /\ joined[HF] \in Nat /\ missed[HF] \in SUBSET Nat
  BY HandlerTypes
<1>10. pos'[HF] <= Len(log') + 1 /\ joined'[HF] <= pos'[HF] /\ pos'[HF] # 0
       /\ \A i \in missed'[HF] : i < pos'[HF]
  BY <1>1, <1>3, <1>9 DEF HandlerInv
<1>11. \E i \in 1..wired' : setup'.wiring[i] = HF
  BY <1>1, <1>3 DEF HandlerInv
<1> QED
  BY <1>8, <1>10, <1>11 DEF HandlerInv

LEMMA HandlerInvStep == IInv /\ IInv' /\ HandlerInv /\ [Next]_vars => HandlerInv'
<1> SUFFICES ASSUME IInv, IInv', HandlerInv, [Next]_vars PROVE HandlerInv'
  OBVIOUS
<1>0. TypeOK /\ TypeOK' /\ UNCHANGED setup
  BY DEF IInv, Next, vars
<1> DEFINE Still == UNCHANGED <<unhealthy_count, triggers, wired, log>>
           Unread == UNCHANGED <<pos, joined, missed>>
<1>1. Still /\ Unread => HandlerInv'
  <2>1. Len(log) <= Len(log) /\ wired <= wired
    BY <1>0, HandlerTypes
  <2> QED
    BY <1>0, <2>1, HandlerUnmoved
<1>2. ASSUME NEW r \in Receiver, r # HF, Still, Subscribe(r) \/ Skip(r) \/ Take(r)
      PROVE  HandlerInv'
  <2>1. Len(log) <= Len(log) /\ wired <= wired
    BY <1>0, HandlerTypes
  <2>2. pos'[HF] = pos[HF] /\ joined'[HF] = joined[HF] /\ missed'[HF] = missed[HF]
    BY <1>0, <1>2, OthersMove
  <2> QED
    BY <1>0, <1>2, <2>1, <2>2, HandlerUnmoved
<1>3. ASSUME NEW p, NEW k, Publish(p, k) PROVE HandlerInv'
  BY <1>1, <1>3 DEF Publish, wiringVars, readVars
<1>4. ASSUME NEW a \in Actor, Send(a) PROVE HandlerInv'
  <2>1. /\ UNCHANGED <<pos, joined, missed, unhealthy_count, triggers, wired>>
        /\ log' = Append(log, pending[a]) \/ log' = log
    BY <1>4 DEF Send, wiringVars, readVars
  <2>2. pending[a] \in Event /\ log \in Seq(Event)
    BY <1>0, <1>4 DEF Send, TypeOK
  <2>3. Len(log) <= Len(log') /\ \A i \in 1..Len(log) : log'[i] = log[i]
    BY <2>1, <2>2
  <2>4. wired <= wired'
    BY <1>0, <2>1, HandlerTypes
  <2> QED
    BY <1>0, <2>1, <2>3, <2>4, HandlerUnmoved
<1>5. ASSUME NEW h, DropHandler(h) \/ StopHandler(h) \/ LeaveLoop(h)
      PROVE  HandlerInv'
  BY <1>1, <1>5 DEF DropHandler, StopHandler, LeaveLoop, busVars, readVars
<1>6. ASSUME NEW h \in Handler, HandlerLags(h) PROVE HandlerInv'
  <2>1. CASE h = HF
    BY <1>0, <1>6, <2>1, HandlerSkips
  <2>2. CASE h # HF
    BY <1>2, <1>6, <2>2, HandlersAreActors DEF HandlerLags, busVars, wiringVars
  <2> QED
    BY <2>1, <2>2
<1>7. BackupEncryptionReads \/ SchedulerBackupReads \/ AlertFanInReads => HandlerInv'
  <2>1. {"backup_encryption", "scheduler_backup", "alert_fanin"} \subseteq Receiver
        /\ HF \notin {"backup_encryption", "scheduler_backup", "alert_fanin"}
    BY HandlersAreActors DEF Handler, HF
  <2>2. BackupEncryptionReads => HandlerInv'
    BY <1>2, <2>1 DEF BackupEncryptionReads, Forward, wiringVars
  <2>3. SchedulerBackupReads => HandlerInv'
    BY <1>2, <2>1 DEF SchedulerBackupReads, Forward, wiringVars
  <2>4. AlertFanInReads => HandlerInv'
    BY <1>2, <2>1 DEF AlertFanInReads, busVars
  <2> QED
    BY <2>2, <2>3, <2>4
<1>8. ASSUME NEW h \in Handler, HandlerStep(h) PROVE HandlerInv'
  BY <1>0, <1>5, <1>6, <1>7, <1>8, HandlerReads DEF HandlerStep
<1>9. ASSUME NEW r \in setup.readers,
             SubscribeFiltered(r) \/ FilteredLags(r) \/ FilteredReads(r)
      PROVE  HandlerInv'
  <2>1. r \in Receiver /\ r # HF
    BY <1>0, SetupsAssumption, ActorsAssumption, HFReceives DEF TypeOK, Receiver
  <2>2. Still /\ (Subscribe(r) \/ Skip(r) \/ Take(r))
    BY <1>9 DEF SubscribeFiltered, FilteredLags, FilteredReads, busVars, wiringVars
  <2> QED
    BY <1>2, <2>1, <2>2
<1>10. UNCHANGED vars => HandlerInv'
  BY <1>1 DEF vars, busVars, wiringVars, readVars
<1>11. StartHandler => HandlerInv'
  BY <1>0, HandlerStarts
<1> QED
  BY <1>3, <1>4, <1>5, <1>8, <1>9, <1>10, <1>11, Zenon DEF Next, Step

LEMMA HandlerInvInit == Init => HandlerInv
<1> SUFFICES ASSUME Init PROVE HandlerInv
  OBVIOUS
<1>1. TypeOK
  BY InitIInv DEF IInv
<1>2. Cardinality(ReadUnhealthy) \in Nat /\ Cardinality(SinceHealthy) \in Nat
  BY <1>1, CountsAreFinite
<1>3. /\ Len(log) = 0 /\ pos[HF] = 0 /\ joined[HF] = 0 /\ missed[HF] = {}
      /\ triggers = 0 /\ unhealthy_count = 0
  BY HFReceives DEF Init
<1> QED
  BY <1>2, <1>3 DEF HandlerInv

\* The reading and the counting of the health handler, with the numbering.
LEMMA BusHolds == Spec => [](IInv /\ GapFree /\ HandlerInv)
<1>1. Init => IInv /\ GapFree /\ HandlerInv
  BY InitIInv, GapFreeInit, HandlerInvInit
<1>2. IInv /\ GapFree /\ HandlerInv /\ [Next]_vars => (IInv /\ GapFree /\ HandlerInv)'
  BY NextIInv, GapFreeStep, HandlerInvStep
<1> QED
  BY <1>1, <1>2, PTL DEF Spec

LEMMA HandlerInvMeans == HandlerInv => TriggersAreEarned /\ CountIsConsecutive
BY DEF HandlerInv, TriggersAreEarned, CountIsConsecutive, ReadUnhealthy, SinceHealthy, HF

\* Whatever the threshold, the wiring, the capacity and the lag, each failover
\* the health handler triggers is paid for by threshold unhealthy events that
\* it read and that no other trigger is charged for.
THEOREM TriggersEarned == Spec => []TriggersAreEarned
<1>1. HandlerInv => TriggersAreEarned
  BY HandlerInvMeans
<1> QED
  BY BusHolds, <1>1, PTL

\* For any number of publishers: publish and the handlers keep their types,
\* no sequence number is skipped or lost between the lock and the channel, and
\* the unhealthy count is the run of unhealthy events since the last healthy
\* one that the handler read.
THEOREM BusAddsUp == Spec => []BusInvariant
<1>1. IInv /\ GapFree /\ HandlerInv => BusInvariant
  BY GapFreeMeans, HandlerInvMeans DEF IInv, BusInvariant
<1> QED
  BY BusHolds, <1>1, PTL

=============================================================================
