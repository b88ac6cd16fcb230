---------------------------- MODULE ServiceProofs ----------------------------
(***************************************************************************)
(* Theorems about the services that run by themselves.  The job queue, for *)
(* any number of jobs, workers and retries: a job is never lost, never in  *)
(* two places, and never run by two parties at once, and the counters and  *)
(* the dead letters account for all of them.  The scheduler, for any       *)
(* tasks: what runs, and what a Failed task has behind it.  The monitors   *)
(* of clusters, Patroni and Sentinel: promotions and announcements.  Last, *)
(* all of them in the specification that is model-checked.                 *)
(***************************************************************************)
EXTENDS MCServices, FiniteSetTheorems, SequenceTheorems, TLAPS

QueueSpec == QueueInit /\ [][QueueNext]_queueVars

-----------------------------------------------------------------------------
(* Sequences in which a value occurs at most once.                         *)

Occurs(s, j) == \E i \in 1..Len(s) : s[i] = j
Once(s) == \A i, k \in 1..Len(s) : s[i] = s[k] => i = k

LEMMA AppendOccurs ==
  ASSUME NEW S, NEW s \in Seq(S), NEW j \in S
  PROVE  /\ Append(s, j) \in Seq(S)
         /\ \A k : Occurs(Append(s, j), k) <=> Occurs(s, k) \/ k = j
         /\ Once(s) /\ ~Occurs(s, j) => Once(Append(s, j))
<1>1. /\ Append(s, j) \in Seq(S) /\ Len(s) \in Nat
      /\ Len(Append(s, j)) = Len(s) + 1
      /\ \A i \in 1..Len(s) : Append(s, j)[i] = s[i]
      /\ Append(s, j)[Len(s) + 1] = j
  OBVIOUS
<1>2. \A k : Occurs(Append(s, j), k) <=> Occurs(s, k) \/ k = j
  <2> TAKE k
  <2>1. Occurs(Append(s, j), k) => Occurs(s, k) \/ k = j
    BY <1>1 DEF Occurs
  <2>2. Occurs(s, k) => Occurs(Append(s, j), k)
    BY <1>1 DEF Occurs
  <2>3. k = j => Occurs(Append(s, j), k)
    <3>1. Len(s) + 1 \in 1..Len(Append(s, j))
      BY <1>1
    <3> QED
      BY <1>1, <3>1 DEF Occurs
  <2> QED
    BY <2>1, <2>2, <2>3
<1>3. Once(s) /\ ~Occurs(s, j) => Once(Append(s, j))
  <2> SUFFICES ASSUME Once(s), ~Occurs(s, j),
                      NEW i \in 1..Len(Append(s, j)), NEW k \in 1..Len(Append(s, j)),
                      Append(s, j)[i] = Append(s, j)[k]
               PROVE  i = k
    BY DEF Once
  <2>1. CASE i \in 1..Len(s) /\ k \in 1..Len(s)
    BY <1>1, <2>1 DEF Once
  <2>2. CASE i = Len(s) + 1 /\ k \in 1..Len(s)
    BY <1>1, <2>2 DEF Occurs
  <2>3. CASE k = Len(s) + 1 /\ i \in 1..Len(s)
    BY <1>1, <2>3 DEF Occurs
  <2> QED
    BY <1>1, <2>1, <2>2, <2>3
<1> QED
  BY <1>1, <1>2, <1>3

LEMMA TailOccurs ==
  ASSUME NEW S, NEW s \in Seq(S), s # << >>
  PROVE  /\ Tail(s) \in Seq(S) /\ Head(s) \in S
         /\ \A k : Occurs(s, k) <=> Occurs(Tail(s), k) \/ k = Head(s)
         /\ Once(s) => Once(Tail(s)) /\ ~Occurs(Tail(s), Head(s))
<1>1. /\ Tail(s) \in Seq(S) /\ Head(s) \in S /\ Len(s) \in Nat /\ 1 <= Len(s)
      /\ Len(Tail(s)) = Len(s) - 1
      /\ Head(s) = s[1]
  BY HeadTailProperties
<1>2. \A i \in 1..(Len(s) - 1) : Tail(s)[i] = s[i + 1]
  OBVIOUS
<1>3. \A k : Occurs(s, k) <=> Occurs(Tail(s), k) \/ k = Head(s)
  <2> TAKE k
  <2>1. ASSUME NEW i \in 1..Len(s), s[i] = k PROVE Occurs(Tail(s), k) \/ k = Head(s)
    <3>1. CASE i = 1
      BY <1>1, <2>1, <3>1
    <3>2. CASE i # 1
      <4>1. i - 1 \in 1..(Len(s) - 1) /\ (i - 1) + 1 = i
        BY <1>1, <3>2
      <4>2. Tail(s)[i - 1] = k
        BY <1>2, <2>1, <4>1
      <4> QED
        BY <1>1, <4>1, <4>2 DEF Occurs
    <3> QED
      BY <3>1, <3>2
  <2>2. ASSUME NEW i \in 1..Len(Tail(s)), Tail(s)[i] = k PROVE Occurs(s, k)
    <3>1. i + 1 \in 1..Len(s) /\ s[i + 1] = k
      BY <1>1, <1>2, <2>2
    <3> QED
      BY <3>1 DEF Occurs
  <2>3. k = Head(s) => Occurs(s, k)
    <3>1. 1 \in 1..Len(s)
      BY <1>1
    <3> QED
      BY <1>1, <3>1 DEF Occurs
  <2> QED
    BY <2>1, <2>2, <2>3 DEF Occurs
<1>4. ASSUME Once(s) PROVE Once(Tail(s)) /\ ~Occurs(Tail(s), Head(s))
  <2>1. ASSUME NEW i \in 1..Len(Tail(s)), NEW k \in 1..Len(Tail(s)), Tail(s)[i] = Tail(s)[k]
        PROVE  i = k
    <3>1. i + 1 \in 1..Len(s) /\ k + 1 \in 1..Len(s) /\ s[i + 1] = s[k + 1]
      BY <1>1, <1>2, <2>1
    <3>2. i + 1 = k + 1
      BY <1>4, <3>1 DEF Once
    <3> QED
      BY <3>2
  <2>2. ASSUME NEW i \in 1..Len(Tail(s)), Tail(s)[i] = Head(s) PROVE FALSE
    <3>1. i + 1 \in 1..Len(s) /\ 1 \in 1..Len(s) /\ s[i + 1] = s[1]
      BY <1>1, <1>2, <2>2
    <3>2. i + 1 = 1
      BY <1>4, <3>1 DEF Once
    <3> QED
      BY <3>2
  <2> QED
    BY <2>1, <2>2 DEF Once, Occurs
<1> QED
  BY <1>1, <1>3, <1>4

-----------------------------------------------------------------------------
(* The invariant.                                                          *)

WorkerRecord == [at : {"idle", "taken", "handling", "hung", "exited"}, job : Job \cup {None}]
OwnerRecord == [at : {"idle", "counting", "sleeping"}, job : Job \cup {None}]

Shapes ==
  /\ pending \in Seq(Job)
  /\ running_jobs \subseteq Job /\ held \subseteq running_jobs
  /\ dead_letter_queue \subseteq Job /\ created \subseteq Job
  /\ worker \in [Worker -> WorkerRecord]
  /\ owner \in OwnerRecord /\ (owner.at = "sleeping" => owner.job \in Job)

\* The places a job can be in.
Waits(j) == Occurs(pending, j)
Sleeps(j) == owner.at = "sleeping" /\ owner.job = j

\* A job that was enqueued is somewhere, one that was not is nowhere, and no
\* two places hold the same job.
OnePlace(j) ==
  /\ j \in created <=> \/ Waits(j) \/ Sleeps(j)
                       \/ j \in running_jobs \cup dead_letter_queue \cup drained \cup finished
  /\ Waits(j) => ~Sleeps(j)
  /\ Waits(j) \/ Sleeps(j)
       => j \notin running_jobs \cup dead_letter_queue \cup drained \cup finished
  /\ j \in running_jobs => j \notin dead_letter_queue \cup drained \cup finished
  /\ j \in dead_letter_queue => j \notin drained \cup finished
  /\ j \in drained => j \notin finished

\* A worker between two jobs has none; otherwise its job is running, is no
\* other worker's and not the owner's, and every running job is someone's.
Runners ==
  /\ \A w \in Worker : worker[w].at \in {"idle", "exited"} <=> worker[w].job = None
  /\ \A w \in Worker : worker[w].job # None => worker[w].job \in running_jobs \ held
  /\ \A v, w \in Worker : worker[v].job = worker[w].job /\ worker[v].job # None => v = w
  /\ \A j \in running_jobs \ held : \E w \in Worker : worker[w].job = j

IInv ==
  /\ Shapes
  /\ Once(pending)
  /\ \A j \in Job : OnePlace(j)
  /\ Runners

LEMMA QueueInitOK == QueueInit => IInv
<1> SUFFICES ASSUME QueueInit PROVE IInv
  OBVIOUS
<1>1. Idle \in WorkerRecord /\ Idle \in OwnerRecord /\ Idle.at = "idle" /\ Idle.job = None
  BY DEF Idle, WorkerRecord, OwnerRecord
<1>2. pending \in Seq(Job) /\ Len(pending) = 0
  BY DEF QueueInit
<1>3. Shapes /\ Once(pending)
  BY <1>1, <1>2 DEF QueueInit, Shapes, Once
<1>4. ASSUME NEW j \in Job PROVE OnePlace(j)
  BY <1>1, <1>2 DEF QueueInit, OnePlace, Waits, Sleeps, Occurs
<1>5. Runners
  BY <1>1 DEF QueueInit, Runners
<1> QED
  BY <1>3, <1>4, <1>5 DEF IInv

\* Replacing one worker's record touches no other's.
LEMMA OneWorker ==
  ASSUME Shapes, NEW w \in Worker, NEW r \in WorkerRecord,
         worker' = [worker EXCEPT ![w] = r]
  PROVE  /\ worker' \in [Worker -> WorkerRecord]
         /\ worker'[w] = r
         /\ \A v \in Worker : v # w => worker'[v] = worker[v]
BY DEF Shapes

LEMMA WorkerAt ==
  ASSUME Shapes, NEW w \in Worker, NEW a \in {"handling", "hung", "exited"},
         worker' = [worker EXCEPT ![w].at = a]
  PROVE  /\ worker' \in [Worker -> WorkerRecord]
         /\ worker'[w].at = a /\ worker'[w].job = worker[w].job
         /\ \A v \in Worker : v # w => worker'[v] = worker[v]
<1>1. worker[w] \in WorkerRecord
  BY DEF Shapes
<1>2. LET r == [worker[w] EXCEPT !.at = a]
      IN  r \in WorkerRecord /\ r.at = a /\ r.job = worker[w].job
  BY <1>1 DEF WorkerRecord
<1>3. worker' = [worker EXCEPT ![w] = [worker[w] EXCEPT !.at = a]]
  OBVIOUS
<1> QED
  BY <1>2, <1>3, OneWorker

LEMMA IdleFacts ==
  /\ Idle \in WorkerRecord /\ Idle \in OwnerRecord
  /\ Idle.at = "idle" /\ Idle.job = None
BY DEF Idle, WorkerRecord, OwnerRecord

-----------------------------------------------------------------------------
(* The owner's calls.                                                      *)

LEMMA EnqueueKeeps ==
  ASSUME IInv, NEW j \in Job, Enqueue(j) PROVE IInv'
<1>1. Shapes /\ Runners /\ pending \in Seq(Job) /\ Once(pending)
  BY DEF IInv, Shapes
<1>2. ~Waits(j) /\ owner.at = "idle"
  BY IdleFacts DEF IInv, OnePlace, Enqueue
<1>3. /\ pending' \in Seq(Job) /\ Once(pending')
      /\ \A k : Waits(k)' <=> Waits(k) \/ k = j
  BY <1>1, <1>2, AppendOccurs DEF Enqueue, Waits
<1>4. owner' \in OwnerRecord /\ owner'.at = "counting"
  BY DEF Enqueue, OwnerRecord
<1>5. Shapes' /\ Runners'
  BY <1>1, <1>3, <1>4 DEF Enqueue, Shapes, Runners
<1>6. ASSUME NEW k \in Job PROVE OnePlace(k)'
  <2>1. OnePlace(k) /\ OnePlace(j)
    BY DEF IInv
  <2> QED
    BY <1>2, <1>3, <1>4, <2>1 DEF Enqueue, OnePlace, Sleeps
<1> QED
  BY <1>3, <1>5, <1>6 DEF IInv

\* Steps that move no job.
LEMMA NothingMoves ==
  ASSUME IInv, UNCHANGED <<lists, history, held>>,
         owner' = owner \/ (owner.at # "sleeping" /\ owner' = Idle),
         Shapes', Runners'
  PROVE  IInv'
<1>1. ASSUME NEW k \in Job PROVE OnePlace(k)'
  <2>1. OnePlace(k)
    BY DEF IInv
  <2> QED
    BY <2>1, IdleFacts DEF OnePlace, Waits, Sleeps, lists, history
<1> QED
  BY <1>1 DEF IInv, lists

\* The head of pending moves to running_jobs, for the owner or for a worker.
LEMMA TakeMoves ==
  ASSUME IInv, pending # << >>,
         running_jobs' = running_jobs \cup {Head(pending)}, pending' = Tail(pending),
         UNCHANGED <<dead_letter_queue, history, owner>>
  PROVE  /\ pending' \in Seq(Job) /\ Once(pending')
         /\ Head(pending) \in Job /\ Head(pending) \notin running_jobs
         /\ \A k \in Job : OnePlace(k)'
<1> DEFINE h == Head(pending)
<1>1. pending \in Seq(Job) /\ Once(pending)
  BY DEF IInv, Shapes
<1>2. /\ pending' \in Seq(Job) /\ h \in Job
      /\ \A k : Waits(k) <=> Waits(k)' \/ k = h
      /\ Once(pending') /\ ~Occurs(pending', h)
  BY <1>1, TailOccurs DEF Waits
<1>3. h \notin running_jobs
  BY <1>2 DEF IInv, OnePlace
<1>4. ASSUME NEW k \in Job PROVE OnePlace(k)'
  <2>1. OnePlace(k) /\ (Waits(k)' <=> Waits(k) /\ k # h)
    BY <1>2 DEF IInv, Waits
  <2>2. k \in running_jobs' <=> k \in running_jobs \/ k = h
    OBVIOUS
  <2>3. k = h => Waits(k)
    BY <1>2
  <2> HIDE DEF h
  <2> QED
    BY <2>1, <2>2, <2>3 DEF OnePlace, Sleeps, history
<1> QED
  BY <1>2, <1>3, <1>4

LEMMA DequeueKeeps ==
  ASSUME IInv, Dequeue PROVE IInv'
<1> DEFINE h == Head(pending)
<1>1. Shapes /\ Runners
  BY DEF IInv
<1>2. /\ pending' \in Seq(Job) /\ Once(pending') /\ h \in Job /\ h \notin running_jobs
      /\ \A k \in Job : OnePlace(k)'
  BY TakeMoves DEF Dequeue, WithoutFirst
<1>3. /\ running_jobs' = running_jobs \cup {h} /\ held' = held \cup {h}
      /\ UNCHANGED <<worker, owner, dead_letter_queue, created>>
  BY DEF Dequeue, history
<1> HIDE DEF h
<1>4. Shapes'
  BY <1>1, <1>2, <1>3 DEF Shapes
<1>5. Runners'
  BY <1>1, <1>2, <1>3 DEF Shapes, Runners
<1> QED
  BY <1>2, <1>4, <1>5 DEF IInv

-----------------------------------------------------------------------------
(* A running job ends: who lets go of it, and where it goes.               *)

LEMMA OwnerReleases ==
  ASSUME IInv, NEW j \in held,
         running_jobs' = running_jobs \ {j}, held' = held \ {j}, UNCHANGED worker
  PROVE  /\ j \in Job /\ j \in running_jobs
         /\ running_jobs' \subseteq Job /\ held' \subseteq running_jobs'
         /\ Runners'
BY DEF IInv, Shapes, Runners

LEMMA WorkerReleases ==
  ASSUME IInv, NEW w \in Worker, worker[w].at \in {"taken", "handling"},
         running_jobs' = running_jobs \ {worker[w].job},
         worker' = [worker EXCEPT ![w] = Idle], UNCHANGED held
  PROVE  /\ worker[w].job \in Job /\ worker[w].job \in running_jobs
         /\ running_jobs' \subseteq Job /\ held' \subseteq running_jobs'
         /\ worker' \in [Worker -> WorkerRecord]
         /\ Runners'
<1>1. Shapes /\ Runners
  BY DEF IInv
<1>2. /\ worker' \in [Worker -> WorkerRecord]
      /\ worker'[w] = Idle
      /\ \A v \in Worker : v # w => worker'[v] = worker[v]
  BY <1>1, IdleFacts, OneWorker
<1>3. worker[w].job # None /\ worker[w].job \in running_jobs \ held
  BY <1>1 DEF Runners
<1>4. worker[w].job \in Job /\ running_jobs' \subseteq Job /\ held' \subseteq running_jobs'
  BY <1>1, <1>3 DEF Shapes
<1>5. \A v \in Worker : worker'[v].job = IF v = w THEN None ELSE worker[v].job
  BY <1>2, IdleFacts
<1>6. \A v \in Worker : worker'[v].at = IF v = w THEN "idle" ELSE worker[v].at
  BY <1>2, IdleFacts
<1>7. \A v \in Worker : worker'[v].at \in {"idle", "exited"} <=> worker'[v].job = None
  BY <1>1, <1>5, <1>6 DEF Runners
<1>8. \A v \in Worker : worker'[v].job # None => worker'[v].job \in running_jobs' \ held'
  BY <1>1, <1>3, <1>5 DEF Runners
<1>9. \A u, v \in Worker :
        worker'[u].job = worker'[v].job /\ worker'[u].job # None => u = v
  BY <1>1, <1>5 DEF Runners
<1>10. \A k \in running_jobs' \ held' : \E v \in Worker : worker'[v].job = k
  BY <1>1, <1>5 DEF Runners
<1> QED
  BY <1>2, <1>3, <1>4, <1>7, <1>8, <1>9, <1>10 DEF Runners

LEMMA RunToFinished ==
  ASSUME IInv, NEW j \in running_jobs,
         running_jobs' = running_jobs \ {j}, finished' = finished \cup {j},
         UNCHANGED <<pending, dead_letter_queue, created, drained, owner>>
  PROVE  \A k \in Job : OnePlace(k)'
<1> SUFFICES ASSUME NEW k \in Job PROVE OnePlace(k)'
  OBVIOUS
<1>1. OnePlace(k) /\ (Waits(k)' <=> Waits(k)) /\ (Sleeps(k)' <=> Sleeps(k))
  BY DEF IInv, Waits, Sleeps
<1> QED
  BY <1>1 DEF OnePlace

LEMMA RunToDead ==
  ASSUME IInv, NEW j \in running_jobs,
         running_jobs' = running_jobs \ {j},
         dead_letter_queue' = dead_letter_queue \cup {j},
         UNCHANGED <<pending, finished, created, drained, owner>>
  PROVE  \A k \in Job : OnePlace(k)'
<1> SUFFICES ASSUME NEW k \in Job PROVE OnePlace(k)'
  OBVIOUS
<1>1. OnePlace(k) /\ (Waits(k)' <=> Waits(k)) /\ (Sleeps(k)' <=> Sleeps(k))
  BY DEF IInv, Waits, Sleeps
<1> QED
  BY <1>1 DEF OnePlace

LEMMA RunToSleep ==
  ASSUME IInv, NEW j \in running_jobs, owner = Idle,
         running_jobs' = running_jobs \ {j},
         owner' = [at |-> "sleeping", job |-> j],
         UNCHANGED <<pending, finished, created, drained, dead_letter_queue>>
  PROVE  \A k \in Job : OnePlace(k)'
<1> SUFFICES ASSUME NEW k \in Job PROVE OnePlace(k)'
  OBVIOUS
<1>1. OnePlace(k) /\ (Waits(k)' <=> Waits(k)) /\ ~Sleeps(k) /\ (Sleeps(k)' <=> k = j)
  BY IdleFacts DEF IInv, Waits, Sleeps
<1> QED
  BY <1>1 DEF OnePlace

\* A job that nobody runs any more, or that has slept, is pending again.
LEMMA ToPending ==
  ASSUME IInv, NEW j \in Job, ~Waits(j), pending' = Append(pending, j)
  PROVE  /\ pending' \in Seq(Job) /\ Once(pending')
         /\ \A k : Waits(k)' <=> Waits(k) \/ k = j
BY AppendOccurs DEF IInv, Shapes, Waits

LEMMA RunToPending ==
  ASSUME IInv, NEW j \in running_jobs,
         running_jobs' = running_jobs \ {j}, pending' = Append(pending, j),
         UNCHANGED <<finished, created, drained, dead_letter_queue, owner>>
  PROVE  /\ pending' \in Seq(Job) /\ Once(pending')
         /\ \A k \in Job : OnePlace(k)'
<1>1. j \in Job /\ ~Waits(j)
  BY DEF IInv, Shapes, OnePlace
<1>2. /\ pending' \in Seq(Job) /\ Once(pending')
      /\ \A k : Waits(k)' <=> Waits(k) \/ k = j
  BY <1>1, ToPending
<1>3. ASSUME NEW k \in Job PROVE OnePlace(k)'
  <2>1. OnePlace(k) /\ OnePlace(j) /\ (Sleeps(k)' <=> Sleeps(k))
    BY <1>1 DEF IInv, Sleeps
  <2> QED
    BY <1>2, <2>1 DEF OnePlace
<1> QED
  BY <1>2, <1>3

-----------------------------------------------------------------------------
(* The remaining actions, from the facts above.                            *)

LEMMA CompleteKeeps ==
  ASSUME IInv, NEW j \in Job, CompleteJob(j) PROVE IInv'
<1>1. /\ j \in held /\ j \in running_jobs
      /\ running_jobs' = running_jobs \ {j} /\ held' = held \ {j}
      /\ finished' = finished \cup {j}
      /\ UNCHANGED <<pending, dead_letter_queue, created, drained, owner, worker>>
  BY DEF CompleteJob
<1>2. running_jobs' \subseteq Job /\ held' \subseteq running_jobs' /\ Runners'
  BY <1>1, OwnerReleases
<1>3. \A k \in Job : OnePlace(k)'
  BY <1>1, RunToFinished
<1> QED
  BY <1>1, <1>2, <1>3 DEF IInv, Shapes

LEMMA FailKeeps ==
  ASSUME IInv, NEW j \in Job, FailJob(j) PROVE IInv'
<1>1. /\ j \in held /\ j \in running_jobs /\ owner = Idle
      /\ running_jobs' = running_jobs \ {j} /\ held' = held \ {j}
      /\ UNCHANGED <<pending, created, drained, finished, worker>>
  BY DEF FailJob, Bury, history
<1>2. running_jobs' \subseteq Job /\ held' \subseteq running_jobs' /\ Runners'
  BY <1>1, OwnerReleases
<1>3. CASE RetryLeft(attempts[j] + 1)
  <2>1. owner' = [at |-> "sleeping", job |-> j] /\ UNCHANGED dead_letter_queue
    BY <1>3 DEF FailJob
  <2>2. owner' \in OwnerRecord /\ owner'.job \in Job
    BY <2>1 DEF OwnerRecord
  <2>3. \A k \in Job : OnePlace(k)'
    BY <1>1, <2>1, RunToSleep
  <2> QED
    BY <1>1, <1>2, <2>1, <2>2, <2>3 DEF IInv, Shapes
<1>4. CASE ~RetryLeft(attempts[j] + 1)
  <2>1. dead_letter_queue' = dead_letter_queue \cup {j} /\ UNCHANGED owner
    BY <1>4 DEF FailJob, Bury
  <2>2. \A k \in Job : OnePlace(k)'
    BY <1>1, <2>1, RunToDead
  <2> QED
    BY <1>1, <1>2, <2>1, <2>2 DEF IInv, Shapes
<1> QED
  BY <1>3, <1>4

LEMMA BackoffKeeps ==
  ASSUME IInv, BackoffEnds PROVE IInv'
<1> DEFINE j == owner.job
<1>1. /\ owner.at = "sleeping" /\ pending' = Append(pending, j) /\ owner' = Idle
      /\ UNCHANGED <<running_jobs, dead_letter_queue, history, worker, held>>
  BY DEF BackoffEnds, AfterBackoff
<1>2. j \in Job
  BY <1>1 DEF IInv, Shapes
<1>3. QED
  <2>1. Sleeps(j)
    BY <1>1 DEF Sleeps
  <2>2. ~Waits(j)
    BY <1>2, <2>1 DEF IInv, OnePlace
  <2>3. /\ pending' \in Seq(Job) /\ Once(pending')
        /\ \A k : Waits(k)' <=> Waits(k) \/ k = j
    BY <1>1, <1>2, <2>2, ToPending
  <2>4. ASSUME NEW k \in Job PROVE OnePlace(k)'
    <3>1. OnePlace(k) /\ ~Sleeps(k)' /\ (Sleeps(k) <=> k = j)
      BY <1>1, IdleFacts DEF IInv, Sleeps
    <3>2. (Waits(k)' <=> Waits(k) \/ k = j)
      BY <2>3
    <3> QED
      BY <1>1, <3>1, <3>2 DEF OnePlace, history
  <2>5. Shapes' /\ Runners'
    BY <1>1, <2>3, IdleFacts DEF IInv, Shapes, Runners, history
  <2> QED
    BY <2>3, <2>4, <2>5 DEF IInv

LEMMA DrainKeeps ==
  ASSUME IInv, DrainDlq PROVE IInv'
<1>1. ASSUME NEW k \in Job PROVE OnePlace(k)'
  <2>1. OnePlace(k) /\ (Waits(k)' <=> Waits(k)) /\ (Sleeps(k)' <=> Sleeps(k))
    BY DEF IInv, DrainDlq, Waits, Sleeps
  <2> QED
    BY <2>1 DEF OnePlace, DrainDlq
<1> QED
  BY <1>1 DEF IInv, Shapes, Runners, DrainDlq

LEMMA TakeKeeps ==
  ASSUME IInv, NEW w \in Worker, WorkerTakes(w) PROVE IInv'
<1> DEFINE h == Head(pending)
           r == [at |-> "taken", job |-> h]
<1>1. Shapes /\ Runners
  BY DEF IInv
<1>2. /\ pending' \in Seq(Job) /\ Once(pending') /\ h \in Job /\ h \notin running_jobs
      /\ \A k \in Job : OnePlace(k)'
  BY TakeMoves DEF WorkerTakes, WithoutFirst
<1>3. /\ running_jobs' = running_jobs \cup {h} /\ worker[w].at = "idle"
      /\ worker' = [worker EXCEPT ![w] = r]
      /\ UNCHANGED <<held, owner, dead_letter_queue, created>>
  BY DEF WorkerTakes, history
<1>4. r \in WorkerRecord /\ r.at = "taken" /\ r.job = h
  BY <1>2 DEF WorkerRecord
<1>5. /\ worker' \in [Worker -> WorkerRecord]
      /\ worker'[w] = r
      /\ \A v \in Worker : v # w => worker'[v] = worker[v]
  BY <1>1, <1>3, <1>4, OneWorker
<1> HIDE DEF h
<1>6. \A v \in Worker : /\ worker'[v].job = IF v = w THEN h ELSE worker[v].job
                        /\ worker'[v].at = IF v = w THEN "taken" ELSE worker[v].at
  BY <1>4, <1>5
<1>7. Shapes'
  BY <1>1, <1>2, <1>3, <1>5 DEF Shapes
<1>8. Runners'
  <2>1. worker[w].job = None /\ h # None /\ h \notin held
    BY <1>1, <1>2, <1>3, NoneAssumption DEF Runners, Shapes
  <2>2. \A v \in Worker : worker'[v].at \in {"idle", "exited"} <=> worker'[v].job = None
    BY <1>1, <1>6, <2>1 DEF Runners
  <2>3. \A v \in Worker : worker'[v].job # None => worker'[v].job \in running_jobs' \ held'
    BY <1>1, <1>3, <1>6, <2>1 DEF Runners
  <2>4. \A u, v \in Worker :
          worker'[u].job = worker'[v].job /\ worker'[u].job # None => u = v
    BY <1>1, <1>2, <1>6, <2>1 DEF Runners
  <2>5. ASSUME NEW k \in running_jobs' \ held'
        PROVE  \E v \in Worker : worker'[v].job = k
    <3>1. CASE k = h
      BY <1>6, <3>1
    <3>2. CASE k # h
      <4>1. k \in running_jobs \ held
        BY <1>3, <3>2
      <4>2. PICK v \in Worker : worker[v].job = k
        BY <1>1, <4>1 DEF Runners
      <4>3. k # None
        BY <1>1, <4>1, NoneAssumption DEF Shapes
      <4>4. worker'[v].job = k
        BY <1>6, <2>1, <4>2, <4>3
      <4> QED
        BY <4>4
    <3> QED
      BY <3>1, <3>2
  <2> QED
    BY <2>2, <2>3, <2>4, <2>5 DEF Runners
<1> QED
  BY <1>2, <1>7, <1>8 DEF IInv

LEMMA TimeoutKeeps ==
  ASSUME IInv, NEW w \in Worker, WorkerTimesOut(w) PROVE IInv'
<1> DEFINE j == worker[w].job
<1>1. /\ worker[w].at = "taken" /\ running_jobs' = running_jobs \ {j}
      /\ dead_letter_queue' = dead_letter_queue \cup {j}
      /\ worker' = [worker EXCEPT ![w] = Idle]
      /\ UNCHANGED <<pending, created, drained, finished, owner, held>>
  BY DEF WorkerTimesOut
<1>2. /\ j \in Job /\ j \in running_jobs
      /\ running_jobs' \subseteq Job /\ held' \subseteq running_jobs'
      /\ worker' \in [Worker -> WorkerRecord] /\ Runners'
  BY <1>1, WorkerReleases
<1>3. \A k \in Job : OnePlace(k)'
  BY <1>1, <1>2, RunToDead
<1> QED
  BY <1>1, <1>2, <1>3 DEF IInv, Shapes

LEMMA SuccessKeeps ==
  ASSUME IInv, NEW w \in Worker, HandlerSucceeds(w) PROVE IInv'
<1> DEFINE j == worker[w].job
<1>1. /\ worker[w].at = "handling" /\ running_jobs' = running_jobs \ {j}
      /\ finished' = finished \cup {j}
      /\ worker' = [worker EXCEPT ![w] = Idle]
      /\ UNCHANGED <<pending, created, drained, dead_letter_queue, owner, held>>
  BY DEF HandlerSucceeds
<1>2. /\ j \in Job /\ j \in running_jobs
      /\ running_jobs' \subseteq Job /\ held' \subseteq running_jobs'
      /\ worker' \in [Worker -> WorkerRecord] /\ Runners'
  BY <1>1, WorkerReleases
<1>3. \A k \in Job : OnePlace(k)'
  BY <1>1, <1>2, RunToFinished
<1> QED
  BY <1>1, <1>2, <1>3 DEF IInv, Shapes

LEMMA FailureKeeps ==
  ASSUME IInv, NEW w \in Worker, HandlerFails(w) PROVE IInv'
<1> DEFINE j == worker[w].job
<1>1. /\ worker[w].at = "handling" /\ running_jobs' = running_jobs \ {j}
      /\ worker' = [worker EXCEPT ![w] = Idle]
      /\ UNCHANGED <<created, drained, finished, owner, held>>
  BY DEF HandlerFails, history
<1>2. /\ j \in Job /\ j \in running_jobs
      /\ running_jobs' \subseteq Job /\ held' \subseteq running_jobs'
      /\ worker' \in [Worker -> WorkerRecord] /\ Runners'
  BY <1>1, WorkerReleases
<1>3. CASE RetryLeft(attempts[j] + 1)
  <2>1. pending' = Append(pending, j) /\ UNCHANGED dead_letter_queue
    BY <1>3 DEF HandlerFails
  <2>2. pending' \in Seq(Job) /\ Once(pending') /\ \A k \in Job : OnePlace(k)'
    BY <1>1, <1>2, <2>1, RunToPending
  <2> QED
    BY <1>1, <1>2, <2>1, <2>2 DEF IInv, Shapes
<1>4. CASE ~RetryLeft(attempts[j] + 1)
  <2>1. dead_letter_queue' = dead_letter_queue \cup {j} /\ UNCHANGED pending
    BY <1>4 DEF HandlerFails, Bury
  <2>2. \A k \in Job : OnePlace(k)'
    BY <1>1, <1>2, <2>1, RunToDead
  <2> QED
    BY <1>1, <1>2, <2>1, <2>2 DEF IInv, Shapes
<1> QED
  BY <1>3, <1>4

\* WorkerExits, WorkerHandles and HandlerHangs only change where a loop is.
LEMMA LoopKeeps ==
  ASSUME IInv, NEW w \in Worker, WorkerExits(w) \/ WorkerHandles(w) \/ HandlerHangs(w)
  PROVE  IInv'
<1>1. PICK a \in {"handling", "hung", "exited"} :
        /\ worker' = [worker EXCEPT ![w].at = a]
        /\ \/ worker[w].at = "idle" /\ a = "exited"
           \/ worker[w].at \in {"taken", "handling"} /\ a \in {"handling", "hung"}
  BY DEF WorkerExits, WorkerHandles, HandlerHangs
<1>2. UNCHANGED <<lists, history, held, owner>>
  BY DEF WorkerExits, WorkerHandles, HandlerHangs
<1>3. Shapes /\ Runners
  BY DEF IInv
<1>4. /\ worker' \in [Worker -> WorkerRecord]
      /\ worker'[w].at = a /\ worker'[w].job = worker[w].job
      /\ \A v \in Worker : v # w => worker'[v] = worker[v]
  BY <1>1, <1>3, WorkerAt
<1>5. Shapes'
  BY <1>2, <1>3, <1>4 DEF Shapes, lists, history
<1>6. \A v \in Worker : worker'[v].job = worker[v].job
  BY <1>4
<1>7. \A v \in Worker : worker'[v].at \in {"idle", "exited"} <=> worker'[v].job = None
  BY <1>1, <1>3, <1>4 DEF Runners
<1>8. Runners'
  BY <1>2, <1>3, <1>6, <1>7 DEF Runners, lists
<1> QED
  BY <1>2, <1>5, <1>8, NothingMoves

LEMMA QueueStep == IInv /\ [QueueNext]_queueVars => IInv'
<1> SUFFICES ASSUME IInv, [QueueNext]_queueVars PROVE IInv'
  OBVIOUS
<1>1. CASE EnqueueCounts \/ Start \/ Stop
  <2>1. /\ UNCHANGED <<lists, history, held, worker>>
        /\ owner' = owner \/ (owner.at # "sleeping" /\ owner' = Idle)
    BY <1>1 DEF EnqueueCounts, Start, Stop
  <2>2. Shapes' /\ Runners'
    BY <2>1, IdleFacts DEF IInv, Shapes, Runners, lists, history
  <2> QED
    BY <2>1, <2>2, NothingMoves
<1>2. CASE UNCHANGED queueVars
  BY <1>2, NothingMoves DEF queueVars, IInv, Shapes, Runners, lists, history
<1> QED
  BY <1>1, <1>2, EnqueueKeeps, CompleteKeeps, FailKeeps, DequeueKeeps, BackoffKeeps,
     DrainKeeps, TakeKeeps, TimeoutKeeps, SuccessKeeps, FailureKeeps, LoopKeeps
     DEF QueueNext, WorkerStep

-----------------------------------------------------------------------------
LEMMA Conserved ==
  ASSUME IInv PROVE JobsAreConserved
<1> SUFFICES ASSUME NEW j \in created
             PROVE  Cardinality(PendingAt(j)) + Cardinality(Elsewhere(j)) = 1
  BY DEF JobsAreConserved
<1>1. OnePlace(j) /\ Once(pending) /\ owner \in OwnerRecord
  BY DEF IInv, Shapes
<1>2. Sleeps(j) <=> owner = [at |-> "sleeping", job |-> j]
  BY <1>1 DEF Sleeps, OwnerRecord
<1>3. CASE Waits(j)
  <2>1. PICK i \in 1..Len(pending) : PendingAt(j) = {i}
    BY <1>1, <1>3 DEF Waits, Occurs, Once, PendingAt
  <2>2. Elsewhere(j) = {}
    BY <1>1, <1>2, <1>3 DEF OnePlace, Elsewhere
  <2>3. Cardinality({i}) = 1 /\ Cardinality({}) = 0
    BY FS_Singleton, FS_EmptySet
  <2> QED
    BY <2>1, <2>2, <2>3
<1>4. CASE ~Waits(j)
  <2>1. PendingAt(j) = {}
    BY <1>4 DEF Waits, Occurs, PendingAt
  <2>2. \E s : Elsewhere(j) = {s}
    <3>1. CASE j \in running_jobs
      <4>1. Elsewhere(j) = {"run"}
        BY <1>1, <1>2, <3>1 DEF OnePlace, Elsewhere
      <4> QED
        BY <4>1
    <3>2. CASE j \in dead_letter_queue
      <4>1. Elsewhere(j) = {"dead"}
        BY <1>1, <1>2, <3>2 DEF OnePlace, Elsewhere
      <4> QED
        BY <4>1
    <3>3. CASE j \in drained
      <4>1. Elsewhere(j) = {"drained"}
        BY <1>1, <1>2, <3>3 DEF OnePlace, Elsewhere
      <4> QED
        BY <4>1
    <3>4. CASE j \in finished
      <4>1. Elsewhere(j) = {"finished"}
        BY <1>1, <1>2, <3>4 DEF OnePlace, Elsewhere
      <4> QED
        BY <4>1
    <3>5. CASE Sleeps(j)
      <4>1. Elsewhere(j) = {"asleep"}
        BY <1>1, <1>2, <3>5 DEF OnePlace, Elsewhere
      <4> QED
        BY <4>1
    <3> QED
      BY <1>1, <1>4, <3>1, <3>2, <3>3, <3>4, <3>5 DEF OnePlace
  <2>3. PICK s : Elsewhere(j) = {s}
    BY <2>2
  <2>4. Cardinality({s}) = 1 /\ Cardinality({}) = 0
    BY FS_Singleton, FS_EmptySet
  <2> QED
    BY <2>1, <2>3, <2>4
<1> QED
  BY <1>3, <1>4

LEMMA Separate ==
  ASSUME IInv PROVE OneRunnerPerJob
<1> DEFINE Run(j) == {w \in Worker : worker[w].job = j /\ worker[w].at # "exited"}
<1> SUFFICES ASSUME NEW j \in running_jobs
             PROVE  Cardinality(Run(j)) + (IF j \in held THEN 1 ELSE 0) = 1
  BY DEF OneRunnerPerJob
<1>1. Runners /\ j \in Job /\ j # None
  BY NoneAssumption DEF IInv, Shapes
<1>2. CASE j \in held
  <2>1. Run(j) = {}
    BY <1>1, <1>2 DEF Runners
  <2>2. Cardinality({}) = 0
    BY FS_EmptySet
  <2> QED
    BY <1>2, <2>1, <2>2
<1>3. CASE j \notin held
  <2>1. PICK w \in Worker : worker[w].job = j
    BY <1>1, <1>3 DEF Runners
  <2>2. worker[w].at # "exited" /\ \A v \in Worker : worker[v].job = j => v = w
    BY <1>1, <2>1 DEF Runners
  <2>3. Run(j) = {w}
    BY <2>1, <2>2
  <2>4. Cardinality({w}) = 1
    BY FS_Singleton
  <2> HIDE DEF Run
  <2> QED
    BY <1>3, <2>3, <2>4
<1> QED
  BY <1>2, <1>3

LEMMA QueueInvariant == QueueSpec => []IInv
BY QueueInitOK, QueueStep, PTL DEF QueueSpec

\* For any number of jobs and workers, any retry limit, handlers that hang and
\* a clock that is set back: a job that was enqueued is in exactly one place,
\* however the workers' critical sections and the manual API interleave.
THEOREM NoJobIsLost == QueueSpec => []JobsAreConserved
BY QueueInvariant, Conserved, PTL

\* A running job is run by exactly one party: one worker of spawn_workers or
\* the caller of dequeue().
THEOREM OneRunner == QueueSpec => []OneRunnerPerJob
BY QueueInvariant, Separate, PTL

-----------------------------------------------------------------------------
(* The counters, the attempts and the dead letters.                        *)

Attempts ==
  /\ attempts \in [Job -> 0..(MaxRetries + 1)]
  /\ \A j \in Job : attempts[j] = MaxRetries + 1 => j \in dead_letter_queue \cup drained

BookTypes ==
  /\ drained \subseteq Job /\ finished \subseteq Job /\ timed_out \subseteq Job
  /\ started \in BOOLEAN /\ shutdown \in BOOLEAN
  /\ jobs_enqueued \in Nat /\ jobs_processed \in Nat /\ jobs_failed \in Nat
  /\ jobs_retried \in Nat /\ jobs_dead \in Nat

Books ==
  /\ BookTypes /\ Attempts /\ DeadAreExhausted
  /\ IsFiniteSet(running_jobs) /\ CountersBalance /\ RunningWithinLimit

\* A job that leaves running_jobs, or joins them, counts one.
LEMMA RunningCounts ==
  ASSUME IsFiniteSet(running_jobs)
  PROVE  /\ Cardinality(running_jobs) \in Nat
         /\ \A j : j \in running_jobs =>
              /\ IsFiniteSet(running_jobs \ {j})
              /\ Cardinality(running_jobs \ {j}) = Cardinality(running_jobs) - 1
         /\ \A j : j \notin running_jobs =>
              /\ IsFiniteSet(running_jobs \cup {j})
              /\ Cardinality(running_jobs \cup {j}) = Cardinality(running_jobs) + 1
BY FS_CardinalityType, FS_RemoveElement, FS_AddElement

\* Fewer jobs in hand stay within the limit.
LEMMA FewerHeld ==
  ASSUME IInv, Books, held' \subseteq held PROVE RunningWithinLimit'
<1>1. IsFiniteSet(held)
  BY FS_Subset DEF IInv, Shapes, Books
<1>2. IsFiniteSet(held') /\ Cardinality(held') <= Cardinality(held)
  BY <1>1, FS_Subset
<1>3. Cardinality(held) \in Nat /\ Cardinality(held') \in Nat /\ MaxWorkers \in Nat
  BY <1>1, <1>2, FS_CardinalityType, WorkersAssumption
<1> QED
  BY <1>2, <1>3 DEF Books, RunningWithinLimit

LEMMA BooksInit == QueueInit => Books
<1> SUFFICES ASSUME QueueInit PROVE Books
  OBVIOUS
<1>1. IsFiniteSet({}) /\ Cardinality({}) = 0
  BY FS_EmptySet
<1>2. BookTypes
  BY DEF QueueInit, BookTypes
<1>3. Attempts /\ DeadAreExhausted
  BY RetriesAssumption DEF QueueInit, Attempts, DeadAreExhausted
<1>4. CountersBalance
  BY <1>1, IdleFacts DEF QueueInit, CountersBalance
<1>5. RunningWithinLimit
  BY <1>1, WorkersAssumption DEF QueueInit, RunningWithinLimit
<1> QED
  BY <1>1, <1>2, <1>3, <1>4, <1>5 DEF Books, QueueInit

\* The lengths of pending that the actions produce.
LEMMA PendingLen ==
  ASSUME Shapes
  PROVE  /\ Len(pending) \in Nat
         /\ \A j \in Job : Len(Append(pending, j)) = Len(pending) + 1
         /\ pending # << >> => Len(Tail(pending)) = Len(pending) - 1
<1>1. pending \in Seq(Job)
  BY DEF Shapes
<1> QED
  BY <1>1, HeadTailProperties

\* Calls that move no job between the lists.
LEMMA BooksQuiet ==
  ASSUME Books, UNCHANGED <<lists, history, held, attempts, counters>>,
         owner'.at = owner.at, started' \in BOOLEAN, shutdown' \in BOOLEAN
  PROVE  Books'
BY DEF Books, BookTypes, Attempts, DeadAreExhausted, CountersBalance, RunningWithinLimit,
       lists, history, counters

LEMMA BooksEnqueue ==
  ASSUME IInv, Books, NEW j \in Job, Enqueue(j) PROVE Books'
<1>1. owner.at = "idle" /\ owner'.at = "counting"
  BY IdleFacts DEF Enqueue
<1>2. Len(pending) \in Nat /\ Len(pending') = Len(pending) + 1
  BY PendingLen DEF IInv, Enqueue
<1>3. CountersBalance'
  <2>1. /\ UNCHANGED <<running_jobs, jobs_enqueued, jobs_processed, jobs_dead>>
        /\ Cardinality(running_jobs) \in Nat
    BY RunningCounts DEF Enqueue, counters, Books
  <2> QED
    BY <1>1, <1>2, <2>1 DEF Books, BookTypes, CountersBalance
<1> QED
  BY <1>3 DEF Books, BookTypes, Attempts, DeadAreExhausted, RunningWithinLimit, Enqueue, counters

LEMMA BooksEnqueueCounts ==
  ASSUME IInv, Books, EnqueueCounts PROVE Books'
<1>1. owner.at = "counting" /\ owner'.at = "idle"
  BY IdleFacts DEF EnqueueCounts
<1>2. CountersBalance'
  <2>1. /\ UNCHANGED <<pending, running_jobs, jobs_processed, jobs_dead>>
        /\ jobs_enqueued' = jobs_enqueued + 1
        /\ Cardinality(running_jobs) \in Nat /\ Len(pending) \in Nat
    BY RunningCounts, PendingLen DEF EnqueueCounts, lists, Books, IInv
  <2> QED
    BY <1>1, <2>1 DEF Books, BookTypes, CountersBalance
<1> QED
  BY <1>2 DEF Books, BookTypes, Attempts, DeadAreExhausted, RunningWithinLimit,
              EnqueueCounts, lists, history

\* The head of pending moves to running_jobs.
LEMMA TakeBalances ==
  ASSUME IInv, Books, pending # << >>, running_jobs' = running_jobs \cup {Head(pending)},
         pending' = Tail(pending), UNCHANGED <<dead_letter_queue, counters, history, owner>>
  PROVE  /\ IsFiniteSet(running_jobs') /\ CountersBalance'
         /\ Cardinality(running_jobs') = Cardinality(running_jobs) + 1
<1>1. Head(pending) \notin running_jobs
  BY TakeMoves
<1>2. /\ Cardinality(running_jobs) \in Nat /\ IsFiniteSet(running_jobs')
      /\ Cardinality(running_jobs') = Cardinality(running_jobs) + 1
  BY <1>1, RunningCounts DEF Books
<1>3. Len(pending) \in Nat /\ Len(pending') = Len(pending) - 1
  BY PendingLen DEF IInv
<1>4. UNCHANGED <<jobs_enqueued, jobs_processed, jobs_dead, owner>>
  BY DEF counters
<1>5. CountersBalance'
  BY <1>2, <1>3, <1>4 DEF Books, BookTypes, CountersBalance
<1> QED
  BY <1>2, <1>5

LEMMA BooksDequeue ==
  ASSUME IInv, Books, Dequeue PROVE Books'
<1>1. /\ IsFiniteSet(running_jobs') /\ CountersBalance'
      /\ Cardinality(running_jobs') = Cardinality(running_jobs) + 1
  BY TakeBalances DEF Dequeue, WithoutFirst
<1>2. RunningWithinLimit'
  <2>1. held' \subseteq running_jobs'
    BY DequeueKeeps DEF IInv, Shapes
  <2>2. IsFiniteSet(held') /\ Cardinality(held') <= Cardinality(running_jobs')
    BY <1>1, <2>1, FS_Subset
  <2>3. /\ Cardinality(held') \in Nat /\ Cardinality(running_jobs) \in Nat
        /\ MaxWorkers \in Nat /\ Cardinality(running_jobs) < MaxWorkers
    BY <2>2, FS_CardinalityType, RunningCounts, WorkersAssumption DEF Books, Dequeue, RoomToRun
  <2> QED
    BY <1>1, <2>2, <2>3 DEF RunningWithinLimit
<1> QED
  BY <1>1, <1>2 DEF Books, BookTypes, Attempts, DeadAreExhausted, Dequeue, counters, history

LEMMA BooksTake ==
  ASSUME IInv, Books, NEW w \in Worker, WorkerTakes(w) PROVE Books'
<1>1. IsFiniteSet(running_jobs') /\ CountersBalance'
  BY TakeBalances DEF WorkerTakes, WithoutFirst
<1> QED
  BY <1>1 DEF Books, BookTypes, Attempts, DeadAreExhausted, RunningWithinLimit, WorkerTakes,
              counters, history

LEMMA BooksBackoff ==
  ASSUME IInv, Books, BackoffEnds PROVE Books'
<1>1. owner.at = "sleeping" /\ owner'.at = "idle" /\ owner.job \in Job
  BY IdleFacts DEF BackoffEnds, IInv, Shapes
<1>2. Len(pending) \in Nat /\ Len(pending') = Len(pending) + 1
  BY <1>1, PendingLen DEF IInv, BackoffEnds, AfterBackoff
<1>3. CountersBalance'
  <2>1. /\ UNCHANGED <<running_jobs, jobs_enqueued, jobs_processed, jobs_dead>>
        /\ Cardinality(running_jobs) \in Nat
    BY RunningCounts DEF BackoffEnds, counters, Books
  <2> QED
    BY <1>1, <1>2, <2>1 DEF Books, BookTypes, CountersBalance
<1> QED
  BY <1>3 DEF Books, BookTypes, Attempts, DeadAreExhausted, RunningWithinLimit, BackoffEnds,
              counters, history

LEMMA BooksDrain ==
  ASSUME IInv, Books, DrainDlq PROVE Books'
<1>1. Attempts' /\ DeadAreExhausted'
  BY DEF Books, Attempts, DeadAreExhausted, DrainDlq
<1> QED
  BY <1>1 DEF IInv, Shapes, Books, BookTypes, CountersBalance, RunningWithinLimit, DrainDlq, counters


\* A running job ends: it is counted once, wherever it goes.
Sleeping(o) == IF o.at = "sleeping" THEN 1 ELSE 0
Counting(o) == IF o.at = "counting" THEN 1 ELSE 0
Settled == jobs_processed + jobs_dead + Len(pending) + Sleeping(owner)
LEMMA SettledIsNat ==
  ASSUME IInv, Books PROVE Settled \in Nat
<1>1. Len(pending) \in Nat /\ jobs_processed \in Nat /\ jobs_dead \in Nat
  BY PendingLen DEF IInv, Books, BookTypes
<1>2. Sleeping(owner) \in Nat
  BY DEF Sleeping
<1> QED
  BY <1>1, <1>2 DEF Settled

LEMMA EndBalances ==
  ASSUME IInv, Books, NEW j \in running_jobs, running_jobs' = running_jobs \ {j},
         jobs_enqueued' = jobs_enqueued, Counting(owner') = Counting(owner),
         jobs_processed' \in Nat, jobs_dead' \in Nat, Len(pending') \in Nat,
         Settled' = Settled + 1
  PROVE  IsFiniteSet(running_jobs') /\ CountersBalance'
<1>1. /\ Cardinality(running_jobs) \in Nat /\ IsFiniteSet(running_jobs')
      /\ Cardinality(running_jobs') = Cardinality(running_jobs) - 1
  BY RunningCounts DEF Books
<1>2. Len(pending) \in Nat /\ jobs_processed \in Nat /\ jobs_dead \in Nat /\ jobs_enqueued \in Nat
  BY PendingLen DEF IInv, Books, BookTypes
<1>3. /\ Sleeping(owner) \in Nat /\ Sleeping(owner') \in Nat
      /\ Counting(owner) \in Nat /\ Counting(owner') \in Nat
  BY DEF Sleeping, Counting
<1>4. jobs_enqueued + Counting(owner) = Settled + Cardinality(running_jobs)
  <2>1. jobs_enqueued + Counting(owner)
          = jobs_processed + jobs_dead + Len(pending) + Cardinality(running_jobs) + Sleeping(owner)
    BY DEF Books, CountersBalance, Sleeping, Counting
  <2> QED
    BY <1>1, <1>2, <1>3, <2>1 DEF Settled
<1>5. jobs_enqueued' + Counting(owner')
        = jobs_processed' + jobs_dead' + Len(pending') + Cardinality(running_jobs')
          + Sleeping(owner')
  <2>1. Settled \in Nat /\ Settled' \in Nat
    BY SettledIsNat
  <2>2. jobs_enqueued' + Counting(owner') = Settled' + Cardinality(running_jobs')
    BY <1>1, <1>2, <1>3, <1>4, <2>1
  <2> QED
    <3>1. Settled' = jobs_processed' + jobs_dead' + Len(pending') + Sleeping(owner')
      BY DEF Settled
    <3>2. Cardinality(running_jobs') \in Int
      BY <1>1
    <3>3. \A a, b, c, d \in Nat : \A e \in Int : (a + b + c + d) + e = a + b + c + e + d
      OBVIOUS
    <3>4. (jobs_processed' + jobs_dead' + Len(pending') + Sleeping(owner'))
            + Cardinality(running_jobs')
          = jobs_processed' + jobs_dead' + Len(pending') + Cardinality(running_jobs')
            + Sleeping(owner')
      BY <1>3, <3>2, <3>3
    <3> QED
      BY <2>2, <3>1, <3>4
<1>6. CountersBalance'
  BY <1>5 DEF CountersBalance, Sleeping, Counting
<1> QED
  BY <1>1, <1>6

\* A running job has a retry left or has used up its last one.
LEMMA RunningAttempts ==
  ASSUME IInv, Books, NEW j \in running_jobs
  PROVE  /\ j \in Job /\ attempts[j] \in 0..MaxRetries
         /\ j \notin dead_letter_queue \cup drained
<1>1. j \in Job /\ j \notin dead_letter_queue \cup drained
  BY DEF IInv, Shapes, OnePlace
<1>2. attempts[j] \in 0..(MaxRetries + 1) /\ attempts[j] # MaxRetries + 1
  BY <1>1 DEF Books, Attempts
<1> QED
  BY <1>1, <1>2, RetriesAssumption

LEMMA FailedAttempt ==
  ASSUME IInv, Books, NEW j \in running_jobs, attempts' = [attempts EXCEPT ![j] = @ + 1],
         UNCHANGED <<drained, timed_out>>,
         dead_letter_queue' = IF RetryLeft(attempts[j] + 1) THEN dead_letter_queue
                              ELSE dead_letter_queue \cup {j}
  PROVE  Attempts' /\ DeadAreExhausted'
<1>1. /\ j \in Job /\ attempts[j] \in 0..MaxRetries
      /\ j \notin dead_letter_queue \cup drained
  BY RunningAttempts
<1>2. /\ attempts' \in [Job -> 0..(MaxRetries + 1)] /\ attempts'[j] = attempts[j] + 1
      /\ \A k \in Job \ {j} : attempts'[k] = attempts[k]
  BY <1>1, RetriesAssumption DEF Books, Attempts
<1>3. RetryLeft(attempts[j] + 1) <=> attempts'[j] # MaxRetries + 1
  BY <1>1, <1>2, RetriesAssumption DEF RetryLeft
<1>4. Attempts'
  BY <1>1, <1>2, <1>3 DEF Books, Attempts
<1>5. DeadAreExhausted'
  <2> SUFFICES ASSUME NEW k \in (dead_letter_queue' \cup drained) \ timed_out
               PROVE  attempts'[k] = MaxRetries + 1
    BY DEF DeadAreExhausted
  <2>1. CASE k = j
    BY <1>1, <1>3, <2>1
  <2>2. CASE k # j
    <3>1. k \in (dead_letter_queue \cup drained) \ timed_out /\ k \in Job
      BY <2>2 DEF IInv, Shapes, Books, BookTypes
    <3> QED
      BY <1>2, <2>2, <3>1 DEF Books, DeadAreExhausted
  <2> QED
    BY <2>1, <2>2
<1> QED
  BY <1>4, <1>5

LEMMA BooksComplete ==
  ASSUME IInv, Books, NEW j \in Job, CompleteJob(j) PROVE Books'
<1>1. /\ j \in running_jobs /\ running_jobs' = running_jobs \ {j} /\ held' \subseteq held
      /\ jobs_processed' = jobs_processed + 1 /\ finished' = finished \cup {j}
      /\ UNCHANGED <<pending, dead_letter_queue, drained, timed_out, jobs_enqueued,
                     jobs_failed, jobs_retried, jobs_dead, attempts, owner, started, shutdown>>
  BY DEF CompleteJob
<1>2. jobs_processed \in Nat /\ jobs_dead \in Nat /\ Len(pending) \in Nat /\ Sleeping(owner) \in Nat
  BY PendingLen DEF Books, BookTypes, IInv, Sleeping
<1>3. IsFiniteSet(running_jobs') /\ CountersBalance'
  <2>1. Settled' = Settled + 1 /\ jobs_processed' \in Nat
    BY <1>1, <1>2 DEF Settled
  <2> QED
    BY <1>1, <1>2, <2>1, EndBalances
<1>4. RunningWithinLimit'
  BY <1>1, FewerHeld
<1> QED
  BY <1>1, <1>3, <1>4 DEF Books, BookTypes, Attempts, DeadAreExhausted

LEMMA BooksFail ==
  ASSUME IInv, Books, NEW j \in Job, FailJob(j) PROVE Books'
<1>1. /\ j \in running_jobs /\ running_jobs' = running_jobs \ {j} /\ held' \subseteq held
      /\ attempts' = [attempts EXCEPT ![j] = @ + 1]
      /\ UNCHANGED <<pending, drained, timed_out, finished, jobs_enqueued, jobs_processed,
                     started, shutdown>>
  BY DEF FailJob, Bury, history
<1>2. /\ jobs_processed \in Nat /\ jobs_dead \in Nat /\ Len(pending) \in Nat
      /\ owner.at = "idle"
  BY PendingLen, IdleFacts DEF Books, BookTypes, IInv, FailJob
<1>3. RunningWithinLimit'
  BY <1>1, FewerHeld
<1>4. CASE RetryLeft(attempts[j] + 1)
  <2>1. /\ owner'.at = "sleeping" /\ jobs_retried' = jobs_retried + 1
        /\ UNCHANGED <<dead_letter_queue, jobs_failed, jobs_dead>>
    BY <1>4 DEF FailJob
  <2>2. IsFiniteSet(running_jobs') /\ CountersBalance'
    <3>1. Settled' = Settled + 1 /\ jobs_dead' \in Nat
      BY <1>1, <1>2, <2>1 DEF Settled, Sleeping
    <3>2. Counting(owner') = Counting(owner)
      BY <1>2, <2>1 DEF Counting
    <3> QED
      BY <1>1, <1>2, <2>1, <3>1, <3>2, EndBalances
  <2>3. Attempts' /\ DeadAreExhausted'
    BY <1>1, <1>4, <2>1, FailedAttempt
  <2> QED
    BY <1>1, <1>3, <2>1, <2>2, <2>3 DEF Books, BookTypes
<1>5. CASE ~RetryLeft(attempts[j] + 1)
  <2>1. /\ dead_letter_queue' = dead_letter_queue \cup {j} /\ UNCHANGED owner
        /\ jobs_failed' = jobs_failed + 1 /\ jobs_dead' = jobs_dead + 1
        /\ UNCHANGED jobs_retried
    BY <1>5 DEF FailJob, Bury
  <2>2. IsFiniteSet(running_jobs') /\ CountersBalance'
    <3>1. Settled' = Settled + 1 /\ jobs_dead' \in Nat
      BY <1>1, <1>2, <2>1 DEF Settled, Sleeping
    <3>2. Counting(owner') = Counting(owner)
      BY <1>2, <2>1 DEF Counting
    <3> QED
      BY <1>1, <1>2, <2>1, <3>1, <3>2, EndBalances
  <2>3. Attempts' /\ DeadAreExhausted'
    BY <1>1, <1>5, <2>1, FailedAttempt
  <2> QED
    BY <1>1, <1>3, <2>1, <2>2, <2>3 DEF Books, BookTypes
<1> QED
  BY <1>4, <1>5

LEMMA BooksTimeout ==
  ASSUME IInv, Books, NEW w \in Worker, WorkerTimesOut(w) PROVE Books'
<1> DEFINE j == worker[w].job
<1>1. /\ running_jobs' = running_jobs \ {j} /\ UNCHANGED held /\ worker[w].at = "taken"
      /\ worker' = [worker EXCEPT ![w] = Idle]
      /\ dead_letter_queue' = dead_letter_queue \cup {j} /\ timed_out' = timed_out \cup {j}
      /\ jobs_dead' = jobs_dead + 1
      /\ UNCHANGED <<pending, drained, finished, jobs_enqueued, jobs_processed, jobs_failed,
                     jobs_retried, attempts, owner, started, shutdown>>
  BY DEF WorkerTimesOut
<1>2. j \in Job /\ j \in running_jobs
  BY <1>1, WorkerReleases
<1> HIDE DEF j
<1>3. jobs_processed \in Nat /\ jobs_dead \in Nat /\ Len(pending) \in Nat /\ Sleeping(owner) \in Nat
  BY PendingLen DEF Books, BookTypes, IInv, Sleeping
<1>4. IsFiniteSet(running_jobs') /\ CountersBalance'
  <2>1. Settled' = Settled + 1 /\ jobs_processed' \in Nat /\ jobs_dead' \in Nat
    BY <1>1, <1>3 DEF Settled
  <2> QED
    BY <1>1, <1>2, <1>3, <2>1, EndBalances
<1>5. RunningWithinLimit'
  BY <1>1, FewerHeld
<1>6. Attempts' /\ DeadAreExhausted'
  BY <1>1 DEF Books, Attempts, DeadAreExhausted
<1> QED
  BY <1>1, <1>2, <1>4, <1>5, <1>6 DEF Books, BookTypes

LEMMA BooksSuccess ==
  ASSUME IInv, Books, NEW w \in Worker, HandlerSucceeds(w) PROVE Books'
<1> DEFINE j == worker[w].job
<1>1. /\ running_jobs' = running_jobs \ {j} /\ UNCHANGED held /\ worker[w].at = "handling"
      /\ worker' = [worker EXCEPT ![w] = Idle]
      /\ finished' = finished \cup {j} /\ jobs_processed' = jobs_processed + 1
      /\ UNCHANGED <<pending, dead_letter_queue, drained, timed_out, jobs_enqueued, jobs_dead,
                     jobs_failed, jobs_retried, attempts, owner, started, shutdown>>
  BY DEF HandlerSucceeds
<1>2. j \in Job /\ j \in running_jobs
  BY <1>1, WorkerReleases
<1> HIDE DEF j
<1>3. jobs_processed \in Nat /\ jobs_dead \in Nat /\ Len(pending) \in Nat /\ Sleeping(owner) \in Nat
  BY PendingLen DEF Books, BookTypes, IInv, Sleeping
<1>4. IsFiniteSet(running_jobs') /\ CountersBalance'
  <2>1. Settled' = Settled + 1 /\ jobs_processed' \in Nat /\ jobs_dead' \in Nat
    BY <1>1, <1>3 DEF Settled
  <2> QED
    BY <1>1, <1>2, <1>3, <2>1, EndBalances
<1>5. RunningWithinLimit'
  BY <1>1, FewerHeld
<1> QED
  BY <1>1, <1>2, <1>4, <1>5 DEF Books, BookTypes, Attempts, DeadAreExhausted

LEMMA BooksFailure ==
  ASSUME IInv, Books, NEW w \in Worker, HandlerFails(w) PROVE Books'
<1> DEFINE j == worker[w].job
<1>1. /\ running_jobs' = running_jobs \ {j} /\ worker[w].at = "handling"
      /\ worker' = [worker EXCEPT ![w] = Idle]
      /\ attempts' = [attempts EXCEPT ![j] = @ + 1]
      /\ UNCHANGED <<held, owner, drained, timed_out, finished, jobs_enqueued, jobs_processed,
                     started, shutdown>>
  BY DEF HandlerFails, history
<1>2. j \in Job /\ j \in running_jobs
  BY <1>1, WorkerReleases
<1>3. /\ jobs_processed \in Nat /\ jobs_dead \in Nat /\ Len(pending) \in Nat
      /\ Sleeping(owner) \in Nat
  BY PendingLen DEF Books, BookTypes, IInv, Sleeping
<1>4. RunningWithinLimit'
  BY <1>1, FewerHeld
<1>5. CASE RetryLeft(attempts[j] + 1)
  <2>1. /\ pending' = Append(pending, j) /\ jobs_retried' = jobs_retried + 1
        /\ UNCHANGED <<dead_letter_queue, jobs_failed, jobs_dead>>
    BY <1>5 DEF HandlerFails
  <2>2. Len(pending') = Len(pending) + 1
    BY <1>2, <2>1, PendingLen DEF IInv
  <2> HIDE DEF j
  <2>3. IsFiniteSet(running_jobs') /\ CountersBalance'
    <3>1. Settled' = Settled + 1 /\ Len(pending') \in Nat
      BY <1>1, <1>3, <2>1, <2>2 DEF Settled
    <3> QED
      BY <1>1, <1>2, <1>3, <2>1, <3>1, EndBalances
  <2>4. Attempts' /\ DeadAreExhausted'
    BY <1>1, <1>2, <1>5, <2>1, FailedAttempt
  <2> QED
    BY <1>1, <1>4, <2>1, <2>3, <2>4 DEF Books, BookTypes
<1>6. CASE ~RetryLeft(attempts[j] + 1)
  <2>1. /\ dead_letter_queue' = dead_letter_queue \cup {j}
        /\ jobs_failed' = jobs_failed + 1 /\ jobs_dead' = jobs_dead + 1
        /\ UNCHANGED <<pending, jobs_retried>>
    BY <1>6 DEF HandlerFails, Bury
  <2> HIDE DEF j
  <2>2. IsFiniteSet(running_jobs') /\ CountersBalance'
    <3>1. Settled' = Settled + 1 /\ jobs_dead' \in Nat
      BY <1>1, <1>3, <2>1 DEF Settled
    <3> QED
      BY <1>1, <1>2, <1>3, <2>1, <3>1, EndBalances
  <2>3. Attempts' /\ DeadAreExhausted'
    BY <1>1, <1>2, <1>6, <2>1, FailedAttempt
  <2> QED
    BY <1>1, <1>4, <2>1, <2>2, <2>3 DEF Books, BookTypes
<1> QED
  BY <1>5, <1>6

LEMMA BooksStep == IInv /\ Books /\ [QueueNext]_queueVars => Books'
<1> SUFFICES ASSUME IInv, Books, [QueueNext]_queueVars PROVE Books'
  OBVIOUS
<1>1. CASE Start \/ Stop \/ UNCHANGED queueVars
  BY <1>1, BooksQuiet DEF Start, Stop, queueVars, Books, BookTypes
<1>2. ASSUME NEW w \in Worker, WorkerExits(w) \/ WorkerHandles(w) \/ HandlerHangs(w)
      PROVE  Books'
  <2>1. UNCHANGED <<lists, history, held, attempts, counters, owner, started, shutdown>>
    BY <1>2 DEF WorkerExits, WorkerHandles, HandlerHangs
  <2> QED
    BY <2>1, BooksQuiet DEF Books, BookTypes
<1> QED
  BY <1>1, <1>2, BooksEnqueue, BooksEnqueueCounts, BooksDequeue, BooksComplete, BooksFail,
     BooksBackoff, BooksDrain, BooksTake, BooksTimeout, BooksSuccess, BooksFailure
     DEF QueueNext, WorkerStep

LEMMA QueueBooks == QueueSpec => [](IInv /\ Books)
BY QueueInitOK, QueueStep, BooksInit, BooksStep, PTL DEF QueueSpec

\* The state keeps its types: no job is ever failed more than MaxRetries + 1
\* times, by whomever.
THEOREM QueueTypes == QueueSpec => []QueueTypeOK
<1>1. IInv /\ Books => QueueTypeOK
  BY DEF IInv, Shapes, Books, BookTypes, Attempts, QueueTypeOK, WorkerRecord, OwnerRecord
<1> QED
  BY QueueBooks, <1>1, PTL

\* The five counters add up at every moment, for any number of jobs and
\* workers: what was enqueued is processed, dead, or still in the queue, also
\* between the push and the count of enqueue() and during a backoff.
THEOREM CountersAddUp == QueueSpec => []CountersBalance
<1>1. Books => CountersBalance
  BY DEF Books
<1> QED
  BY QueueBooks, <1>1, PTL

\* dequeue() never has more than max_workers jobs in hand, although workers
\* take jobs without looking at that limit.
THEOREM ManualLimit == QueueSpec => []RunningWithinLimit
<1>1. Books => RunningWithinLimit
  BY DEF Books
<1> QED
  BY QueueBooks, <1>1, PTL

\* Unless the timeout check buried it, a dead job has failed its first attempt
\* and every retry, over any mix of workers and manual calls.
THEOREM DeadWereExhausted == QueueSpec => []DeadAreExhausted
<1>1. Books => DeadAreExhausted
  BY DEF Books
<1> QED
  BY QueueBooks, <1>1, PTL


-----------------------------------------------------------------------------
(* scheduler-shim                                                          *)

SchedulerSpec == SchedulerInit /\ [][SchedulerNext]_schedulerVars

LEMMA DivMod ==
  ASSUME NEW a \in Nat, NEW b \in Nat \ {0}
  PROVE  /\ a \div b \in Nat /\ a % b \in 0..(b - 1)
         /\ a = b * (a \div b) + (a % b)
OBVIOUS

LEMMA NextMultiple ==
  ASSUME NEW p \in Nat \ {0}, NEW m \in Nat, NEW q \in Nat, p * q < p * m
  PROVE  p * q + p <= p * m
<1>1. q < m
  <2> SUFFICES ASSUME m <= q PROVE FALSE
    OBVIOUS
  <2>1. p * m <= p * q
    OBVIOUS
  <2> QED
    BY <2>1
<1>2. q + 1 <= m
  BY <1>1
<1>3. p * (q + 1) <= p * m
  BY <1>2
<1> QED
  BY <1>3

\* The next time due of a task is a time due of every task whose period
\* divides its own, which is then due no later.
LEMMA DueNoLater ==
  ASSUME NEW s \in Tasks, NEW t \in Tasks, Period[t] % Period[s] = 0, clock \in Nat
  PROVE  Upcoming(s) <= Upcoming(t)
<1> DEFINE p == Period[s]
           r == Period[t]
           k == r \div p
           m == clock \div r
           q == clock \div p
<1>1. p \in Nat \ {0} /\ r \in Nat \ {0}
  BY SchedulerAssumption DEF Tasks
<1> HIDE DEF p, r
<1>2. k \in Nat /\ r = p * k
  <2>1. r % p = 0
    BY DEF p, r
  <2> QED
    BY <1>1, <2>1, DivMod
<1>3. m \in Nat /\ clock % r \in 0..(r - 1) /\ clock = r * m + (clock % r)
  BY <1>1, DivMod
<1>4. q \in Nat /\ clock % p \in 0..(p - 1) /\ clock = p * q + (clock % p)
  BY <1>1, DivMod
<1> HIDE DEF k, m, q
<1>5. k * (m + 1) \in Nat /\ r * m + r = p * (k * (m + 1))
  <2>1. k * (m + 1) \in Nat
    BY <1>2, <1>3
  <2>2. p * (k * (m + 1)) = (p * k) * (m + 1)
    BY <1>1, <1>2, <1>3
  <2>3. r * (m + 1) = r * m + r
    BY <1>1, <1>3
  <2> QED
    BY <1>2, <2>1, <2>2, <2>3
<1>6. p * q < p * (k * (m + 1))
  BY <1>1, <1>3, <1>4, <1>5
<1>7. p * q + p <= r * m + r
  BY <1>1, <1>4, <1>5, <1>6, NextMultiple
<1>8. p * q \in Nat /\ r * m \in Nat
  BY <1>1, <1>3, <1>4
<1>9. p - (clock % p) <= r - (clock % r)
  BY <1>1, <1>3, <1>4, <1>7, <1>8
<1> QED
  BY <1>9 DEF Upcoming, p, r

\* A task listed after one whose period divides its own.
Shadowed(t) == \E s \in Tasks : s < t /\ Period[t] % Period[s] = 0

\* A flaw of the loop, against "executes tasks" (scheduler-shim/README.md:3):
\* a task all of whose due times are those of a task listed before it starves.
\* The tie goes to the earlier one, and upcoming() is then strictly after the
\* time both were due.
ShadowedTaskStarves == \A t \in Tasks : Shadowed(t) => t \notin runs

\* What the loop holds is a task that is not shadowed, Running while its
\* handler is called.
LoopInv ==
  /\ clock \in Nat /\ attempt \in Nat
  /\ sched \in {"off", "pick", "sleep", "run", "retry", "hung"}
  /\ taskState \in [Tasks -> {"Pending", "Running", "Success", "Failed"}]
  /\ tries \in [Tasks -> Nat]
  /\ sched \in {"sleep", "run", "retry"} => picked \in Tasks /\ ~Shadowed(picked)
  /\ sched \in {"run", "retry"} => taskState[picked] = "Running"
  /\ ShadowedTaskStarves
  /\ FailedMeansExhausted

LEMMA EarliestIsNotShadowed ==
  ASSUME clock \in Nat, NEW t \in Earliest
  PROVE  t \in Tasks /\ ~Shadowed(t)
<1>1. t \in Tasks
  BY DEF Earliest
<1> SUFFICES ASSUME NEW s \in Tasks, s < t, Period[t] % Period[s] = 0
             PROVE  FALSE
  BY <1>1 DEF Shadowed
<1>2. Upcoming(s) <= Upcoming(t)
  BY <1>1, DueNoLater
<1>3. Upcoming(t) < Upcoming(s)
  BY DEF Earliest
<1>4. Upcoming(s) \in Int /\ Upcoming(t) \in Int
  <2>1. \A u \in Tasks : Period[u] \in Nat \ {0}
    BY SchedulerAssumption DEF Tasks
  <2>2. clock % Period[s] \in Int /\ clock % Period[t] \in Int
    BY <1>1, <2>1, DivMod
  <2> QED
    BY <1>1, <2>1, <2>2 DEF Upcoming
<1> QED
  BY <1>2, <1>3, <1>4

LEMMA LoopInit == SchedulerInit => LoopInv
<1> SUFFICES ASSUME SchedulerInit PROVE LoopInv
  OBVIOUS
<1> QED
  BY DEF SchedulerInit, LoopInv, FailedMeansExhausted, ShadowedTaskStarves

LEMMA LoopStep == LoopInv /\ [SchedulerNext]_schedulerVars => LoopInv'
<1> SUFFICES ASSUME LoopInv, [SchedulerNext]_schedulerVars PROVE LoopInv'
  OBVIOUS
<1> USE DEF ShadowedTaskStarves
<1>1. CASE SchedulerStart
  BY <1>1 DEF LoopInv, SchedulerStart, FailedMeansExhausted, Shadowed
<1>2. CASE SchedulerStop
  BY <1>2 DEF LoopInv, SchedulerStop, FailedMeansExhausted, Shadowed
<1>3. CASE PickTask
  <2>1. picked' \in Tasks /\ ~Shadowed(picked')
    BY <1>3, EarliestIsNotShadowed DEF PickTask, LoopInv
  <2> QED
    BY <1>3, <2>1 DEF LoopInv, PickTask, FailedMeansExhausted
<1>4. CASE FireTask
  <2>1. picked \in Tasks /\ ~Shadowed(picked)
    BY <1>4 DEF FireTask, LoopInv
  <2>2. clock' \in Nat
    <3>1. PICK jitter \in 0..(Upcoming(picked) \div 4) :
                 clock' = (clock + Upcoming(picked) + jitter) % Day
      BY <1>4 DEF FireTask
    <3>2. Period[picked] \in Nat \ {0} /\ clock \in Nat
      BY <2>1, SchedulerAssumption DEF Tasks, LoopInv
    <3>3. Upcoming(picked) \in Nat
      <4> DEFINE p == Period[picked]
      <4>1. p \in Nat \ {0}
        BY <3>2
      <4> HIDE DEF p
      <4>2. clock % p \in 0..(p - 1)
        BY <3>2, <4>1, DivMod
      <4>3. p - (clock % p) \in Nat
        BY <4>1, <4>2
      <4> QED
        BY <4>3 DEF Upcoming, p
    <3>4. Upcoming(picked) \div 4 \in Nat
      BY <3>3, DivMod
    <3>5. clock + Upcoming(picked) + jitter \in Nat
      BY <3>2, <3>3, <3>4
    <3>6. Day \in Nat \ {0}
      BY SchedulerAssumption
    <3> DEFINE x == clock + Upcoming(picked) + jitter
    <3> HIDE DEF x
    <3>7. x \in Nat /\ clock' = x % Day
      BY <3>1, <3>5 DEF x
    <3>8. x % Day \in 0..(Day - 1)
      BY <3>6, <3>7, DivMod
    <3>9. x % Day \in Nat
      BY <3>6, <3>8
    <3> QED
      BY <3>7, <3>9
  <2>3. /\ taskState' \in [Tasks -> {"Pending", "Running", "Success", "Failed"}]
        /\ taskState'[picked] = "Running"
        /\ \A t \in Tasks : taskState'[t] = "Failed" => taskState[t] = "Failed"
    BY <1>4, <2>1 DEF FireTask, LoopInv
  <2>4. \A t \in Tasks : Shadowed(t) => t \notin runs'
    BY <1>4, <2>1 DEF FireTask, LoopInv
  <2>5. /\ attempt' = 0 /\ sched' = "run"
        /\ picked' = picked /\ tries' = tries
    BY <1>4 DEF FireTask
  <2> QED
    BY <2>1, <2>2, <2>3, <2>4, <2>5 DEF LoopInv, FailedMeansExhausted
<1>5. CASE SleepInterrupted
  BY <1>5 DEF LoopInv, SleepInterrupted, FailedMeansExhausted, Shadowed
<1>6. CASE RunHandler
  <2>1. picked \in Tasks /\ ~Shadowed(picked) /\ taskState[picked] = "Running"
    BY <1>6 DEF RunHandler, LoopInv
  <2>2. clock' \in Nat
    BY <1>6, SchedulerAssumption DEF RunHandler
  <2>3. /\ tries' \in [Tasks -> Nat] /\ tries'[picked] = attempt + 1
        /\ \A t \in Tasks \ {picked} : tries'[t] = tries[t]
    BY <1>6, <2>1 DEF RunHandler, LoopInv
  <2>4. picked' = picked /\ runs' = runs
    BY <1>6 DEF RunHandler
  <2>5. CASE Finish("Success")
    BY <2>1, <2>2, <2>3, <2>4, <2>5 DEF Finish, LoopInv, FailedMeansExhausted
  <2>6. CASE attempt = TaskRetries /\ Finish("Failed")
    BY <2>1, <2>2, <2>3, <2>4, <2>6 DEF Finish, LoopInv, FailedMeansExhausted
  <2>7. CASE sched' = "retry" /\ attempt' = attempt + 1 /\ UNCHANGED taskState
    BY <2>1, <2>2, <2>3, <2>4, <2>7 DEF LoopInv, FailedMeansExhausted
  <2> QED
    BY <1>6, <2>5, <2>6, <2>7 DEF RunHandler
<1>7. CASE RetryDelay
  <2>1. clock' \in Nat
    BY <1>7, SchedulerAssumption DEF RetryDelay
  <2> QED
    BY <1>7, <2>1 DEF LoopInv, RetryDelay, FailedMeansExhausted
<1>8. CASE TaskHangs
  BY <1>8 DEF LoopInv, TaskHangs, FailedMeansExhausted
<1>9. CASE UNCHANGED schedulerVars
  BY <1>9 DEF LoopInv, schedulerVars, FailedMeansExhausted
<1> QED
  BY <1>1, <1>2, <1>3, <1>4, <1>5, <1>6, <1>7, <1>8, <1>9 DEF SchedulerNext

LEMMA LoopHolds == SchedulerSpec => []LoopInv
BY LoopInit, LoopStep, PTL DEF SchedulerSpec

\* The flaw, for any list of periods: a task all of whose due times are those
\* of a task listed before it is never run by the loop of start().
THEOREM ShadowedNeverRun == SchedulerSpec => []ShadowedTaskStarves
<1>1. LoopInv => ShadowedTaskStarves
  BY DEF LoopInv
<1> QED
  BY LoopHolds, <1>1, PTL

\* A task reported Failed has had its handler called max_retries + 1 times,
\* for any max_retries and whatever the handler does.
THEOREM FailedWereRetried == SchedulerSpec => []FailedMeansExhausted
<1>1. LoopInv => FailedMeansExhausted
  BY DEF LoopInv
<1> QED
  BY LoopHolds, <1>1, PTL

-----------------------------------------------------------------------------
(* MultiClusterMonitor                                                     *)

ClusterSpec == ClusterInit /\ [][ClusterNext]_clusterVars

FailureCounts == [Cluster -> 0..ClusterThreshold]

\* The count of failed rounds that the task keeps is the outage: no other
\* cluster, no partial answer and no promotion disturbs it.
ClusterIInv ==
  /\ ClusterTypeOK
  /\ monitor \in [status : [Cluster -> ClusterStatus], failures : FailureCounts,
                  primary : Cluster, promotions : Nat]
  /\ loop \in [run : {"off", "on", "stopping", "ended", "hung"}, status : [Cluster -> ClusterStatus],
               failures : FailureCounts, primary : Cluster]
  /\ loop.failures = outage

LEMMA ClusterInitOK == ClusterInit => ClusterIInv
<1> SUFFICES ASSUME ClusterInit PROVE ClusterIInv
  OBVIOUS
<1>1. NoFailures \in FailureCounts /\ AllUnknown \in [Cluster -> ClusterStatus]
  BY ClusterAssumption DEF NoFailures, AllUnknown, FailureCounts, ClusterStatus
<1>2. reach \in [Cluster -> Nat] /\ \A c \in Cluster : reach[c] <= Endpoints[c]
  BY ClusterAssumption DEF ClusterInit
<1> QED
  BY <1>1, <1>2, ClusterAssumption DEF ClusterInit, ClusterIInv, ClusterTypeOK, FailureCounts

\* What a round of checks makes of the counts, and of the status of each
\* cluster: Healthy is every endpoint, Failed is a full count.
LEMMA RoundOK ==
  ASSUME ClusterTypeOK, NEW f \in FailureCounts
  PROVE  /\ FailuresNext(f) \in FailureCounts
         /\ StatusNext(f) \in [Cluster -> ClusterStatus]
         /\ \A c \in Cluster :
              /\ StatusNext(f)[c] = "Healthy" => reach[c] = Endpoints[c]
              /\ StatusNext(f)[c] = "Failed" => FailuresNext(f)[c] = ClusterThreshold
<1>1. FailuresNext(f) \in FailureCounts
  BY ClusterAssumption DEF FailuresNext, CountUp, FailureCounts
<1>2. ASSUME NEW c \in Cluster
      PROVE  /\ StatusNext(f)[c] \in ClusterStatus
             /\ StatusNext(f)[c] = "Healthy" => reach[c] = Endpoints[c]
             /\ StatusNext(f)[c] = "Failed" => FailuresNext(f)[c] = ClusterThreshold
  <2>1. /\ reach[c] \in Nat /\ Endpoints[c] \in Nat \ {0} /\ reach[c] <= Endpoints[c]
        /\ ClusterThreshold \in Nat
    BY ClusterAssumption DEF ClusterTypeOK
  <2>2. FailuresNext(f)[c] \in 0..ClusterThreshold
    BY <1>1 DEF FailureCounts
  <2>3. CASE reach[c] = Endpoints[c]
    <3>1. StatusNext(f)[c] = "Healthy"
      BY <2>1, <2>3 DEF StatusNext
    <3> QED
      BY <2>3, <3>1 DEF ClusterStatus
  <2>4. CASE reach[c] > 0 /\ reach[c] < Endpoints[c]
    <3>1. StatusNext(f)[c] = "Degraded"
      BY <2>1, <2>4 DEF StatusNext
    <3> QED
      BY <3>1 DEF ClusterStatus
  <2>5. CASE reach[c] = 0 /\ FailuresNext(f)[c] >= ClusterThreshold
    <3>1. StatusNext(f)[c] = "Failed"
      BY <2>1, <2>2, <2>5 DEF StatusNext
    <3> QED
      BY <2>1, <2>2, <2>5, <3>1 DEF ClusterStatus
  <2>6. CASE reach[c] = 0 /\ FailuresNext(f)[c] < ClusterThreshold
    <3>1. StatusNext(f)[c] = "Degraded"
      BY <2>1, <2>2, <2>6 DEF StatusNext
    <3> QED
      BY <3>1 DEF ClusterStatus
  <2> QED
    BY <2>1, <2>2, <2>3, <2>4, <2>5, <2>6
<1>3. StatusNext(f) \in [Cluster -> ClusterStatus]
  BY <1>2 DEF StatusNext
<1> QED
  BY <1>1, <1>2, <1>3

LEMMA ClusterStep == ClusterIInv /\ [ClusterNext]_clusterVars => ClusterIInv'
<1> SUFFICES ASSUME ClusterIInv, [ClusterNext]_clusterVars PROVE ClusterIInv'
  OBVIOUS
<1>1. CASE EndpointsChange
  <2>1. reach' \in [Cluster -> Nat] /\ \A c \in Cluster : reach'[c] <= Endpoints[c]
    <3>1. PICK c \in Cluster, n \in 0..2 : n <= Endpoints[c] /\ reach' = [reach EXCEPT ![c] = n]
      BY <1>1 DEF EndpointsChange
    <3>2. reach \in [Cluster -> Nat] /\ n \in Nat /\ \A d \in Cluster : reach[d] <= Endpoints[d]
      BY DEF ClusterIInv, ClusterTypeOK
    <3> QED
      BY <3>1, <3>2
  <2> QED
    BY <1>1, <2>1 DEF EndpointsChange, ClusterIInv, ClusterTypeOK
<1>2. CASE CheckAllClusters
  <2>1. /\ FailuresNext(monitor.failures) \in FailureCounts
        /\ StatusNext(monitor.failures) \in [Cluster -> ClusterStatus]
    BY RoundOK DEF ClusterIInv
  <2>2. monitor' \in [status : [Cluster -> ClusterStatus], failures : FailureCounts,
                      primary : Cluster, promotions : Nat]
    BY <1>2, <2>1 DEF CheckAllClusters, ClusterIInv
  <2> QED
    BY <1>2, <2>2 DEF CheckAllClusters, ClusterIInv, ClusterTypeOK
<1>3. CASE PromoteSecondary
  <2>1. PICK target \in Candidates(monitor.status, monitor.primary) :
          monitor' = [monitor EXCEPT !.primary = target, !.promotions = @ + 1]
    BY <1>3 DEF PromoteSecondary
  <2>2. target \in Cluster
    BY DEF Candidates
  <2>3. monitor' \in [status : [Cluster -> ClusterStatus], failures : FailureCounts,
                      primary : Cluster, promotions : Nat]
    <3> DEFINE S == [Cluster -> ClusterStatus]
    <3> HIDE DEF S
    <3>1. monitor \in [status : S, failures : FailureCounts, primary : Cluster, promotions : Nat]
      BY DEF ClusterIInv, S
    <3>2. monitor' \in [status : S, failures : FailureCounts, primary : Cluster, promotions : Nat]
      <4>1. monitor.promotions + 1 \in Nat
        BY <3>1
      <4>2. \A n \in Nat : [monitor EXCEPT !.primary = target, !.promotions = n]
              \in [status : S, failures : FailureCounts, primary : Cluster, promotions : Nat]
        BY <2>2, <3>1
      <4>3. monitor' = [monitor EXCEPT !.primary = target, !.promotions = monitor.promotions + 1]
        BY <2>1
      <4> QED
        BY <4>1, <4>2, <4>3
    <3> QED
      BY <3>2 DEF S
  <2> QED
    BY <1>3, <2>3 DEF PromoteSecondary, ClusterIInv, ClusterTypeOK
<1>4. CASE StartLoop
  <2>1. NoFailures \in FailureCounts /\ AllUnknown \in [Cluster -> ClusterStatus]
    BY ClusterAssumption DEF NoFailures, AllUnknown, FailureCounts, ClusterStatus
  <2>2. /\ loop' \in [run : {"off", "on", "stopping", "ended", "hung"},
                      status : [Cluster -> ClusterStatus],
                      failures : FailureCounts, primary : Cluster]
        /\ loop'.failures = NoFailures
    BY <1>4, <2>1 DEF StartLoop, ClusterIInv
  <2> QED
    BY <1>4, <2>1, <2>2 DEF StartLoop, ClusterIInv, ClusterTypeOK, FailureCounts
<1>5. CASE LoopTick
  <2>1. /\ FailuresNext(loop.failures) \in FailureCounts
        /\ StatusNext(loop.failures) \in [Cluster -> ClusterStatus]
    BY RoundOK DEF ClusterIInv
  <2>2. outage' = FailuresNext(loop.failures)
    <3>1. \A c \in Cluster : reach[c] \in Nat
      BY DEF ClusterIInv, ClusterTypeOK
    <3> QED
      BY <1>5, <3>1 DEF LoopTick, FailuresNext, ClusterIInv
  <2>3. PICK next \in Cluster, run \in {loop.run, "hung"} :
          loop' = [run |-> run, status |-> StatusNext(loop.failures),
                   failures |-> FailuresNext(loop.failures), primary |-> next]
    BY <1>5 DEF LoopTick, Candidates, ClusterIInv
  <2>4. /\ loop' \in [run : {"off", "on", "stopping", "ended", "hung"},
                      status : [Cluster -> ClusterStatus],
                      failures : FailureCounts, primary : Cluster]
        /\ loop'.failures = FailuresNext(loop.failures)
    BY <2>1, <2>3 DEF ClusterIInv
  <2> QED
    BY <1>5, <2>1, <2>2, <2>4 DEF LoopTick, ClusterIInv, ClusterTypeOK, FailureCounts
<1>6. CASE LoopStop
  BY <1>6 DEF LoopStop, ClusterIInv, ClusterTypeOK
<1>7. CASE LoopEnds
  BY <1>7 DEF LoopEnds, ClusterIInv, ClusterTypeOK
<1>8. CASE UNCHANGED clusterVars
  BY <1>8 DEF clusterVars, ClusterIInv, ClusterTypeOK
<1> QED
  BY <1>1, <1>2, <1>3, <1>4, <1>5, <1>6, <1>7, <1>8 DEF ClusterNext

(* For any clusters, endpoints and threshold: the task of start_loop()     *)
(* leaves a primary only after ClusterThreshold consecutive rounds in      *)
(* which none of its endpoints answered, and goes only to a cluster all of *)
(* whose endpoints answered in this round.                                 *)
THEOREM PromotionsAreEarned == ClusterSpec => PromotionIsEarned
<1> DEFINE Earned ==
      (loop.run # "off" /\ loop'.primary # loop.primary) =>
         /\ outage'[loop.primary] = ClusterThreshold
         /\ reach[loop'.primary] = Endpoints[loop'.primary]
<1>1. ClusterIInv /\ [ClusterNext]_clusterVars => [Earned]_clusterVars
  <2> SUFFICES ASSUME ClusterIInv, ClusterNext, loop.run # "off",
                      loop'.primary # loop.primary
               PROVE  /\ outage'[loop.primary] = ClusterThreshold
                      /\ reach[loop'.primary] = Endpoints[loop'.primary]
    OBVIOUS
  <2> DEFINE status == StatusNext(loop.failures)
  <2>1. LoopTick
    BY DEF ClusterNext, EndpointsChange, CheckAllClusters, PromoteSecondary, StartLoop,
           LoopStop, LoopEnds, ClusterIInv
  <2>2. loop.failures \in FailureCounts /\ loop.primary \in Cluster
    BY DEF ClusterIInv
  <2>3. PICK next \in IF status[loop.primary] = "Failed"
                         /\ Candidates(status, loop.primary) # {}
                      THEN Candidates(status, loop.primary) ELSE {loop.primary} :
          \E run \in {loop.run, "hung"} :
            loop' = [run |-> run, status |-> status,
                     failures |-> FailuresNext(loop.failures), primary |-> next]
    BY <2>1 DEF LoopTick
  <2> HIDE DEF status
  <2>4. loop'.primary = next
    BY <2>3 DEF ClusterIInv
  <2>5. /\ status[loop.primary] = "Failed" /\ next \in Cluster
        /\ status[next] = "Healthy"
    BY <2>3, <2>4 DEF Candidates
  <2>6. outage' = FailuresNext(loop.failures)
    <3>1. \A c \in Cluster : reach[c] \in Nat
      BY DEF ClusterIInv, ClusterTypeOK
    <3> QED
      BY <2>1, <3>1 DEF LoopTick, FailuresNext, ClusterIInv
  <2>7. /\ reach[next] = Endpoints[next]
        /\ FailuresNext(loop.failures)[loop.primary] = ClusterThreshold
    BY <2>2, <2>5, RoundOK DEF ClusterIInv, status
  <2> QED
    BY <2>4, <2>6, <2>7
<1> QED
  BY ClusterInitOK, ClusterStep, <1>1, PTL DEF ClusterSpec, PromotionIsEarned

(* The monitor's and the task's state keep their types, counters included. *)
THEOREM ClusterTypes == ClusterSpec => []ClusterTypeOK
<1>1. ClusterIInv => ClusterTypeOK
  BY DEF ClusterIInv
<1> QED
  BY ClusterInitOK, ClusterStep, <1>1, PTL DEF ClusterSpec

-----------------------------------------------------------------------------
(* PatroniMonitor and RedisSentinelMonitor                                 *)

MonitorsNext ==
  \/ PatroniNext /\ UNCHANGED sentinel
  \/ SentinelNext /\ UNCHANGED patroni
MonitorsSpec == MonitorsInit /\ [][MonitorsNext]_<<patroni, sentinel>>

MonitorsIInv ==
  /\ patroni \in [run : BOOLEAN, recovery : {"none", "primary", "replica"},
                  said : {"none", "unknown", "primary", "replica"}, lagWarned : BOOLEAN]
  /\ sentinel \in [run : BOOLEAN, master : Master \cup {"none"}, said : Master \cup {"none"}]
  /\ AnnouncedIsSeen

(* Over any number of failed checks, restarts and changes of role: the     *)
(* last role or master announced is the last one seen, or, for a Patroni   *)
(* node that could not be reached, unknown.                                *)
THEOREM AnnouncementsWereSeen == MonitorsSpec => []AnnouncedIsSeen
<1>1. MonitorsInit => MonitorsIInv
  BY DEF MonitorsInit, MonitorsIInv, AnnouncedIsSeen
<1>2. MonitorsIInv /\ [MonitorsNext]_<<patroni, sentinel>> => MonitorsIInv'
  <2> SUFFICES ASSUME MonitorsIInv, [MonitorsNext]_<<patroni, sentinel>> PROVE MonitorsIInv'
    OBVIOUS
  <2> USE DEF MonitorsIInv, AnnouncedIsSeen
  <2>1. CASE PatroniStart /\ UNCHANGED sentinel
    BY <2>1 DEF PatroniStart
  <2>2. CASE PatroniHealthy /\ UNCHANGED sentinel
    <3>1. PICK found \in patroni_check :
            patroni' = [patroni EXCEPT
              !.said = IF patroni.recovery \notin {"none", found.role} THEN found.role ELSE @,
              !.recovery = found.role, !.lagWarned = found.lagging]
      BY <2>2 DEF PatroniHealthy
    <3>2. found.role \in {"primary", "replica"} /\ found.lagging \in BOOLEAN
      BY DEF patroni_check
    <3>3. /\ patroni'.said = IF patroni.recovery \notin {"none", found.role}
                             THEN found.role ELSE patroni.said
          /\ patroni'.recovery = found.role
          /\ patroni' \in [run : BOOLEAN, recovery : {"none", "primary", "replica"},
               said : {"none", "unknown", "primary", "replica"}, lagWarned : BOOLEAN]
      BY <3>1, <3>2
    <3> QED
      BY <2>2, <3>3
  <2>3. CASE PatroniUnreachable /\ UNCHANGED sentinel
    BY <2>3 DEF PatroniUnreachable
  <2>4. CASE PatroniStop /\ UNCHANGED sentinel
    BY <2>4 DEF PatroniStop
  <2>5. CASE SentinelStart /\ UNCHANGED patroni
    BY <2>5 DEF SentinelStart
  <2>6. CASE SentinelMaster /\ UNCHANGED patroni
    <3>1. PICK m \in Master :
            sentinel' = [sentinel EXCEPT
              !.said = IF sentinel.master \notin {"none", m} THEN m ELSE @, !.master = m]
      BY <2>6 DEF SentinelMaster, redis_sentinel_check
    <3>2. /\ sentinel'.said = IF sentinel.master \notin {"none", m} THEN m ELSE sentinel.said
          /\ sentinel'.master = m
          /\ sentinel' \in [run : BOOLEAN, master : Master \cup {"none"},
                            said : Master \cup {"none"}]
      BY <3>1
    <3> QED
      BY <2>6, <3>2
  <2>7. CASE UNCHANGED <<patroni, sentinel>>
    BY <2>7
  <2>8. CASE SentinelStop /\ UNCHANGED patroni
    BY <2>8 DEF SentinelStop
  <2> QED
    BY <2>1, <2>2, <2>3, <2>4, <2>5, <2>6, <2>7, <2>8
       DEF MonitorsNext, PatroniNext, SentinelNext, SentinelUnreachable
<1>3. MonitorsIInv => AnnouncedIsSeen
  BY DEF MonitorsIInv
<1> QED
  BY <1>1, <1>2, <1>3, PTL DEF MonitorsSpec

-----------------------------------------------------------------------------
(* The services together                                                   *)

\* A step of the whole is, for every component, one of its own or none.
LEMMA ServicesRunEach ==
  /\ Spec => QueueSpec
  /\ Spec => SchedulerSpec
  /\ Spec => ClusterSpec
  /\ Spec => MonitorsSpec
<1>1. Spec => QueueSpec
  <2>1. [Next]_serviceVars => [QueueNext]_queueVars
    BY DEF Next, serviceVars
  <2>2. Init => QueueInit
    BY DEF Init
  <2> QED
    BY <2>1, <2>2, PTL DEF Spec, QueueSpec
<1>2. Spec => SchedulerSpec
  <2>1. [Next]_serviceVars => [SchedulerNext]_schedulerVars
    BY DEF Next, serviceVars
  <2>2. Init => SchedulerInit
    BY DEF Init
  <2> QED
    BY <2>1, <2>2, PTL DEF Spec, SchedulerSpec
<1>3. Spec => ClusterSpec
  <2>1. [Next]_serviceVars => [ClusterNext]_clusterVars
    BY DEF Next, serviceVars
  <2>2. Init => ClusterInit
    BY DEF Init
  <2> QED
    BY <2>1, <2>2, PTL DEF Spec, ClusterSpec
<1>4. Spec => MonitorsSpec
  <2>1. [Next]_serviceVars => [MonitorsNext]_<<patroni, sentinel>>
    BY DEF Next, serviceVars, patroniVars, sentinelVars, MonitorsNext
  <2>2. Init => MonitorsInit
    BY DEF Init
  <2> QED
    BY <2>1, <2>2, PTL DEF Spec, MonitorsSpec
<1> QED
  BY <1>1, <1>2, <1>3, <1>4

(* For every value of the constants, and whichever service runs: types,    *)
(* one runner per job, counters, dead letters, announcements and Failed    *)
(* tasks (the properties of queue-shim, scheduler-shim and the stand-alone *)
(* monitors of failover-shim).                                             *)
THEOREM ServicesAddUp == Spec => []ServicesInvariant
<1>1. Spec => /\ []QueueTypeOK /\ []ClusterTypeOK /\ []OneRunnerPerJob
              /\ []CountersBalance /\ []RunningWithinLimit
  BY ServicesRunEach, QueueTypes, ClusterTypes, OneRunner, CountersAddUp, ManualLimit
<1>2. Spec => /\ []DeadAreExhausted /\ []AnnouncedIsSeen
              /\ []FailedMeansExhausted
  BY ServicesRunEach, DeadWereExhausted, AnnouncementsWereSeen, FailedWereRetried
<1> QED
  BY <1>1, <1>2, PTL DEF ServicesInvariant
=============================================================================
