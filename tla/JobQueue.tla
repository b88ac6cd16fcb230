------------------------------ MODULE JobQueue ------------------------------
(***************************************************************************)
(* The in-memory job queue of the queue shim (crates/queue-shim). Workers  *)
(* take jobs, run the handler and retry or bury what fails; the owner of   *)
(* the shim uses the manual API (dequeue, complete_job, fail_job) at the   *)
(* same time. Every critical section of the mutex is one step, so a job is *)
(* followed through the moments when it is in no list at all.              *)
(***************************************************************************)
EXTENDS Integers, Sequences, FiniteSets

CONSTANTS
  Job,            \* the jobs that may be enqueued
  Worker,         \* the tasks of spawn_workers, {} when there is no handler
  MaxWorkers,     \* QUEUE_MAX_WORKERS
  MaxRetries,     \* QUEUE_MAX_RETRIES
  MayHang,        \* may a handler never return
  ClockMayStep,   \* may the wall clock be set back
  None            \* no job

ASSUME WorkersAssumption == MaxWorkers \in Nat \ {0}
ASSUME RetriesAssumption == MaxRetries \in Nat
ASSUME NoneAssumption == None \notin Job

VARIABLES
  created,          \* the jobs enqueued so far
  pending,          \* QueueInner.pending
  running_jobs,     \* QueueInner.running_jobs
  dead_letter_queue,
  drained,          \* what drain_dlq has handed out
  finished,         \* the jobs that completed
  attempts,         \* job -> failed attempts
  timed_out,        \* the jobs buried by the timeout check
  worker,           \* worker -> its job and where its loop is
  owner,            \* where the owner's call is suspended, and with which job
  held,             \* the jobs the owner has dequeued
  jobs_enqueued, jobs_processed, jobs_failed, jobs_retried, jobs_dead,
  started, shutdown

lists == <<pending, running_jobs, dead_letter_queue>>
counters == <<jobs_enqueued, jobs_processed, jobs_failed, jobs_retried, jobs_dead>>
history == <<created, drained, finished, timed_out>>
queueVars == <<lists, counters, history, attempts, worker, owner, held, started,
          shutdown>>

Idle == [at |-> "idle", job |-> None]

QueueTypeOK ==
  /\ pending \in Seq(Job)
  /\ running_jobs \subseteq Job
  /\ dead_letter_queue \subseteq Job
  /\ created \subseteq Job /\ drained \subseteq Job
  /\ finished \subseteq Job /\ timed_out \subseteq Job
  /\ attempts \in [Job -> 0..(MaxRetries + 1)]
  /\ worker \in [Worker -> [at : {"idle", "taken", "handling", "hung", "exited"},
                            job : Job \cup {None}]]
  /\ owner \in [at : {"idle", "counting", "sleeping"}, job : Job \cup {None}]
  /\ held \subseteq Job
  /\ jobs_enqueued \in Nat /\ jobs_processed \in Nat /\ jobs_failed \in Nat
  /\ jobs_retried \in Nat /\ jobs_dead \in Nat
  /\ started \in BOOLEAN /\ shutdown \in BOOLEAN

QueueInit ==
  /\ pending = << >>
  /\ running_jobs = {} /\ dead_letter_queue = {}
  /\ created = {} /\ drained = {} /\ finished = {} /\ timed_out = {}
  /\ attempts = [j \in Job |-> 0]
  /\ worker = [w \in Worker |-> Idle]
  /\ owner = Idle
  /\ held = {}
  /\ jobs_enqueued = 0 /\ jobs_processed = 0 /\ jobs_failed = 0
  /\ jobs_retried = 0 /\ jobs_dead = 0
  /\ started = FALSE /\ shutdown = FALSE

-----------------------------------------------------------------------------
\* The owner. Each call borrows the shim mutably: one at a time.

\* enqueue pushes under the lock and counts after releasing it.
Enqueue(j) ==
  /\ owner = Idle /\ j \notin created
  /\ created' = created \cup {j}
  /\ pending' = Append(pending, j)
  /\ owner' = [at |-> "counting", job |-> j]
  /\ UNCHANGED <<running_jobs, dead_letter_queue, counters, drained, finished,
                 timed_out, attempts, worker, held, started, shutdown>>

EnqueueCounts ==
  /\ owner.at = "counting"
  /\ jobs_enqueued' = jobs_enqueued + 1
  /\ owner' = Idle
  /\ UNCHANGED <<lists, jobs_processed, jobs_failed, jobs_retried, jobs_dead,
                 history, attempts, worker, held, started, shutdown>>

\* dequeue refuses when max_workers jobs run.
RoomToRun == Cardinality(running_jobs) < MaxWorkers

\* pop_front.
WithoutFirst == Tail(pending)

Dequeue ==
  /\ owner = Idle /\ RoomToRun /\ pending # << >>
  /\ running_jobs' = running_jobs \cup {Head(pending)}
  /\ held' = held \cup {Head(pending)}
  /\ pending' = WithoutFirst
  /\ UNCHANGED <<dead_letter_queue, counters, history, attempts, worker, owner,
                 started, shutdown>>

CompleteJob(j) ==
  /\ owner = Idle /\ j \in held /\ j \in running_jobs
  /\ running_jobs' = running_jobs \ {j}
  /\ held' = held \ {j}
  /\ finished' = finished \cup {j}
  /\ jobs_processed' = jobs_processed + 1
  /\ UNCHANGED <<pending, dead_letter_queue, created, drained, timed_out,
                 jobs_enqueued, jobs_failed, jobs_retried, jobs_dead, attempts,
                 worker, owner, started, shutdown>>

\* Is there a retry left after this many failed attempts.
RetryLeft(n) == n <= MaxRetries

\* A job without retries left goes to the dead letters; the mutant forgets
\* one of the two counters.
BuryUncounted(j) ==
  /\ dead_letter_queue' = dead_letter_queue \cup {j}
  /\ jobs_failed' = jobs_failed + 1
  /\ UNCHANGED <<pending, jobs_retried, jobs_dead>>
Bury(j) ==
  /\ dead_letter_queue' = dead_letter_queue \cup {j}
  /\ jobs_failed' = jobs_failed + 1
  /\ jobs_dead' = jobs_dead + 1
  /\ UNCHANGED <<pending, jobs_retried>>

\* fail_job: a retry releases the lock and sleeps with the job in hand.
FailJob(j) ==
  /\ owner = Idle /\ j \in held /\ j \in running_jobs
  /\ running_jobs' = running_jobs \ {j}
  /\ held' = held \ {j}
  /\ attempts' = [attempts EXCEPT ![j] = @ + 1]
  /\ IF RetryLeft(attempts[j] + 1)
       THEN /\ owner' = [at |-> "sleeping", job |-> j]
            /\ jobs_retried' = jobs_retried + 1
            /\ UNCHANGED <<pending, dead_letter_queue, jobs_failed, jobs_dead>>
       ELSE /\ Bury(j)
            /\ UNCHANGED owner
  /\ UNCHANGED <<jobs_enqueued, jobs_processed, history, worker, started,
                 shutdown>>

\* After the backoff the job is pending again; the mutant drops it.
DropRetry(j) == pending
AfterBackoff(j) == Append(pending, j)

BackoffEnds ==
  /\ owner.at = "sleeping"
  /\ pending' = AfterBackoff(owner.job)
  /\ owner' = Idle
  /\ UNCHANGED <<running_jobs, dead_letter_queue, counters, history, attempts,
                 worker, held, started, shutdown>>

DrainDlq ==
  /\ owner = Idle /\ dead_letter_queue # {}
  /\ drained' = drained \cup dead_letter_queue
  /\ dead_letter_queue' = {}
  /\ UNCHANGED <<pending, running_jobs, counters, created, finished, timed_out,
                 attempts, worker, owner, held, started, shutdown>>

Start ==
  /\ owner = Idle /\ ~started
  /\ started' = TRUE
  /\ UNCHANGED <<lists, counters, history, attempts, worker, owner, held,
                 shutdown>>

Stop ==
  /\ owner = Idle /\ started /\ ~shutdown
  /\ shutdown' = TRUE
  /\ UNCHANGED <<lists, counters, history, attempts, worker, owner, held,
                 started>>

-----------------------------------------------------------------------------
\* The workers.

\* The top of the loop sees the shutdown flag.
SeesShutdown == shutdown

WorkerExits(w) ==
  /\ started /\ worker[w].at = "idle" /\ SeesShutdown
  /\ worker' = [worker EXCEPT ![w].at = "exited"]
  /\ UNCHANGED <<lists, counters, history, attempts, owner, held, started,
                 shutdown>>

\* A pending job never has a started_at, so the first timeout check is idle;
\* the job moves to running whatever the number of running jobs.
WorkerTakes(w) ==
  /\ started /\ worker[w].at = "idle" /\ ~shutdown
  /\ pending # << >>
  /\ worker' = [worker EXCEPT ![w] = [at |-> "taken", job |-> Head(pending)]]
  /\ running_jobs' = running_jobs \cup {Head(pending)}
  /\ pending' = WithoutFirst
  /\ UNCHANGED <<dead_letter_queue, counters, history, attempts, owner, held,
                 started, shutdown>>

\* The second check compares the clock with the started_at just written: it
\* is over only if the clock went back and the difference wrapped as u64.
WorkerTimesOut(w) ==
  /\ ClockMayStep /\ worker[w].at = "taken"
  /\ LET j == worker[w].job
     IN  /\ running_jobs' = running_jobs \ {j}
         /\ dead_letter_queue' = dead_letter_queue \cup {j}
         /\ timed_out' = timed_out \cup {j}
  /\ jobs_dead' = jobs_dead + 1
  /\ worker' = [worker EXCEPT ![w] = Idle]
  /\ UNCHANGED <<pending, jobs_enqueued, jobs_processed, jobs_failed,
                 jobs_retried, created, drained, finished, attempts, owner,
                 held, started, shutdown>>

\* The handler runs without the lock and without a deadline.
WorkerHandles(w) ==
  /\ worker[w].at = "taken"
  /\ worker' = [worker EXCEPT ![w].at = "handling"]
  /\ UNCHANGED <<lists, counters, history, attempts, owner, held, started,
                 shutdown>>

HandlerHangs(w) ==
  /\ MayHang /\ worker[w].at = "handling"
  /\ worker' = [worker EXCEPT ![w].at = "hung"]
  /\ UNCHANGED <<lists, counters, history, attempts, owner, held, started,
                 shutdown>>

HandlerSucceeds(w) ==
  /\ worker[w].at = "handling"
  /\ running_jobs' = running_jobs \ {worker[w].job}
  /\ finished' = finished \cup {worker[w].job}
  /\ jobs_processed' = jobs_processed + 1
  /\ worker' = [worker EXCEPT ![w] = Idle]
  /\ UNCHANGED <<pending, dead_letter_queue, jobs_enqueued, jobs_failed,
                 jobs_retried, jobs_dead, created, drained, timed_out,
                 attempts, owner, held, started, shutdown>>

\* A failed job is pending again at once, without backoff.
HandlerFails(w) ==
  LET j == worker[w].job
  IN  /\ worker[w].at = "handling"
      /\ running_jobs' = running_jobs \ {j}
      /\ attempts' = [attempts EXCEPT ![j] = @ + 1]
      /\ IF RetryLeft(attempts[j] + 1)
           THEN /\ pending' = Append(pending, j)
                /\ jobs_retried' = jobs_retried + 1
                /\ UNCHANGED <<dead_letter_queue, jobs_failed, jobs_dead>>
           ELSE Bury(j)
      /\ worker' = [worker EXCEPT ![w] = Idle]
      /\ UNCHANGED <<jobs_enqueued, jobs_processed, history, owner, held,
                     started, shutdown>>

-----------------------------------------------------------------------------
WorkerStep(w) ==
  \/ WorkerExits(w) \/ WorkerTakes(w) \/ WorkerTimesOut(w) \/ WorkerHandles(w)
  \/ HandlerSucceeds(w) \/ HandlerFails(w)

QueueNext ==
  \/ \E j \in Job : Enqueue(j) \/ CompleteJob(j) \/ FailJob(j)
  \/ EnqueueCounts \/ Dequeue \/ BackoffEnds \/ DrainDlq \/ Start \/ Stop
  \/ \E w \in Worker : WorkerStep(w) \/ HandlerHangs(w)

-----------------------------------------------------------------------------
PendingAt(j) == {i \in 1..Len(pending) : pending[i] = j}

\* The places outside pending that hold j.
Elsewhere(j) ==
  {s \in {"run", "dead", "drained", "finished", "asleep"} :
     \/ s = "run" /\ j \in running_jobs
     \/ s = "dead" /\ j \in dead_letter_queue
     \/ s = "drained" /\ j \in drained
     \/ s = "finished" /\ j \in finished
     \/ s = "asleep" /\ owner = [at |-> "sleeping", job |-> j]}

\* No job is lost and none runs twice: an enqueued job is in exactly one
\* place - once in pending, running, buried, drained, finished, or in the
\* hands of a fail_job that sleeps before the retry.
JobsAreConserved ==
  \A j \in created : Cardinality(PendingAt(j)) + Cardinality(Elsewhere(j)) = 1

\* Exactly one party runs a running job: one worker, or the owner.
OneRunnerPerJob ==
  \A j \in running_jobs :
    Cardinality({w \in Worker : worker[w].job = j /\ worker[w].at # "exited"})
      + (IF j \in held THEN 1 ELSE 0) = 1

\* The counters add up at every moment, in whatever order workers and owner
\* report: what was enqueued is processed, dead, or still in the queue.
CountersBalance ==
  jobs_enqueued + (IF owner.at = "counting" THEN 1 ELSE 0)
    = jobs_processed + jobs_dead + Len(pending) + Cardinality(running_jobs)
      + (IF owner.at = "sleeping" THEN 1 ELSE 0)

\* The manual API never has more than max_workers jobs running, whatever the
\* workers beside it do.
RunningWithinLimit == Cardinality(held) <= MaxWorkers

\* "a dead-letter queue for exhausted jobs": unless the timeout check buried
\* it, a job is dead only after its first attempt and every retry, by worker
\* or by owner, have failed.
DeadAreExhausted ==
  \A j \in (dead_letter_queue \cup drained) \ timed_out :
    attempts[j] = MaxRetries + 1

Hung(w) == worker[w].at = "hung"

\* Every job comes to an end as long as the queue is not stopped and its
\* handler returns; a hung handler stops only its own job while another
\* worker is left.
JobsEnd ==
  \A j \in Job :
    (j \in created)
      ~> \/ shutdown
         \/ j \in finished \cup dead_letter_queue \cup drained
         \/ \E w \in Worker : Hung(w) /\ worker[w].job = j
         \/ \A w \in Worker : Hung(w)

\* stop() ends every worker, after the job it is running and however many
\* jobs are still pending; only a handler that hangs keeps its worker.
StopEndsWorkers ==
  shutdown ~> \A w \in Worker : worker[w].at \in {"exited", "hung"}
=============================================================================
