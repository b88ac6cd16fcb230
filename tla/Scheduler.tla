------------------------------ MODULE Scheduler ------------------------------
(* scheduler-shim: one loop for all tasks.  It picks the task that is due   *)
(* first, sleeps until then, runs its handler with retries and picks again. *)
(* Cron times are the multiples of a period on a clock of Day ticks.        *)
EXTENDS Naturals, Sequences

CONSTANTS
  Period,         \* periods of the enabled tasks, in the order of SCHEDULER_TASKS
  Day,            \* a common multiple of the periods
  TaskRetries     \* max_retries

ASSUME SchedulerAssumption ==
  /\ Period \in Seq(Nat \ {0})
  /\ Day \in Nat \ {0} /\ \A t \in DOMAIN Period : Day % Period[t] = 0
  /\ TaskRetries \in Nat
Tasks == DOMAIN Period

VARIABLES
  clock,          \* time of day
  sched,          \* "off", "pick", "sleep", "run", "retry", "hung"
  stopAsked,      \* the shutdown channel holds true
  picked,         \* the task the loop is about
  attempt,
  taskState,      \* TaskState of each task
  tries,          \* history: handler calls of each task's last run
  runs            \* history: the task ran since the start
schedulerVars == <<clock, sched, stopAsked, picked, attempt, taskState, tries, runs>>

SchedulerInit ==
  /\ clock = 0 /\ sched = "off" /\ stopAsked = FALSE /\ picked = 0 /\ attempt = 0
  /\ taskState = [t \in Tasks |-> "Pending"]
  /\ tries = [t \in Tasks |-> 0]
  /\ runs = {}

\* schedule.upcoming(Utc).next(): strictly after now.
Upcoming(t) == Period[t] - (clock % Period[t])

\* start(): without a handler, or without a valid schedule, no loop is spawned.
SchedulerStart ==
  /\ sched = "off" /\ ~stopAsked
  /\ \/ UNCHANGED sched                                       \* no handler
     \/ Tasks # {} /\ sched' = "pick"
  /\ UNCHANGED <<clock, stopAsked, picked, attempt, taskState, tries, runs>>

SchedulerStop ==
  /\ sched # "off" /\ ~stopAsked /\ stopAsked' = TRUE
  /\ UNCHANGED <<clock, sched, picked, attempt, taskState, tries, runs>>

\* A later task replaces the earliest one only if it is due strictly before.
Earliest == {t \in Tasks : \A s \in Tasks : /\ Upcoming(t) <= Upcoming(s)
                                            /\ (s < t => Upcoming(t) < Upcoming(s))}
PickTask ==
  /\ sched = "pick"
  /\ picked' \in Earliest /\ sched' = "sleep"
  /\ UNCHANGED <<clock, stopAsked, attempt, taskState, tries, runs>>

\* The sleep ends at the due time plus at most a quarter of it as jitter, and
\* the task is Running; a shutdown ends the sleep and the loop.
FireTask ==
  /\ sched = "sleep"
  /\ \E jitter \in 0..(Upcoming(picked) \div 4) :
       clock' = (clock + Upcoming(picked) + jitter) % Day
  /\ sched' = "run" /\ attempt' = 0
  /\ taskState' = [taskState EXCEPT ![picked] = "Running"]
  /\ runs' = runs \cup {picked}
  /\ UNCHANGED <<stopAsked, picked, tries>>
SleepInterrupted ==
  /\ sched \in {"sleep", "retry"} /\ stopAsked /\ sched' = "off"
  /\ UNCHANGED <<clock, stopAsked, picked, attempt, taskState, tries, runs>>

\* A handler call and the final state; timeout_secs is not looked at.  It
\* takes any time.
Finish(state) ==
  /\ sched' = "pick"
  /\ taskState' = [taskState EXCEPT ![picked] = state]
  /\ UNCHANGED attempt
RunHandler ==
  /\ sched = "run"
  /\ clock' \in 0..(Day - 1)
  /\ tries' = [tries EXCEPT ![picked] = attempt + 1]
  /\ \/ Finish("Success")
     \/ attempt = TaskRetries /\ Finish("Failed")
     \/ /\ attempt < TaskRetries
        /\ sched' = "retry" /\ attempt' = attempt + 1
        /\ UNCHANGED taskState
  /\ UNCHANGED <<stopAsked, picked, runs>>

RetryDelay ==
  /\ sched = "retry" /\ sched' = "run" /\ clock' \in 0..(Day - 1)
  /\ UNCHANGED <<stopAsked, picked, attempt, taskState, tries, runs>>

\* A handler that never returns keeps the one loop of all tasks.
TaskHangs ==
  /\ sched = "run" /\ sched' = "hung"
  /\ UNCHANGED <<clock, stopAsked, picked, attempt, taskState, tries, runs>>

SchedulerNext ==
  \/ SchedulerStart \/ SchedulerStop \/ PickTask \/ FireTask \/ SleepInterrupted
  \/ RunHandler \/ RetryDelay \/ TaskHangs

(* Failed means that the handler failed max_retries + 1 times in a row.     *)
FailedMeansExhausted ==
  \A t \in Tasks : taskState[t] = "Failed" => tries[t] = TaskRetries + 1

(* stop() ends the loop, from a sleep, a retry delay or a handler call that *)
(* returns; timeout_secs does not end one that does not.                    *)
SchedulerStops == stopAsked ~> sched \in {"off", "hung"}
=============================================================================
