------------------------------- MODULE Chaos --------------------------------
(***************************************************************************)
(* chaos-shim.  ChaosShim decides for every request whether to inject the  *)
(* configured fault: its experiments are only bookkeeping, evaluate() just *)
(* ends those that have expired.  ChaosOrchestrator keeps experiments of   *)
(* its own and moves the completed ones to a history.  Partitions are      *)
(* iptables rules: -A appends one, -D deletes one equal to what it is      *)
(* given, and it is given the rule without its source address.             *)
(***************************************************************************)
EXTENDS Naturals, Sequences, FiniteSets

CONSTANTS
  Target, Anywhere,              \* addresses; Anywhere: a rule without a source
  Duration,                      \* of an experiment
  MaxExperiments, MaxChaosTime   \* bounds

VARIABLES
  chaosNow,
  chaosEnabled, fault,           \* CHAOS_ENABLED, and the fault the knobs select
  chaosTarget,                   \* CHAOS_TARGET, or "all"
  experiments,                   \* of the shim: id -> [enabled, started_at]
  injected,                      \* the last InjectionResult
  orchestrated,                  \* active_experiments: id -> [enabled, started_at]
  experiment_history,            \* sequence of [id, success]
  experiment_counter,
  schedules,                     \* id -> [max_runs, run_count]
  iptables                       \* sequence of [id, source]

chaosVars == <<chaosNow, chaosEnabled, fault, chaosTarget, experiments, injected,
               orchestrated, experiment_history, experiment_counter, schedules, iptables>>
shimVars == <<chaosEnabled, fault, chaosTarget, experiments, injected>>
orchestratorVars == <<orchestrated, experiment_history, experiment_counter, schedules>>

Faults == {"Partition", "Latency", "Error", "Kill"}

ChaosInit ==
  /\ chaosNow = 0 /\ chaosEnabled = FALSE   \* the defaults; SetKnobs changes them
  /\ fault = "Latency" /\ chaosTarget \in Target \cup {"all"}
  /\ experiments = <<>> /\ injected = FALSE
  /\ orchestrated = [id \in {} |-> 0] /\ experiment_history = <<>>
  /\ experiment_counter = 0 /\ schedules = [id \in {} |-> 0]
  /\ iptables = <<>>

Started == [enabled |-> TRUE, started_at |-> chaosNow]
Expired(exp) == exp.enabled /\ chaosNow - exp.started_at >= Duration

StartExperiment ==
  /\ Len(experiments) < MaxExperiments
  /\ experiments' = Append(experiments, Started)
  /\ UNCHANGED <<chaosNow, chaosEnabled, fault, chaosTarget, injected, orchestratorVars,
                 iptables>>

StopExperiment(id) ==
  /\ experiments' = [experiments EXCEPT ![id].enabled = FALSE]
  /\ UNCHANGED <<chaosNow, chaosEnabled, fault, chaosTarget, injected, orchestratorVars,
                 iptables>>

StopExpired ==
  [id \in DOMAIN experiments |->
     [experiments[id] EXCEPT !.enabled = @ /\ ~Expired(experiments[id])]]

(* A dice roll, for the blast radius and for an error rate, is a choice. *)
Evaluate(target) ==
  /\ experiments' = IF chaosEnabled THEN StopExpired ELSE experiments
  /\ injected' \in
       IF chaosEnabled /\ chaosTarget \in {"all", target} THEN BOOLEAN ELSE {FALSE}
  /\ UNCHANGED <<chaosNow, chaosEnabled, fault, chaosTarget, orchestratorVars, iptables>>

(* set_enabled, set_error_rate, set_latency, and what the environment      *)
(* configures: active_fault_type() takes the first knob that is set.       *)
SetKnobs ==
  /\ chaosEnabled' \in BOOLEAN /\ fault' \in Faults
  /\ UNCHANGED <<chaosNow, chaosTarget, experiments, injected, orchestratorVars, iptables>>

ChaosStop ==
  /\ experiments' = [id \in DOMAIN experiments |-> [experiments[id] EXCEPT !.enabled = FALSE]]
  /\ UNCHANGED <<chaosNow, chaosEnabled, fault, chaosTarget, injected, orchestratorVars,
                 iptables>>

-----------------------------------------------------------------------------
Orchestrate ==
  /\ experiment_counter < MaxExperiments
  /\ experiment_counter' = experiment_counter + 1
  /\ orchestrated' = [id \in DOMAIN orchestrated \cup {experiment_counter'} |->
                        IF id = experiment_counter' THEN Started ELSE orchestrated[id]]
  /\ UNCHANGED <<chaosNow, shimVars, experiment_history, schedules, iptables>>

(* A stopped experiment stays among the active ones. *)
OrchestratorStop(ids) ==
  /\ orchestrated' = [id \in DOMAIN orchestrated |->
                        [orchestrated[id] EXCEPT !.enabled = @ /\ id \notin ids]]
  /\ UNCHANGED <<chaosNow, shimVars, experiment_history, experiment_counter, schedules,
                 iptables>>

Remaining(ids) == [id \in DOMAIN orchestrated \ ids |-> orchestrated[id]]

CompleteExperiment(id, success) ==
  /\ id \in DOMAIN orchestrated
  /\ orchestrated' = Remaining({id})
  /\ experiment_history' = Append(experiment_history, [id |-> id, success |-> success])
  /\ UNCHANGED <<chaosNow, shimVars, experiment_counter, schedules, iptables>>

(* The expired ones, in the order of the hash map, succeed. *)
OrchestratorTick ==
  LET expired == {id \in DOMAIN orchestrated : Expired(orchestrated[id])}
  IN  /\ orchestrated' = Remaining(expired)
      /\ \E order \in [1..Cardinality(expired) -> expired] :
           /\ \A id \in expired : \E i \in DOMAIN order : order[i] = id
           /\ experiment_history' = experiment_history \o
                [i \in DOMAIN order |-> [id |-> order[i], success |-> TRUE]]
      /\ UNCHANGED <<chaosNow, shimVars, experiment_counter, schedules, iptables>>

(* Registering again starts the count anew. *)
RegisterSchedule(id) ==
  /\ \E max \in {1, 2} :
       schedules' = [x \in DOMAIN schedules \cup {id} |->
                       IF x = id THEN [max_runs |-> max, run_count |-> 0] ELSE schedules[x]]
  /\ UNCHANGED <<chaosNow, shimVars, orchestrated, experiment_history, experiment_counter,
                 iptables>>

can_run_scheduled(id) ==
  id \in DOMAIN schedules /\ schedules[id].run_count < schedules[id].max_runs

(* The caller asks first; nothing here does. *)
RecordScheduledRun(id) ==
  /\ can_run_scheduled(id)
  /\ schedules' = [schedules EXCEPT ![id].run_count = @ + 1]
  /\ UNCHANGED <<chaosNow, shimVars, orchestrated, experiment_history, experiment_counter,
                 iptables>>

-----------------------------------------------------------------------------
CreateNetworkPartition(ip) ==
  /\ Len(iptables) < 1
  /\ iptables' = Append(iptables, [id |-> Len(iptables) + 1, source |-> ip])
  /\ UNCHANGED <<chaosNow, shimVars, orchestratorVars>>

(* Only a rule without a source address would be equal to the one named. *)
RemoveNetworkPartition(id) ==
  /\ iptables' = SelectSeq(iptables, LAMBDA r : r # [id |-> id, source |-> Anywhere])
  /\ UNCHANGED <<chaosNow, shimVars, orchestratorVars>>

ChaosTick ==
  /\ chaosNow < MaxChaosTime /\ chaosNow' = chaosNow + 1
  /\ UNCHANGED <<shimVars, orchestratorVars, iptables>>

(* The shim and the orchestrator share nothing but the clock. *)
ChaosShimNext ==
  \/ StartExperiment \/ SetKnobs \/ ChaosStop \/ ChaosTick
  \/ \E t \in Target : Evaluate(t) \/ CreateNetworkPartition(t)
  \/ \E id \in 1..MaxExperiments :
       \/ (id \in DOMAIN experiments /\ StopExperiment(id))
       \/ RemoveNetworkPartition(id)

OrchestratorNext ==
  \/ Orchestrate \/ OrchestratorTick \/ OrchestratorStop(DOMAIN orchestrated) \/ ChaosTick
  \/ \E id \in 1..MaxExperiments :
       \/ OrchestratorStop({id}) \/ (\E s \in BOOLEAN : CompleteExperiment(id, s))
       \/ (id = 1 /\ (RegisterSchedule(id) \/ RecordScheduledRun(id)))

-----------------------------------------------------------------------------
(* An experiment is active or has ended once: the orchestrator's tick, its *)
(* stops and its completions neither lose one nor record one twice.        *)
ExperimentsAreConserved ==
  /\ experiment_counter = Cardinality(DOMAIN orchestrated) + Len(experiment_history)
  /\ \A i, j \in DOMAIN experiment_history :
       /\ experiment_history[i].id \notin DOMAIN orchestrated
       /\ (experiment_history[i].id = experiment_history[j].id => i = j)
=============================================================================
