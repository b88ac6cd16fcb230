------------------------------ MODULE Operator ------------------------------
(***************************************************************************)
(* shim-operator: one reconciler per ShimConfig, run by the kube           *)
(* controller on every change of the object it sees, its own status        *)
(* patches among them, and again when a requeue is due.  The object may be *)
(* edited while a reconcile is at work on the copy it was given.           *)
(***************************************************************************)
EXTENDS Naturals

CONSTANTS MaxGenerations, MaxApiErrors     \* bounds: edits of the spec, failed calls

VARIABLES
  generation,        \* of the spec in the cluster
  deployed,          \* the Deployment exists
  triggered,         \* the controller has a reconcile to run
  requeue,           \* a requeue is due later
  opPc,              \* "idle", "configmap", "deployment", "status"
  snapshot,          \* the generation the reconcile works on
  configmap,         \* generation the ConfigMap was made from, 0 for none
  sidecar,           \* generation the side-car container was made from, 0 for none
  observed,          \* status.observed_generation
  apiErrors,
  gaveUp             \* the last reconcile ended in an error that is not retried

operatorVars == <<generation, deployed, triggered, requeue, opPc, snapshot, configmap,
                  sidecar, observed, apiErrors, gaveUp>>
cluster == <<generation, deployed, configmap, sidecar, observed>>

OperatorInit ==
  /\ generation = 1 /\ deployed \in BOOLEAN
  /\ triggered = TRUE /\ requeue = FALSE /\ opPc = "idle" /\ snapshot = 0
  /\ configmap = 0 /\ sidecar = 0 /\ observed = 0 /\ apiErrors = 0 /\ gaveUp = FALSE

EditSpec ==
  /\ generation < MaxGenerations /\ generation' = generation + 1 /\ triggered' = TRUE
  /\ UNCHANGED <<deployed, requeue, opPc, snapshot, configmap, sidecar, observed, apiErrors, gaveUp>>

(* The controller watches ShimConfigs only: a Deployment that appears      *)
(* triggers nothing.                                                       *)
DeploymentAppears ==
  /\ ~deployed /\ deployed' = TRUE
  /\ UNCHANGED <<generation, triggered, requeue, opPc, snapshot, configmap, sidecar, observed,
                 apiErrors, gaveUp>>

(* Action::requeue: 300 s after a success, 30 s after a transient error. *)
RequeueDue ==
  /\ requeue /\ requeue' = FALSE /\ triggered' = TRUE
  /\ UNCHANGED <<cluster, opPc, snapshot, apiErrors, gaveUp>>

ReconcileBegins ==
  /\ opPc = "idle" /\ triggered
  /\ opPc' = "configmap" /\ triggered' = FALSE /\ requeue' = FALSE
  /\ snapshot' = generation /\ gaveUp' = FALSE
  /\ UNCHANGED <<cluster, apiErrors>>

ApplyConfigMap ==
  /\ opPc = "configmap" /\ opPc' = "deployment" /\ configmap' = snapshot
  /\ UNCHANGED <<generation, deployed, triggered, requeue, snapshot, sidecar, observed,
                 apiErrors, gaveUp>>

(* The container is added when there is none; one that is there is kept,   *)
(* whatever spec it was made from.  A read that fails counts as absent.    *)
UpdateDeployment ==
  /\ opPc = "deployment" /\ opPc' = "status"
  /\ \/ sidecar' = IF deployed /\ sidecar = 0 THEN snapshot ELSE sidecar
     \/ UNCHANGED sidecar
  /\ UNCHANGED <<generation, deployed, triggered, requeue, snapshot, configmap, observed,
                 apiErrors, gaveUp>>

(* The conditions carry the time, so the patch always changes the object   *)
(* and triggers the next reconcile.                                        *)
PatchStatus ==
  /\ opPc = "status" /\ opPc' = "idle" /\ observed' = snapshot
  /\ triggered' = TRUE /\ requeue' = TRUE
  /\ UNCHANGED <<generation, deployed, snapshot, configmap, sidecar, apiErrors, gaveUp>>

(* A Kubernetes error is judged by the words of its message.               *)
OperatorError == {"Kubernetes: connection", "Kubernetes: other", "Validation", "Reconcile",
                  "Serialization", "ConfigMapGen", "DeploymentUpdate", "Io"}
classify(error) ==
  IF error \in {"Kubernetes: connection", "Reconcile", "DeploymentUpdate", "Io"}
  THEN "Transient" ELSE "Permanent"

NeverRetries ==
  /\ opPc # "idle" /\ opPc' = "idle" /\ apiErrors < MaxApiErrors /\ apiErrors' = apiErrors + 1
  /\ \E e \in OperatorError : gaveUp' = (classify(e) = "Permanent") /\ UNCHANGED requeue
  /\ UNCHANGED <<cluster, triggered, snapshot>>

(* error_backoff: what classify takes for transient is tried again. *)
ReconcileFails ==
  /\ opPc # "idle" /\ opPc' = "idle" /\ apiErrors < MaxApiErrors /\ apiErrors' = apiErrors + 1
  /\ \E e \in OperatorError :
       gaveUp' = (classify(e) = "Permanent") /\ requeue' = (classify(e) = "Transient")
  /\ UNCHANGED <<cluster, triggered, snapshot>>

OperatorNext ==
  \/ EditSpec \/ DeploymentAppears \/ RequeueDue \/ ReconcileBegins \/ ApplyConfigMap
  \/ UpdateDeployment \/ PatchStatus \/ ReconcileFails

-----------------------------------------------------------------------------
(* The ConfigMap and the status follow the last edit, whatever reconcile   *)
(* was under way when it came and whichever calls failed, unless the last  *)
(* reconcile met an error that error_backoff does not retry.               *)
SpecIsApplied ==
  snapshot > 0 ~> [](gaveUp \/ (configmap = generation /\ observed = generation))
=============================================================================
