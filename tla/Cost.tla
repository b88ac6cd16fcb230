-------------------------------- MODULE Cost --------------------------------
(***************************************************************************)
(* cost-shim: usage is billed to the budget its tenant has, budgets are    *)
(* renewed by hand, and an optimizer reads the recorded CPU points of a    *)
(* resource.  Costs are whole numbers here; memory points, which only      *)
(* repeat the first rule of the CPU points, are left out.                  *)
(***************************************************************************)
EXTENDS Naturals, Sequences, FiniteSets, Functions

CONSTANTS
  Tenant, Resource,
  BudgetLimit, AlertPercent,    \* COST_BUDGET_DEFAULT, COST_ALERT_THRESHOLD
  CpuPoint,                     \* percentages that are recorded
  Underutilized, Overutilized, AnalysisWindow,
  MaxSpent, MaxPoints           \* bounds

(* COST_ALERT_THRESHOLD is a percentage of the budget. *)
ASSUME CostAssumption ==
  BudgetLimit \in Nat /\ AlertPercent \in 0..100

VARIABLES
  budgets,              \* tenant -> spent in its period
  usage_log,            \* number of usages recorded, billed or not
  usage_history,        \* resource -> CPU points
  recommendations       \* {<<resource, type>>}

costVars == <<budgets, usage_log, usage_history, recommendations>>

CostInit ==
  /\ budgets = [t \in {} |-> 0] /\ usage_log = 0
  /\ usage_history = [r \in Resource |-> <<>>] /\ recommendations = {}

(* A tenant's second budget starts from zero again. *)
CreateBudget(t) ==
  /\ budgets' = [x \in DOMAIN budgets \cup {t} |-> IF x = t THEN 0 ELSE budgets[x]]
  /\ UNCHANGED <<usage_log, usage_history, recommendations>>

(* The usage of a tenant without a budget is logged and billed to no one. *)
RecordUsage(t, cost) ==
  /\ usage_log < MaxSpent /\ usage_log' = usage_log + 1
  /\ budgets' = [x \in DOMAIN budgets |-> budgets[x] + (IF x = t THEN cost ELSE 0)]
  /\ UNCHANGED <<usage_history, recommendations>>

ResetBudgets ==
  /\ budgets' = [x \in DOMAIN budgets |-> 0]
  /\ UNCHANGED <<usage_log, usage_history, recommendations>>

is_over_budget(t) == t \in DOMAIN budgets /\ budgets[t] > BudgetLimit
usage_percent(t) == IF BudgetLimit > 0 THEN (budgets[t] * 100) \div BudgetLimit ELSE 100
check_alerts == {t \in DOMAIN budgets : usage_percent(t) >= AlertPercent}
total_spend == SumFunction(budgets)

(* The rate so far, for thirty days; the first second counts as one. *)
project_cost(t, elapsed) ==
  (budgets[t] * 30 * 86400) \div (IF elapsed = 0 THEN 1 ELSE elapsed)

RecordPoint(r, v) ==
  /\ Len(usage_history[r]) < MaxPoints
  /\ usage_history' = [usage_history EXCEPT ![r] = Append(@, v)]
  /\ UNCHANGED <<budgets, usage_log, recommendations>>

(* "Days" are points, and all of the history counts: a resource may be     *)
(* told to grow and to shrink at once.                                     *)
Recommended(r) ==
  LET Points(P(_)) == Cardinality({i \in DOMAIN usage_history[r] : P(usage_history[r][i])})
  IN  {type \in {"RightSizeDown", "RightSizeUp", "IdleResource"} :
         CASE type = "RightSizeDown" ->
                Points(LAMBDA v : v < Underutilized) >= AnalysisWindow
           [] type = "RightSizeUp" ->
                Points(LAMBDA v : v > Overutilized) >= AnalysisWindow
           [] type = "IdleResource" -> Points(LAMBDA v : v < 1) >= AnalysisWindow}

Analyze ==
  /\ recommendations' =
       UNION {{r} \X Recommended(r) : r \in {x \in Resource : usage_history[x] # <<>>}}
  /\ UNCHANGED <<budgets, usage_log, usage_history>>

ClearHistory ==
  /\ usage_history' = [r \in Resource |-> <<>>] /\ recommendations' = {}
  /\ UNCHANGED <<budgets, usage_log>>

CostNext ==
  \/ \E t \in Tenant : CreateBudget(t) \/ \E cost \in {1, 2} : RecordUsage(t, cost)
  \/ ResetBudgets \/ Analyze \/ ClearHistory
  \/ \E r \in Resource, v \in CpuPoint : RecordPoint(r, v)

-----------------------------------------------------------------------------
(* The views of the budgets agree, over renewals and second budgets: who   *)
(* is over budget is alerted, no more is billed than was used, and a       *)
(* projection made when the period ends is the cost itself.                *)
BudgetViewsAgree ==
  /\ \A t \in Tenant : is_over_budget(t) => t \in check_alerts
  /\ total_spend <= 2 * usage_log
  /\ \A t \in DOMAIN budgets : project_cost(t, 30 * 86400) = budgets[t]
=============================================================================
