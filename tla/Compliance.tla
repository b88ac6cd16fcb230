----------------------------- MODULE Compliance -----------------------------
(***************************************************************************)
(* compliance-shim: rules of a benchmark, some of them verified by a query *)
(* on the database, are added to the list of checks; run_checks turns the  *)
(* failed ones into violations, which may be resolved; a report counts     *)
(* both.  The list of checks only grows: a second round of rules is added  *)
(* beside the first.                                                       *)
(***************************************************************************)
EXTENDS Naturals, Sequences, SequencesExt, FiniteSets

CONSTANTS
  DbType, MinSeverity,
  MaxRounds            \* bound: rounds of rules added

(* Severities, by rule, from 1 (Info) to 5 (Critical). *)
postgres_cis_rules == <<5, 4, 3, 3, 4, 5, 4, 3, 3, 3, 2, 2>>
mariadb_cis_rules  == <<5, 5, 4, 4, 3, 3, 3, 2>>
redis_stig_rules   == <<5, 4, 4, 4, 3, 3, 2, 3>>

generate_cis_checks ==
  CASE DbType = "postgres" -> postgres_cis_rules
    [] DbType = "mariadb"  -> mariadb_cis_rules
    [] DbType = "redis"    -> redis_stig_rules
    [] OTHER               -> <<>>

(* The rules there is a query for; the others stay failed. *)
check_postgres_rule == {1, 2, 3, 5, 11}
check_mariadb_rule  == {1, 4}

Queried ==
  CASE DbType = "postgres" -> check_postgres_rule
    [] DbType = "mariadb"  -> check_mariadb_rule
    [] OTHER               -> {}

VARIABLES
  checks,        \* sequence of [rule, severity, passed]
  violations,    \* sequence of [rule, severity, resolved]
  compliance_score,   \* of the last run_checks, in whole percent
  ruleRounds

complianceVars == <<checks, violations, compliance_score, ruleRounds>>

ComplianceInit ==
  checks = <<>> /\ violations = <<>> /\ compliance_score = 0 /\ ruleRounds = 0

(* passes: the queried rules whose query succeeded and found the database  *)
(* in order; none of them when it could not be reached.                    *)
RunDatabaseChecks(passes) ==
  [i \in DOMAIN generate_cis_checks |->
     [rule |-> i, severity |-> generate_cis_checks[i], passed |-> i \in passes]]

AddChecks ==
  /\ ruleRounds < MaxRounds /\ ruleRounds' = ruleRounds + 1
  /\ \E passes \in SUBSET Queried : checks' = checks \o RunDatabaseChecks(passes)
  /\ UNCHANGED <<violations, compliance_score>>

Failing(check) == ~check.passed /\ check.severity >= MinSeverity
ViolationOf(check) ==
  [rule |-> check.rule, severity |-> check.severity, resolved |-> FALSE]
FailingChecks ==
  FlattenSeq([i \in DOMAIN checks |-> IF Failing(checks[i]) THEN <<checks[i]>> ELSE <<>>])
Passed == {i \in DOMAIN checks : checks[i].passed}
Score ==
  IF checks = <<>> THEN 100 ELSE (Cardinality(Passed) * 100) \div Len(checks)

(* What had been resolved is a violation again. *)
RunChecks ==
  /\ violations' = [i \in DOMAIN FailingChecks |-> ViolationOf(FailingChecks[i])]
  /\ compliance_score' = Score
  /\ UNCHANGED <<checks, ruleRounds>>

(* The first violation of the rule is resolved, even if it was already. *)
ResolveViolation(rule) ==
  /\ \E i \in DOMAIN violations :
       /\ violations[i].rule = rule
       /\ \A j \in 1..(i - 1) : violations[j].rule # rule
       /\ violations' = [violations EXCEPT ![i].resolved = TRUE]
  /\ UNCHANGED <<checks, compliance_score, ruleRounds>>

Unresolved == {i \in DOMAIN violations : ~violations[i].resolved}

generate_report ==
  [total_checks |-> Len(checks),
   passed |-> Cardinality(Passed),
   failed |-> Cardinality(Unresolved),
   score |-> compliance_score]

(* The positions of the violations it returns. *)
violations_by_severity(min) == {i \in Unresolved : violations[i].severity >= min}

ComplianceNext ==
  \/ AddChecks \/ RunChecks
  \/ \E rule \in DOMAIN generate_cis_checks : ResolveViolation(rule)

-----------------------------------------------------------------------------
(* A report adds up, though it counts the checks as they are now and the   *)
(* violations as the last run left them: no more checks are passed and     *)
(* failed than there are, and those at or above the least severity that is *)
(* looked for are all of them (generate_report, run_checks,                *)
(* violations_by_severity).                                                *)
ReportAddsUp ==
  /\ generate_report.passed + generate_report.failed <= generate_report.total_checks
  /\ (generate_report.score = 100 => generate_report.failed = 0)
  /\ Cardinality(violations_by_severity(MinSeverity)) = generate_report.failed
=============================================================================
