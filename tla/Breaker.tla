------------------------------ MODULE Breaker ------------------------------
(***************************************************************************)
(* What a circuit breaker promises, without callers, caches, counters and  *)
(* locks: it opens after Threshold failures in a row, lets the reset       *)
(* period pass before it tries the backend again, tries it with one        *)
(* request, and lets the outcome of a request decide.                      *)
(***************************************************************************)
EXTENDS Naturals

CONSTANT Threshold   \* failures in a row that open the circuit

VARIABLES
  state,      \* "Closed", "Open" or "HalfOpen"
  failures,   \* failures since the last success, up to Threshold
  waited,     \* has the reset period of this opening passed
  trials      \* the requests admitted by this half-open circuit

breakerVars == <<state, failures, waited, trials>>

Init == state = "Closed" /\ failures = 0 /\ waited = FALSE /\ trials = 0

\* The reset period passes.
Wait ==
  /\ state = "Open" /\ waited' = TRUE
  /\ UNCHANGED <<state, failures, trials>>

\* The period is over: the circuit tries the backend.
Try ==
  /\ state = "Open" /\ waited
  /\ state' = "HalfOpen" /\ trials' \in {0, 1}
  /\ UNCHANGED <<failures, waited>>

\* The one request of a half-open circuit that has not had it.
Trial ==
  /\ state = "HalfOpen" /\ trials = 0
  /\ trials' = 1
  /\ UNCHANGED <<state, failures, waited>>

\* A success ends the run of failures and closes a half-open circuit.
Succeed ==
  /\ failures' = 0
  /\ \/ /\ state = "HalfOpen"
        /\ state' = "Closed" /\ waited' = FALSE /\ trials' = 0
     \/ /\ state # "HalfOpen"
        /\ UNCHANGED <<state, waited, trials>>

\* A failure reopens a half-open circuit and opens any other once Threshold
\* have come in a row; one that is only counted changes nothing else.
Fail ==
  /\ failures' = IF failures + 1 < Threshold THEN failures + 1 ELSE Threshold
  /\ \/ /\ state = "HalfOpen"
        /\ state' = "Open" /\ waited' = FALSE /\ trials' = 0
     \/ /\ state # "HalfOpen" /\ failures' = Threshold
        /\ state' = "Open" /\ waited' = FALSE /\ UNCHANGED trials
     \/ UNCHANGED <<state, waited, trials>>

Next == Wait \/ Try \/ Trial \/ Succeed \/ Fail

Spec == Init /\ [][Next]_breakerVars
=============================================================================
