--------------------------- MODULE CircuitBreaker ---------------------------
(***************************************************************************)
(* What a circuit breaker promises about a stream of answers and failures: *)
(* it opens after FailureThreshold failures in a row, lets nothing pass    *)
(* until there was no failure for RecoveryTimeout, and closes again only   *)
(* after HalfOpenCalls answers in a row.                                   *)
(***************************************************************************)
EXTENDS Integers

CONSTANTS FailureThreshold, RecoveryTimeout, HalfOpenCalls

VARIABLES
  state,      \* "closed", "open" or "half_open"
  answers,    \* answers since the last failure, at most HalfOpenCalls
  failures,   \* failures since the last answer, at most FailureThreshold
  cooldown    \* time to go since the last failure

vars == <<state, answers, failures, cooldown>>

OneMore(n, bound) == IF n < bound THEN n + 1 ELSE bound

Init ==
  /\ state = "closed"
  /\ answers = 0
  /\ failures = 0
  /\ cooldown = 0

Answer ==
  /\ answers' = OneMore(answers, HalfOpenCalls)
  /\ failures' = 0
  /\ \/ UNCHANGED state
     \/ state = "half_open" /\ answers' = HalfOpenCalls /\ state' = "closed"
  /\ UNCHANGED cooldown

Failure ==
  /\ answers' = 0
  /\ failures' = OneMore(failures, FailureThreshold)
  /\ cooldown' = RecoveryTimeout
  /\ state' = IF state = "closed" /\ failures' < FailureThreshold THEN "closed" ELSE "open"

Rest ==
  /\ cooldown > 0
  /\ cooldown' = cooldown - 1
  /\ UNCHANGED <<state, answers, failures>>

Probe ==
  /\ state = "open"
  /\ cooldown = 0
  /\ state' = "half_open"
  /\ UNCHANGED <<answers, failures, cooldown>>

Next == Answer \/ Failure \/ Rest \/ Probe

Spec == Init /\ [][Next]_vars
=============================================================================
