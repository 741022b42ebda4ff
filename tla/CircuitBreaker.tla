--------------------------- MODULE CircuitBreaker ---------------------------
(***************************************************************************)
(* The circuit breaker of src/src/circuit_breaker.rs as a value and the    *)
(* functions its methods compute.  retry_async keeps one breaker per thread *)
(* and calls a method without awaiting inside it, so no two methods of one *)
(* breaker overlap, its try-locks succeed and each method is one step.     *)
(***************************************************************************)
EXTENDS Integers

CONSTANTS
    FailureThreshold,  \* failures that open a breaker
    SuccessThreshold,  \* successes that close a half-open breaker
    Timeout,           \* ticks an open breaker refuses requests
    Never              \* last_failure_time is None

ASSUME BreakerAssumption ==
    /\ FailureThreshold \in Nat \ {0} /\ SuccessThreshold \in Nat \ {0}
    /\ Timeout \in Nat \ {0}
    /\ Never \notin Nat

\* The counter of failures matters only up to its threshold and the time since
\* the breaker opened up to the timeout: both stop there.
Elapsed == 0..Timeout \cup {Never}

Breaker ==
    [state     : {"Closed", "Open", "HalfOpen"},
     failures  : 0..FailureThreshold,
     successes : 0..SuccessThreshold,
     elapsed   : Elapsed]

\* CircuitBreaker::new.
New == [state |-> "Closed", failures |-> 0, successes |-> 0, elapsed |-> Never]

Expired(b) == b.state = "Open" /\ b.elapsed = Timeout

\* try_is_request_allowed: its answer, and the breaker it leaves behind.
Allowed(b) == b.state = "Open" => Expired(b)

\* Mutant: success_count is not reset.
AskedKeepsSuccesses(b) ==
    IF Expired(b) THEN [b EXCEPT !.state = "HalfOpen"] ELSE b

Asked(b) ==
    IF Expired(b) THEN [b EXCEPT !.state = "HalfOpen", !.successes = 0] ELSE b

\* Mutant: closing the breaker does not reset failure_count.
SucceededKeepsFailures(b) ==
    IF b.state # "HalfOpen"
    THEN [b EXCEPT !.failures = 0]
    ELSE IF b.successes + 1 >= SuccessThreshold
         THEN [b EXCEPT !.state = "Closed", !.successes = 0]
         ELSE [b EXCEPT !.successes = @ + 1]

\* try_record_success.  A success resets failure_count in an open breaker too.
Succeeded(b) ==
    IF b.state # "HalfOpen"
    THEN [b EXCEPT !.failures = 0]
    ELSE IF b.successes + 1 >= SuccessThreshold
         THEN [b EXCEPT !.state = "Closed", !.failures = 0, !.successes = 0]
         ELSE [b EXCEPT !.successes = @ + 1]

OneMore(n) == IF n < FailureThreshold THEN n + 1 ELSE n

\* Mutants: last_failure_time is not set; a breaker opens one failure late.
FailedWithoutTime(b) ==
    LET n == OneMore(b.failures) IN
    IF n >= FailureThreshold /\ b.state # "Open"
    THEN [b EXCEPT !.state = "Open", !.failures = n]
    ELSE [b EXCEPT !.failures = n]

FailedPastThreshold(b) ==
    LET n == OneMore(b.failures) IN
    IF b.failures >= FailureThreshold /\ b.state # "Open"
    THEN [b EXCEPT !.state = "Open", !.failures = n, !.elapsed = 0]
    ELSE [b EXCEPT !.failures = n]

\* try_record_failure.  Only opening the breaker sets last_failure_time.
Failed(b) ==
    LET n == OneMore(b.failures) IN
    IF n >= FailureThreshold /\ b.state # "Open"
    THEN [b EXCEPT !.state = "Open", !.failures = n, !.elapsed = 0]
    ELSE [b EXCEPT !.failures = n]

\* failure_time.elapsed() one tick later.
Aged(b) ==
    IF b.elapsed # Never /\ b.elapsed < Timeout
    THEN [b EXCEPT !.elapsed = @ + 1] ELSE b

\* What holds of every breaker: below its thresholds while it is closed or half
\* open, and an open one knows when it opened, or it would refuse for ever
\* (the None branch of try_is_request_allowed).
Sound(b) ==
    /\ b \in Breaker
    /\ b.state = "Closed" => b.failures < FailureThreshold
    /\ b.state = "HalfOpen" => b.successes < SuccessThreshold
    /\ b.state = "Open" => b.elapsed # Never

=============================================================================
