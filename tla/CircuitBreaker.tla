--------------------------- MODULE CircuitBreaker ---------------------------
(***************************************************************************)
(* internal/engine/circuit.go: one breaker, as a record, and what each of  *)
(* its methods makes of it.  Every method holds the mutex throughout.  The *)
(* pair (LastFailure, BackoffDuration) is kept as "retryIn", the backoff   *)
(* that is left; it is negative once more than the backoff has passed, for *)
(* the code compares with a strict ">".                                    *)
(***************************************************************************)
EXTENDS Integers

CONSTANTS
    Threshold,      \* consecutive failures that open the breaker
    BaseBackoff,    \* time.Minute
    MaxBackoff,
    MaxFailures     \* bound: FailureCount stays at this value

\* The bound on FailureCount loses nothing: the backoff has reached its maximum.
ASSUME CircuitBreakerAssumption ==
    /\ Threshold \in Nat \ {0}
    /\ BaseBackoff \in Nat /\ MaxBackoff \in Nat
    /\ MaxFailures \in Nat /\ Threshold <= MaxFailures
    /\ BaseBackoff * 3 ^ (MaxFailures - Threshold) >= MaxBackoff

Breaker == [state    : {"closed", "open", "half-open"},
            failures : 0 .. MaxFailures,
            retryIn  : Int]

NewCircuitBreaker == [state |-> "closed", failures |-> 0, retryIn |-> 0]

\* BaseBackoff * 3^(failures - Threshold), capped.  The exponent's own cap (20)
\* guards the float only.
Backoff(n) ==
    LET b == BaseBackoff * 3 ^ (n - Threshold)
    IN  IF b <= MaxBackoff THEN b ELSE MaxBackoff

\* Mutant: an open breaker is never tested again.
MayAttemptClosed(b) == b.state = "closed"

MayAttempt(b) == b.state = "closed" \/ (b.state = "open" /\ b.retryIn < 0)

\* ShouldAttempt's effect on the breaker; it returns MayAttempt.
ShouldAttempt(b) ==
    IF b.state = "open" /\ MayAttempt(b) THEN [b EXCEPT !.state = "half-open"] ELSE b

RecordSuccess(b) == NewCircuitBreaker

\* Mutant: the breaker opens when the count reaches the threshold, not beyond.
RecordFailureAtThreshold(b) ==
    LET n == IF b.failures < MaxFailures THEN b.failures + 1 ELSE MaxFailures
    IN  IF n = Threshold
        THEN [state |-> "open", failures |-> n, retryIn |-> Backoff(n)]
        ELSE [b EXCEPT !.failures = n]

RecordFailure(b) ==
    LET n == IF b.failures < MaxFailures THEN b.failures + 1 ELSE MaxFailures
    IN  IF n >= Threshold
        THEN [state |-> "open", failures |-> n, retryIn |-> Backoff(n)]
        ELSE [b EXCEPT !.failures = n]

\* One unit of time passes.
Elapse(b) == IF b.state = "open" /\ b.retryIn >= 0 THEN [b EXCEPT !.retryIn = @ - 1] ELSE b
=============================================================================
