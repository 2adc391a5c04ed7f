---------------------------- MODULE CircuitBreaker ----------------------------
(***************************************************************************)
(* What the domain circuit breaker promises: it judges a domain by the      *)
(* number of failures in a row, every outcome reported counts once, and its *)
(* clock starts when the circuit opens.  No sessions, no locks, no pages:   *)
(* DomainCircuit implements it.                                             *)
(***************************************************************************)
EXTENDS Naturals

CONSTANTS
    DegradedAt,     \* DEGRADED_THRESHOLD
    OpenAt,         \* OPEN_THRESHOLD
    OpenDuration,   \* OPEN_DURATION_SECONDS
    Never           \* circuit_opened_at is None

VARIABLES
    streak,      \* failures reported since the last success
    standing,    \* "healthy", "degraded" or "open"
    age          \* how long the circuit has been open, Never when it is not

breakerVars == <<streak, standing, age>>

\* The circuit state that n failures in a row earn.
Standing(n) ==
    IF n >= OpenAt THEN "open" ELSE IF n >= DegradedAt THEN "degraded" ELSE "healthy"

\* A timestamp is kept as its age; beyond OpenDuration nothing depends on it.
Older(a) == IF a # Never /\ a < OpenDuration THEN a + 1 ELSE a

Init ==
    /\ streak = 0
    /\ standing = "healthy"
    /\ age = Never

Succeed ==
    /\ streak' = 0
    /\ standing' = "healthy"
    /\ age' = Never

\* A failure while the circuit is open leaves the clock or starts it anew:
\* which of the two is not a matter of the breaker's bookkeeping.
Fail ==
    /\ streak' = streak + 1
    /\ standing' = Standing(streak')
    /\ \/ standing' # "open" /\ age' = Never
       \/ standing' = "open" /\ standing = "open" /\ age' \in {age, 0}
       \/ standing' = "open" /\ standing # "open" /\ age' = 0

TimePasses ==
    /\ age' = Older(age)
    /\ UNCHANGED <<streak, standing>>

Next == Succeed \/ Fail \/ TimePasses

Spec == Init /\ [][Next]_breakerVars
=============================================================================
