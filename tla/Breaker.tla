------------------------------- MODULE Breaker -------------------------------
(***************************************************************************)
(* app/core/circuit_breaker.py: the circuit breaker object that guards the *)
(* primary LLM provider.  The object is a record and each method is an     *)
(* operator from the object before the call to the object after it.  No    *)
(* method awaits, so on the event loop every call is one atomic step.      *)
(***************************************************************************)
EXTENDS Naturals

CONSTANTS
    FailureThreshold,   \* CircuitBreaker(failure_threshold=...), 5 by default
    RecoveryTimeout     \* CircuitBreaker(recovery_timeout=...), 30.0 s by default

ASSUME BreakerAssumption ==
    /\ FailureThreshold \in Nat \ {0}
    /\ RecoveryTimeout \in Nat

\* since_failure stands for time.monotonic() - last_failure_time.  The code
\* only compares it with recovery_timeout, so it is kept up to that value.
Breaker ==
    [state: {"CLOSED", "OPEN", "HALF_OPEN"},
     failure_count: 0 .. FailureThreshold,
     half_open_probe_in_flight: BOOLEAN,
     since_failure: 0 .. RecoveryTimeout]

\* last_failure_time is 0.0 and monotonic() counts from boot: "long ago".
NewBreaker ==
    [state |-> "CLOSED", failure_count |-> 0,
     half_open_probe_in_flight |-> FALSE, since_failure |-> RecoveryTimeout]

\* Mutants, here and below: a bug that the definition after it could have.
Granted_StaysOpen(b) ==      \* the recovery timeout is never looked at
    b.state = "CLOSED" \/ (b.state = "HALF_OPEN" /\ ~b.half_open_probe_in_flight)

Granted_ManyProbes(b) ==     \* half_open_probe_in_flight is not looked at
    \/ b.state \in {"CLOSED", "HALF_OPEN"}
    \/ b.state = "OPEN" /\ b.since_failure >= RecoveryTimeout

\* What allow_request returns.
Granted(b) ==
    \/ b.state = "CLOSED"
    \/ b.state = "OPEN" /\ b.since_failure >= RecoveryTimeout
    \/ b.state = "HALF_OPEN" /\ ~b.half_open_probe_in_flight

\* What allow_request does to the breaker.
AllowRequest(b) ==
    IF b.state # "CLOSED" /\ Granted(b)
    THEN [b EXCEPT !.state = "HALF_OPEN", !.half_open_probe_in_flight = TRUE]
    ELSE b

ReleaseHalfOpenProbe_Skipped(b) == b      \* no finally block

ReleaseHalfOpenProbe(b) == [b EXCEPT !.half_open_probe_in_flight = FALSE]

Trip_KeepsClock(b) == [b EXCEPT !.state = "OPEN"]    \* last_failure_time is not set

Trip(b) == [b EXCEPT !.state = "OPEN", !.since_failure = 0]

CountFailure(b) == [b EXCEPT !.failure_count = @ + 1]

RecordFailure_ExtendsOutage(b) ==    \* any failure outside CLOSED trips
    IF b.state = "CLOSED" /\ CountFailure(b).failure_count < FailureThreshold
    THEN CountFailure(b) ELSE Trip(ReleaseHalfOpenProbe(b))

RecordFailure_CountsLate(b) ==       \* counts in OPEN, too
    IF b.state = "HALF_OPEN" THEN Trip(ReleaseHalfOpenProbe(b))
    ELSE IF CountFailure(b).failure_count = FailureThreshold
         THEN Trip(CountFailure(b)) ELSE CountFailure(b)

RecordFailure(b) ==
    CASE b.state = "HALF_OPEN" -> Trip(ReleaseHalfOpenProbe(b))
      [] b.state = "CLOSED" ->
           IF CountFailure(b).failure_count >= FailureThreshold
           THEN Trip(CountFailure(b))
           ELSE CountFailure(b)
      [] OTHER -> b

CloseHalfOpen_Skipped(b) == ReleaseHalfOpenProbe(b)     \* stays HALF_OPEN

\* The first of record_success's two ifs; the second then sees its result.
CloseHalfOpen(b) ==
    IF b.state = "HALF_OPEN"
    THEN [b EXCEPT !.half_open_probe_in_flight = FALSE, !.state = "CLOSED"]
    ELSE b

RecordSuccess_KeepsCount(b) ==       \* an else between the two ifs
    IF b.state = "CLOSED" THEN [b EXCEPT !.failure_count = 0] ELSE CloseHalfOpen(b)

RecordSuccess(b) ==
    LET c == CloseHalfOpen(b)
    IN  IF c.state = "CLOSED" THEN [c EXCEPT !.failure_count = 0] ELSE c

\* One tick of time.monotonic().
Age(b) ==
    [b EXCEPT !.since_failure = IF @ < RecoveryTimeout THEN @ + 1 ELSE @]
==============================================================================
