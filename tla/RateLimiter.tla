----------------------------- MODULE RateLimiter -----------------------------
(***************************************************************************)
(* app/core/rate_limiter.py, check_rate_limit, and the fail-open branch of *)
(* its caller (app/api/completions.py, 100-121).  Requests of one app_id   *)
(* share one Redis counter per fixed window.  A request reads the clock,   *)
(* names its window's key and awaits an INCR + EXPIRE transaction, which   *)
(* Redis may run any time later: in another order than the clock was read, *)
(* in a later window, or, were it late enough, after the key has expired.  *)
(***************************************************************************)
EXTENDS Naturals, FiniteSets

CONSTANTS
    Requests,       \* requests of one app_id
    Limit,          \* limit, 60 in the handler
    WindowSeconds,  \* window_seconds, 60 in the handler
    MaxDelay,       \* longest time from reading the clock to the INCR
    MaxTime,        \* bound of the clock
    Faults          \* subset of {"down", "reply"}

ASSUME LimiterAssumption ==
    /\ IsFiniteSet(Requests)
    /\ Limit \in Nat \ {0}
    /\ WindowSeconds \in Nat \ {0}
    /\ MaxDelay \in Nat
    /\ MaxTime \in Nat
    /\ Faults \subseteq {"down", "reply"}

VARIABLES
    now,            \* int(time.time()), also the clock Redis expires keys by
    pc,             \* "failed_open": let through without an answer from Redis
    current_time,   \* the local of that name
    count,          \* the counter at each window's key ...
    expires_at      \* ... and when the key expires

vars == <<now, pc, current_time, count, expires_at>>

window_start(t) == (t \div WindowSeconds) * WindowSeconds
Windows == {t \in 0 .. MaxTime : window_start(t) = t}
Window(r) == window_start(current_time[r])

TypeOK ==
    /\ now \in 0 .. MaxTime
    /\ pc \in [Requests -> {"new", "sent", "allowed", "denied", "failed_open"}]
    /\ current_time \in [Requests -> 0 .. MaxTime]
    /\ count \in [Windows -> 0 .. Cardinality(Requests)]
    /\ expires_at \in [Windows -> 0 .. MaxTime + 2 * WindowSeconds]

Init ==
    /\ now = 0
    /\ pc = [r \in Requests |-> "new"]
    /\ current_time = [r \in Requests |-> 0]
    /\ count = [k \in Windows |-> 0]
    /\ expires_at = [k \in Windows |-> 0]

Goto(r, label) == pc' = [pc EXCEPT ![r] = label]

\* int(time.time()) and the key; then the transaction is sent.
ReadClock(r) ==
    /\ pc[r] = "new"
    /\ current_time' = [current_time EXCEPT ![r] = now]
    /\ Goto(r, "sent")
    /\ UNCHANGED <<now, count, expires_at>>

\* What INCR returns: an expired key counts from zero again.
IncrResult(k) == IF now < expires_at[k] THEN count[k] + 1 ELSE 1

\* Mutants, here and below: a bug that the definition after it could have.
IncrAndExpire_OneWindow(k) ==    \* the key lives for one window only
    /\ count' = [count EXCEPT ![k] = IncrResult(k)]
    /\ expires_at' = [expires_at EXCEPT ![k] = now + WindowSeconds]

IncrAndExpire_Absolute(k) ==     \* a point in time where EXPIRE wants a duration
    /\ count' = [count EXCEPT ![k] = IncrResult(k)]
    /\ expires_at' = [expires_at EXCEPT ![k] = now + k + 2 * WindowSeconds]

\* MULTI; INCR key; EXPIRE key 2*window_seconds; EXEC
IncrAndExpire(k) ==
    /\ count' = [count EXCEPT ![k] = IncrResult(k)]
    /\ expires_at' = [expires_at EXCEPT ![k] = now + 2 * WindowSeconds]

Decide_LimitExcluded(r) ==       \* >= for >
    /\ pc[r] = "sent"
    /\ IncrAndExpire(Window(r))
    /\ Goto(r, IF IncrResult(Window(r)) >= Limit THEN "denied" ELSE "allowed")
    /\ UNCHANGED <<now, current_time>>

Decide(r) ==
    /\ pc[r] = "sent"
    /\ IncrAndExpire(Window(r))
    /\ Goto(r, IF IncrResult(Window(r)) > Limit THEN "denied" ELSE "allowed")
    /\ UNCHANGED <<now, current_time>>

\* RateLimiterUnavailableError: the handler logs it and lets the request pass.
FailOpen(r) ==
    /\ pc[r] = "sent"
    /\ Goto(r, "failed_open")
    /\ UNCHANGED <<now, current_time>>

RedisDown(r) ==
    /\ "down" \in Faults
    /\ FailOpen(r)
    /\ UNCHANGED <<count, expires_at>>

\* Redis counted the request but the reply was lost.
ReplyLost(r) ==
    /\ "reply" \in Faults
    /\ FailOpen(r)
    /\ IncrAndExpire(Window(r))

Tick ==
    /\ now < MaxTime
    /\ \A r \in Requests : pc[r] = "sent" => now < current_time[r] + MaxDelay
    /\ now' = now + 1
    /\ UNCHANGED <<pc, current_time, count, expires_at>>

Next ==
    \/ \E r \in Requests :
         \/ ReadClock(r)
         \/ Decide(r)
         \/ RedisDown(r)
         \/ ReplyLost(r)
    \/ Tick

Spec == Init /\ [][Next]_vars
------------------------------------------------------------------------------
AllowedIn(k) == {r \in Requests : pc[r] = "allowed" /\ Window(r) = k}

\* No window lets more than Limit requests through on Redis's word, whatever
\* the order in which the increments arrive.  It needs the key to outlive every
\* late increment of its window: MaxDelay <= WindowSeconds and the doubled
\* expiry.
WindowQuota == \A k \in Windows : Cardinality(AllowedIn(k)) <= Limit

\* A request is refused only once its window's quota was really given away:
\* delays, lost replies and expiries never refuse a client early.
QuotaUsedWhenDenied ==
    \A d \in Requests : pc[d] = "denied" =>
        Limit <= Cardinality({r \in Requests :
                     Window(r) = Window(d) /\ pc[r] \in {"allowed", "failed_open"}})
==============================================================================
