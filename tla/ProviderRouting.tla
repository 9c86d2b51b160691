--------------------------- MODULE ProviderRouting ---------------------------
(***************************************************************************)
(* app/api/completions.py, lines 186-219: how requests that run            *)
(* concurrently on one event loop share primary_breaker.  A request asks   *)
(* the breaker once, awaits the primary provider, reports the outcome,     *)
(* releases the probe in the finally block and, when the primary was       *)
(* refused or failed, awaits the local Ollama model.  The only             *)
(* interleaving points are the two awaits; allow_request and the code      *)
(* after an await up to the next await are atomic.                         *)
(*                                                                         *)
(* A member of Requests is a slot: when its request has been answered the  *)
(* slot is idle and the next request may use it.                           *)
(***************************************************************************)
EXTENDS Breaker, FiniteSets

CONSTANTS
    Requests,       \* requests that can be in the handler at the same time
    CallDeadline    \* longest primary call, in ticks; the handler passes no
                    \* timeout, so this is the HTTP client's own limit

ASSUME RoutingAssumption ==
    /\ IsFiniteSet(Requests)
    /\ CallDeadline \in Nat \ {0}

VARIABLES
    breaker,    \* the module-level primary_breaker
    phase,      \* where each request's coroutine stands
    admitted,   \* breaker state in which allow_request let the request pass
    call_age    \* ticks since the request's primary call began

vars == <<breaker, phase, admitted, call_age>>

TypeOK ==
    /\ breaker \in Breaker
    /\ phase \in [Requests -> {"idle", "primary", "fallback"}]
    /\ admitted \in [Requests -> {"CLOSED", "HALF_OPEN"}]
    /\ call_age \in [Requests -> 0 .. CallDeadline]

InFlight == {r \in Requests : phase[r] = "primary"}
Probes == {r \in InFlight : admitted[r] = "HALF_OPEN"}

Init ==
    /\ breaker = NewBreaker
    /\ phase = [r \in Requests |-> "idle"]
    /\ admitted = [r \in Requests |-> "CLOSED"]
    /\ call_age = [r \in Requests |-> 0]

\* if primary_breaker.allow_request(): the primary call starts ...
RouteToPrimary(r) ==
    /\ phase[r] = "idle"
    /\ Granted(breaker)
    /\ breaker' = AllowRequest(breaker)
    /\ phase' = [phase EXCEPT ![r] = "primary"]
    /\ admitted' = [admitted EXCEPT ![r] = breaker'.state]
    /\ call_age' = [call_age EXCEPT ![r] = 0]

\* ... else: the request goes straight to Ollama.
RouteToFallback(r) ==
    /\ phase[r] = "idle"
    /\ ~Granted(breaker)
    /\ breaker' = AllowRequest(breaker)
    /\ phase' = [phase EXCEPT ![r] = "fallback"]
    /\ UNCHANGED <<admitted, call_age>>

\* The call returned: record_success(), then the finally block.
PrimarySucceeds(r) ==
    /\ phase[r] = "primary"
    /\ breaker' = ReleaseHalfOpenProbe(RecordSuccess(breaker))
    /\ phase' = [phase EXCEPT ![r] = "idle"]
    /\ UNCHANGED <<admitted, call_age>>

\* One of the five listed provider exceptions: record_failure(), the finally
\* block, and the Ollama call.
PrimaryFails(r) ==
    /\ phase[r] = "primary"
    /\ breaker' = ReleaseHalfOpenProbe(RecordFailure(breaker))
    /\ phase' = [phase EXCEPT ![r] = "fallback"]
    /\ UNCHANGED <<admitted, call_age>>

\* Any other exception, or the task was cancelled: only the finally block
\* runs and the exception leaves the handler.
PrimaryRaises(r) ==
    /\ phase[r] = "primary"
    /\ breaker' = ReleaseHalfOpenProbe(breaker)
    /\ phase' = [phase EXCEPT ![r] = "idle"]
    /\ UNCHANGED <<admitted, call_age>>

\* Ollama answered or raised: the breaker does not hear of it either way.
FallbackReturns(r) ==
    /\ phase[r] = "fallback"
    /\ phase' = [phase EXCEPT ![r] = "idle"]
    /\ UNCHANGED <<breaker, admitted, call_age>>

\* Time passes, but no primary call outlives the client's limit.
Tick ==
    /\ \A r \in InFlight : call_age[r] < CallDeadline
    /\ breaker' = Age(breaker)
    /\ call_age' = [r \in Requests |->
                      IF phase[r] = "primary" THEN call_age[r] + 1
                      ELSE call_age[r]]
    /\ UNCHANGED <<phase, admitted>>

PrimaryReturns(r) == PrimarySucceeds(r) \/ PrimaryFails(r) \/ PrimaryRaises(r)

Next ==
    \/ \E r \in Requests :
         \/ RouteToPrimary(r)
         \/ RouteToFallback(r)
         \/ PrimarySucceeds(r)
         \/ PrimaryFails(r)
         \/ PrimaryRaises(r)
         \/ FallbackReturns(r)
    \/ Tick

Spec == Init /\ [][Next]_vars

(***************************************************************************)
(* Fairness: time passes, requests keep arriving in every slot, and each   *)
(* outbound call ends (the HTTP client has some limit).  Nothing is        *)
(* assumed about how a primary call ends.                                  *)
(***************************************************************************)
Fairness ==
    /\ WF_vars(Tick)
    /\ \A r \in Requests :
         /\ WF_vars(RouteToPrimary(r) \/ RouteToFallback(r))
         /\ WF_vars(PrimaryReturns(r))
         /\ WF_vars(FallbackReturns(r))

FairSpec == Spec /\ Fairness
------------------------------------------------------------------------------
(***************************************************************************)
(* Safety                                                                  *)
(***************************************************************************)

\* The breaker is closed exactly while the run of consecutive failures is
\* shorter than the threshold: no order of late successes, late failures and
\* probes leaves it closed with a spent budget, or tripped with budget left.
\* The boundary is the code's, >= in line 54, which tests/test_circuit_breaker.py
\* checks; the module's docstring (line 12) has failures > threshold.
TrippedIffThreshold ==
    breaker.state = "CLOSED" <=> breaker.failure_count < FailureThreshold

\* The probe flag is only ever up in HALF_OPEN, with a call in flight that was
\* admitted as a probe and will lower it: no path leaves the breaker refusing
\* every caller on behalf of a probe that does not exist.
ProbeBacked ==
    breaker.half_open_probe_in_flight =>
        breaker.state = "HALF_OPEN" /\ Probes # {}

\* Calls that fail after the breaker has tripped do not push the recovery
\* timeout back: while it stays open, its clock never goes backwards.
OutageNotExtended ==
    [][breaker.state = "OPEN" /\ breaker'.state = "OPEN"
         => breaker'.since_failure >= breaker.since_failure]_vars

\* At most one probe is talking to the primary at any time, the purpose of
\* _half_open_probe_in_flight.
AtMostOneProbe == \A r, s \in Probes : r = s

\* Only calls admitted before the trip can break that: in a behaviour in which
\* none of them is still out while the breaker is HALF_OPEN, probes never
\* overlap, however they end and however often the breaker reopens.
SingleProbe ==
    [](breaker.state = "HALF_OPEN" => InFlight \subseteq Probes) => []AtMostOneProbe

\* Such calls are as old as recovery_timeout: every failure that opens the
\* breaker restarts its clock, so a probe is never sent while a call younger
\* than that, which may yet report, is out.
StragglersAreOld ==
    breaker.state = "HALF_OPEN" =>
        \A r \in InFlight \ Probes : call_age[r] >= RecoveryTimeout

(***************************************************************************)
(* Liveness                                                                *)
(***************************************************************************)

\* A raised probe flag is lowered again, however the probe ends.
ProbeSlotFreed ==
    breaker.half_open_probe_in_flight ~> ~breaker.half_open_probe_in_flight

\* Once the primary answers every call the breaker closes and stays closed,
\* whatever stragglers and probes were in flight when the outage ended.
RecoversWithPrimary ==
    <>[][\A r \in Requests : PrimaryReturns(r) => PrimarySucceeds(r)]_vars
        => <>[](breaker.state = "CLOSED")

\* An open breaker does not stay open: some later request is let through.
OpenIsTemporary == breaker.state = "OPEN" ~> breaker.state # "OPEN"
==============================================================================
