------------------------ MODULE ProviderRoutingProofs ------------------------
(***************************************************************************)
(* Theorems about ProviderRouting, for any number of concurrent requests   *)
(* and any threshold, timeout and call deadline.                           *)
(***************************************************************************)
EXTENDS ProviderRouting, TLAPS

\* What the breaker's methods preserve: the object stays well formed and is
\* closed exactly while its failure budget lasts.
SoundBreaker(b) ==
    /\ b \in Breaker
    /\ b.state = "CLOSED" <=> b.failure_count < FailureThreshold

\* A new breaker is sound.
LEMMA NewBreakerSound == SoundBreaker(NewBreaker)
  BY BreakerAssumption DEF SoundBreaker, NewBreaker, Breaker

\* allow_request grants nothing while the breaker stays open.
LEMMA AllowRequestSound ==
  ASSUME NEW b, SoundBreaker(b)
  PROVE  /\ SoundBreaker(AllowRequest(b))
         /\ Granted(b) => AllowRequest(b).state \in {"CLOSED", "HALF_OPEN"}
         /\ ~Granted(b) => AllowRequest(b) = b
  BY BreakerAssumption DEF SoundBreaker, Breaker, AllowRequest, Granted

\* A trip needs the threshold.
LEMMA TripSound ==
  ASSUME NEW b \in Breaker, ~(b.failure_count < FailureThreshold)
  PROVE  SoundBreaker(Trip(b))
  <1>1. 0 \in 0 .. RecoveryTimeout
    BY BreakerAssumption
  <1>2. Trip(b) \in Breaker
    BY <1>1 DEF Trip, Breaker
  <1>3. Trip(b).state = "OPEN" /\ Trip(b).failure_count = b.failure_count
    BY DEF Trip, Breaker
  <1>4. QED
    BY <1>2, <1>3 DEF SoundBreaker

\* record_failure trips exactly at the threshold.
LEMMA RecordFailureSound ==
  ASSUME NEW b, SoundBreaker(b)
  PROVE  SoundBreaker(RecordFailure(b))
  <1>b. b \in Breaker /\ (b.state = "CLOSED" <=> b.failure_count < FailureThreshold)
    BY DEF SoundBreaker
  <1>1. CASE b.state = "HALF_OPEN"
    <2>1. ReleaseHalfOpenProbe(b) \in Breaker
          /\ ReleaseHalfOpenProbe(b).failure_count = b.failure_count
      BY <1>b DEF ReleaseHalfOpenProbe, Breaker
    <2>2. RecordFailure(b) = Trip(ReleaseHalfOpenProbe(b))
      BY <1>1 DEF RecordFailure
    <2>3. QED
      BY <1>1, <1>b, <2>1, <2>2, TripSound
  <1>2. CASE b.state = "CLOSED"
    <2> DEFINE c == CountFailure(b)
    <2>1. c \in Breaker /\ c.state = "CLOSED"
      BY <1>2, <1>b, BreakerAssumption DEF CountFailure, Breaker
    <2> HIDE DEF c
    <2>2. CASE c.failure_count >= FailureThreshold
      <3>1. RecordFailure(b) = Trip(c)
        BY <1>2, <2>2 DEF RecordFailure, c
      <3>2. QED
        BY <2>1, <2>2, <3>1, BreakerAssumption, TripSound DEF Breaker
    <2>3. CASE ~(c.failure_count >= FailureThreshold)
      <3>1. RecordFailure(b) = c
        BY <1>2, <2>3 DEF RecordFailure, c
      <3>2. QED
        BY <2>1, <2>3, <3>1, BreakerAssumption DEF SoundBreaker, Breaker
    <2>4. QED
      BY <2>2, <2>3
  <1>3. CASE b.state = "OPEN"
    BY <1>3 DEF RecordFailure
  <1>4. QED
    BY <1>1, <1>2, <1>3, <1>b DEF Breaker

\* record_success resets the count whenever it leaves the breaker closed.
LEMMA RecordSuccessSound ==
  ASSUME NEW b, SoundBreaker(b)
  PROVE  SoundBreaker(RecordSuccess(b))
  <1> DEFINE c == CloseHalfOpen(b)
  <1>1. c \in Breaker /\ (c.state # "CLOSED" => c = b)
    BY DEF CloseHalfOpen, SoundBreaker, Breaker
  <1>2. RecordSuccess(b) = IF c.state = "CLOSED" THEN [c EXCEPT !.failure_count = 0]
                           ELSE c
    BY DEF RecordSuccess
  <1> HIDE DEF c
  <1>3. QED
    BY <1>1, <1>2, BreakerAssumption DEF SoundBreaker, Breaker

\* release_half_open_probe lowers the flag and does nothing else.
LEMMA ReleaseSound ==
  ASSUME NEW b, SoundBreaker(b)
  PROVE  /\ SoundBreaker(ReleaseHalfOpenProbe(b))
         /\ ReleaseHalfOpenProbe(b).half_open_probe_in_flight = FALSE
         /\ ReleaseHalfOpenProbe(b).state = b.state
         /\ ReleaseHalfOpenProbe(b).since_failure = b.since_failure
  BY DEF SoundBreaker, Breaker, ReleaseHalfOpenProbe

\* Time changes the age of the last failure only.
LEMMA AgeSound ==
  ASSUME NEW b, SoundBreaker(b)
  PROVE  /\ SoundBreaker(Age(b))
         /\ Age(b).state = b.state
         /\ Age(b).half_open_probe_in_flight = b.half_open_probe_in_flight
         /\ Age(b).since_failure >= b.since_failure
  BY BreakerAssumption DEF SoundBreaker, Breaker, Age
------------------------------------------------------------------------------
\* Every step of a request or of the clock keeps the types, and leaves the
\* breaker closed exactly while its failure budget lasts.
Sound == TypeOK /\ TrippedIffThreshold

\* The types and the breaker, at the start.
LEMMA SoundInit == Init => Sound
  BY NewBreakerSound, RoutingAssumption
     DEF Init, Sound, TypeOK, TrippedIffThreshold, SoundBreaker

\* Every step keeps both.
LEMMA SoundStep == Sound /\ [Next]_vars => Sound'
  <1> SUFFICES ASSUME Sound, [Next]_vars PROVE Sound'
    OBVIOUS
  <1>b. SoundBreaker(breaker)
    BY DEF Sound, TypeOK, TrippedIffThreshold, SoundBreaker
  <1>s. SoundBreaker(breaker') => breaker' \in Breaker /\ TrippedIffThreshold'
    BY DEF SoundBreaker, TrippedIffThreshold
  <1>1. ASSUME NEW r \in Requests, RouteToPrimary(r) PROVE Sound'
    <2>1. SoundBreaker(breaker') /\ breaker'.state \in {"CLOSED", "HALF_OPEN"}
      BY <1>1, <1>b, AllowRequestSound DEF RouteToPrimary
    <2>2. QED
      BY <1>1, <1>s, <2>1, RoutingAssumption DEF RouteToPrimary, Sound, TypeOK
  <1>2. ASSUME NEW r \in Requests, RouteToFallback(r) PROVE Sound'
    <2>1. SoundBreaker(breaker')
      BY <1>2, <1>b, AllowRequestSound DEF RouteToFallback
    <2>2. QED
      BY <1>2, <1>s, <2>1 DEF RouteToFallback, Sound, TypeOK
  <1>3. ASSUME NEW r \in Requests, PrimarySucceeds(r) PROVE Sound'
    <2>1. SoundBreaker(breaker')
      BY <1>3, <1>b, RecordSuccessSound, ReleaseSound DEF PrimarySucceeds
    <2>2. QED
      BY <1>3, <1>s, <2>1 DEF PrimarySucceeds, Sound, TypeOK
  <1>4. ASSUME NEW r \in Requests, PrimaryFails(r) PROVE Sound'
    <2>1. SoundBreaker(breaker')
      BY <1>4, <1>b, RecordFailureSound, ReleaseSound DEF PrimaryFails
    <2>2. QED
      BY <1>4, <1>s, <2>1 DEF PrimaryFails, Sound, TypeOK
  <1>5. ASSUME NEW r \in Requests, PrimaryRaises(r) PROVE Sound'
    <2>1. SoundBreaker(breaker')
      BY <1>5, <1>b, ReleaseSound DEF PrimaryRaises
    <2>2. QED
      BY <1>5, <1>s, <2>1 DEF PrimaryRaises, Sound, TypeOK
  <1>6. ASSUME NEW r \in Requests, FallbackReturns(r) PROVE Sound'
    BY <1>6 DEF FallbackReturns, Sound, TypeOK, TrippedIffThreshold
  <1>7. CASE Tick
    <2>1. SoundBreaker(breaker')
      BY <1>7, <1>b, AgeSound DEF Tick
    <2>2. call_age' \in [Requests -> 0 .. CallDeadline]
      BY <1>7, RoutingAssumption DEF Tick, InFlight, Sound, TypeOK
    <2>3. QED
      BY <1>7, <1>s, <2>1, <2>2 DEF Tick, Sound, TypeOK
  <1>8. CASE UNCHANGED vars
    BY <1>8 DEF vars, Sound, TypeOK, TrippedIffThreshold
  <1>9. QED
    BY <1>1, <1>2, <1>3, <1>4, <1>5, <1>6, <1>7, <1>8 DEF Next

\* The state of the router is always well formed.
THEOREM RoutingTypeCorrect == Spec => []TypeOK
  <1>1. Sound => TypeOK
    BY DEF Sound
  <1>2. QED
    BY SoundInit, SoundStep, <1>1, PTL DEF Spec

\* The breaker is tripped exactly when its failure budget is spent.
THEOREM TrippedIffThresholdHolds == Spec => []TrippedIffThreshold
  <1>1. Sound => TrippedIffThreshold
    BY DEF Sound
  <1>2. QED
    BY SoundInit, SoundStep, <1>1, PTL DEF Spec
------------------------------------------------------------------------------
\* A raised probe flag has a probe behind it, whatever stale calls return.
LEMMA ProbeBackedInit == Init => ProbeBacked
  BY DEF Init, NewBreaker, ProbeBacked

\* Every step keeps a request behind the flag.
LEMMA ProbeBackedStep == Sound /\ ProbeBacked /\ [Next]_vars => ProbeBacked'
  <1> SUFFICES ASSUME Sound, ProbeBacked, [Next]_vars PROVE ProbeBacked'
    OBVIOUS
  <1>b. SoundBreaker(breaker)
    BY DEF Sound, TypeOK, TrippedIffThreshold, SoundBreaker
  <1>1. ASSUME NEW r \in Requests, RouteToPrimary(r) PROVE ProbeBacked'
    <2>1. CASE breaker.state = "CLOSED"
      <3>1. breaker' = breaker /\ ~breaker.half_open_probe_in_flight
        BY <1>1, <2>1 DEF RouteToPrimary, AllowRequest, ProbeBacked
      <3>2. QED
        BY <3>1 DEF ProbeBacked
    <2>2. CASE breaker.state # "CLOSED"
      <3>1. breaker'.state = "HALF_OPEN"
        BY <1>1, <2>2, <1>b DEF RouteToPrimary, AllowRequest, SoundBreaker, Breaker
      <3>2. r \in Probes'
        BY <1>1, <3>1 DEF RouteToPrimary, Probes, InFlight, Sound, TypeOK
      <3>3. QED
        BY <3>1, <3>2 DEF ProbeBacked
    <2>3. QED
      BY <2>1, <2>2
  <1>2. ASSUME NEW r \in Requests, RouteToFallback(r) PROVE ProbeBacked'
    <2>1. breaker' = breaker
      BY <1>2, <1>b, AllowRequestSound DEF RouteToFallback
    <2>2. Probes' = Probes
      BY <1>2 DEF RouteToFallback, Probes, InFlight, Sound, TypeOK
    <2>3. QED
      BY <2>1, <2>2 DEF ProbeBacked
  <1>3. ASSUME NEW r \in Requests, PrimaryReturns(r) PROVE ProbeBacked'
    <2>1. PICK b : SoundBreaker(b) /\ breaker' = ReleaseHalfOpenProbe(b)
      BY <1>3, <1>b, RecordSuccessSound, RecordFailureSound
         DEF PrimaryReturns, PrimarySucceeds, PrimaryFails, PrimaryRaises
    <2>2. ~breaker'.half_open_probe_in_flight
      BY <2>1, ReleaseSound
    <2>3. QED
      BY <2>2 DEF ProbeBacked
  <1>4. ASSUME NEW r \in Requests, FallbackReturns(r) PROVE ProbeBacked'
    <2>1. Probes' = Probes
      BY <1>4 DEF FallbackReturns, Probes, InFlight, Sound, TypeOK
    <2>2. QED
      BY <1>4, <2>1 DEF FallbackReturns, ProbeBacked
  <1>5. CASE Tick
    <2>1. Probes' = Probes
      BY <1>5 DEF Tick, Probes, InFlight
    <2>2. QED
      BY <1>5, <1>b, <2>1, AgeSound DEF Tick, ProbeBacked
  <1>6. CASE UNCHANGED vars
    BY <1>6 DEF vars, ProbeBacked, Probes, InFlight
  <1>7. QED
    BY <1>1, <1>2, <1>3, <1>4, <1>5, <1>6 DEF Next, PrimaryReturns

\* No order of returns strands the breaker behind a probe that does not exist.
THEOREM ProbeBackedHolds == Spec => []ProbeBacked
  <1>1. Init => Sound /\ ProbeBacked
    BY SoundInit, ProbeBackedInit
  <1>2. (Sound /\ ProbeBacked) /\ [Next]_vars => (Sound /\ ProbeBacked)'
    BY SoundStep, ProbeBackedStep
  <1>3. QED
    BY <1>1, <1>2, PTL DEF Spec
------------------------------------------------------------------------------
\* Failures reported to an open breaker do not restart its recovery timeout.
THEOREM OutageNotExtendedHolds == Spec => OutageNotExtended
  <1> DEFINE NotBackwards ==
        breaker.state = "OPEN" /\ breaker'.state = "OPEN"
          => breaker'.since_failure >= breaker.since_failure
  <1>1. Sound /\ [Next]_vars => [NotBackwards]_vars
    <2> SUFFICES ASSUME Sound, Next, breaker.state = "OPEN",
                        breaker'.state = "OPEN"
                 PROVE  breaker'.since_failure >= breaker.since_failure
      OBVIOUS
    <2>b. SoundBreaker(breaker) /\ breaker.since_failure \in Nat
      BY BreakerAssumption
         DEF Sound, TypeOK, TrippedIffThreshold, SoundBreaker, Breaker
    <2>1. ASSUME NEW r \in Requests, RouteToPrimary(r)
          PROVE  breaker'.state = "HALF_OPEN"
      BY <2>1, <2>b DEF RouteToPrimary, AllowRequest, SoundBreaker, Breaker
    <2>2. ASSUME NEW r \in Requests, RouteToFallback(r) PROVE breaker' = breaker
      BY <2>2, <2>b, AllowRequestSound DEF RouteToFallback
    <2>3. ASSUME NEW r \in Requests, PrimaryReturns(r)
          PROVE  breaker' = ReleaseHalfOpenProbe(breaker)
      BY <2>3 DEF PrimaryReturns, PrimarySucceeds, PrimaryFails, PrimaryRaises,
                  RecordFailure, RecordSuccess, CloseHalfOpen
    <2>4. ASSUME NEW r \in Requests, FallbackReturns(r) PROVE breaker' = breaker
      BY <2>4 DEF FallbackReturns
    <2>5. CASE Tick
      BY <2>5, <2>b, AgeSound DEF Tick
    <2>6. ReleaseHalfOpenProbe(breaker).since_failure = breaker.since_failure
      BY <2>b, ReleaseSound
    <2>7. ASSUME NEW r \in Requests, PrimaryReturns(r)
          PROVE  breaker'.since_failure = breaker.since_failure
      BY <2>3, <2>6, <2>7
    <2>8. ~ \E r \in Requests : RouteToPrimary(r)
      BY <2>1
    <2>9. Tick \/ breaker'.since_failure = breaker.since_failure
      BY <2>2, <2>4, <2>7, <2>8 DEF Next, PrimaryReturns
    <2>10. QED
      BY <2>5, <2>9, <2>b
  <1>2. QED
    BY <1>1, SoundInit, SoundStep, PTL DEF Spec, OutageNotExtended
------------------------------------------------------------------------------
\* Calls that are out while the breaker is open began before its last failure,
\* so those still out in HALF_OPEN have outlived the recovery timeout.
Aged ==
    /\ breaker.state = "OPEN" =>
         \A r \in InFlight : call_age[r] >= breaker.since_failure
    /\ StragglersAreOld

\* Without such calls a probe is alone, and it is the one that holds the flag.
Exclusive ==
    /\ AtMostOneProbe
    /\ ~(breaker.state = "HALF_OPEN" /\ breaker.half_open_probe_in_flight) => Probes = {}

NoStragglers == breaker.state = "HALF_OPEN" => InFlight \subseteq Probes

\* At the start no call is under way.
LEMMA CallsInit == Init => Aged /\ Exclusive
  BY DEF Init, NewBreaker, Aged, StragglersAreOld, Exclusive, AtMostOneProbe,
         Probes, InFlight

\* allow_request lets a call start.
LEMMA CallStarts ==
  ASSUME Sound, NEW r \in Requests, RouteToPrimary(r)
  PROVE  /\ InFlight' = InFlight \cup {r} /\ r \notin InFlight
         /\ \A s \in InFlight : call_age'[s] = call_age[s]
         /\ \/ /\ breaker.state = "CLOSED" /\ breaker' = breaker
               /\ Probes' = Probes
            \/ /\ \/ breaker.state = "OPEN" /\ breaker.since_failure = RecoveryTimeout
                  \/ breaker.state = "HALF_OPEN" /\ ~breaker.half_open_probe_in_flight
               /\ breaker'.state = "HALF_OPEN" /\ breaker'.half_open_probe_in_flight
               /\ Probes' = Probes \cup {r}
  <1>b. SoundBreaker(breaker)
    BY DEF Sound, TypeOK, TrippedIffThreshold, SoundBreaker
  <1>1. InFlight' = InFlight \cup {r} /\ r \notin InFlight
    BY DEF RouteToPrimary, InFlight, Sound, TypeOK
  <1>2. Probes' = IF breaker'.state = "HALF_OPEN" THEN Probes \cup {r} ELSE Probes
    BY DEF RouteToPrimary, InFlight, Probes, Sound, TypeOK
  <1>3. \A s \in InFlight : call_age'[s] = call_age[s]
    BY <1>1 DEF RouteToPrimary, InFlight, Sound, TypeOK
  <1>4. CASE breaker.state = "CLOSED"
    <2>1. breaker' = breaker
      BY <1>4 DEF RouteToPrimary, AllowRequest
    <2>2. QED
      BY <1>1, <1>2, <1>3, <1>4, <2>1
  <1>5. CASE breaker.state # "CLOSED"
    <2>1. breaker'.state = "HALF_OPEN" /\ breaker'.half_open_probe_in_flight
      BY <1>5, <1>b DEF RouteToPrimary, AllowRequest, SoundBreaker, Breaker
    <2>2. \/ breaker.state = "OPEN" /\ breaker.since_failure = RecoveryTimeout
          \/ breaker.state = "HALF_OPEN" /\ ~breaker.half_open_probe_in_flight
      BY <1>5, <1>b, BreakerAssumption DEF RouteToPrimary, Granted, SoundBreaker, Breaker
    <2>3. QED
      BY <1>1, <1>2, <1>3, <2>1, <2>2
  <1>6. QED
    BY <1>4, <1>5

\* A call that returns leaves; if the breaker is open afterwards, it was open
\* already or its clock has just been restarted.
LEMMA CallReturns ==
  ASSUME Sound, NEW r \in Requests, PrimaryReturns(r)
  PROVE  /\ r \in InFlight /\ InFlight' = InFlight \ {r} /\ Probes' = Probes \ {r}
         /\ call_age' = call_age
         /\ breaker'.state = "HALF_OPEN" => breaker.state = "HALF_OPEN"
         /\ breaker'.state = "OPEN" =>
              \/ breaker'.since_failure = 0
              \/ breaker.state = "OPEN" /\ breaker'.since_failure = breaker.since_failure
  <1>b. SoundBreaker(breaker) /\ breaker \in Breaker
    BY DEF Sound, TypeOK, TrippedIffThreshold, SoundBreaker
  <1>1. /\ r \in InFlight /\ InFlight' = InFlight \ {r} /\ Probes' = Probes \ {r}
        /\ call_age' = call_age
    BY DEF PrimaryReturns, PrimarySucceeds, PrimaryFails, PrimaryRaises,
           InFlight, Probes, Sound, TypeOK
  \* What each of the three endings reports to the breaker.
  <1> DEFINE Reported(c) ==
        /\ c.state = "HALF_OPEN" => breaker.state = "HALF_OPEN"
        /\ c.state = "OPEN" =>
             \/ c.since_failure = 0
             \/ breaker.state = "OPEN" /\ c.since_failure = breaker.since_failure
  <1>2. Reported(RecordSuccess(breaker))
    <2> DEFINE c == CloseHalfOpen(breaker)
    <2>1. c \in Breaker /\ (breaker.state # "HALF_OPEN" => c = breaker)
          /\ c.state # "HALF_OPEN"
      BY <1>b DEF CloseHalfOpen, Breaker
    <2>2. RecordSuccess(breaker) = IF c.state = "CLOSED" THEN [c EXCEPT !.failure_count = 0]
                                   ELSE c
      BY DEF RecordSuccess
    <2>3. breaker.state = "HALF_OPEN" => c.state = "CLOSED"
      BY <1>b DEF CloseHalfOpen, Breaker
    <2> HIDE DEF c
    <2>4. CASE c.state = "CLOSED"
      BY <2>1, <2>2, <2>4 DEF Breaker
    <2>5. CASE c.state # "CLOSED"
      BY <2>1, <2>2, <2>3, <2>5
    <2>6. QED
      BY <2>4, <2>5
  <1>3. Reported(RecordFailure(breaker))
    <2> DEFINE c == CountFailure(breaker)
               h == ReleaseHalfOpenProbe(breaker)
    <2>1. /\ Trip(h).state = "OPEN" /\ Trip(h).since_failure = 0
          /\ Trip(c).state = "OPEN" /\ Trip(c).since_failure = 0
          /\ c.state = breaker.state
      BY <1>b DEF Trip, CountFailure, ReleaseHalfOpenProbe, Breaker
    <2>2. /\ breaker.state = "HALF_OPEN" => RecordFailure(breaker) = Trip(h)
          /\ breaker.state = "CLOSED" => RecordFailure(breaker) \in {Trip(c), c}
          /\ breaker.state = "OPEN" => RecordFailure(breaker) = breaker
      BY DEF RecordFailure
    <2> HIDE DEF c, h
    <2>3. breaker.state \in {"CLOSED", "OPEN", "HALF_OPEN"}
      BY <1>b DEF Breaker
    <2>4. QED
      BY <2>1, <2>2, <2>3
  <1>4. Reported(breaker)
    OBVIOUS
  <1>5. PICK c : SoundBreaker(c) /\ breaker' = ReleaseHalfOpenProbe(c) /\ Reported(c)
    BY <1>b, <1>2, <1>3, <1>4, RecordSuccessSound, RecordFailureSound
       DEF PrimaryReturns, PrimarySucceeds, PrimaryFails, PrimaryRaises
  <1>6. breaker'.state = c.state /\ breaker'.since_failure = c.since_failure
    BY <1>5, ReleaseSound
  <1>7. QED
    BY <1>1, <1>5, <1>6

\* The steps that leave the calls in flight alone.
LEMMA CallsElse ==
  ASSUME Sound, NEW r \in Requests, RouteToFallback(r) \/ FallbackReturns(r)
  PROVE  /\ breaker' = breaker /\ call_age' = call_age
         /\ InFlight' = InFlight /\ Probes' = Probes
  <1>b. SoundBreaker(breaker)
    BY DEF Sound, TypeOK, TrippedIffThreshold, SoundBreaker
  <1>1. breaker' = breaker /\ call_age' = call_age
    BY <1>b, AllowRequestSound DEF RouteToFallback, FallbackReturns
  <1>2. InFlight' = InFlight /\ Probes' = Probes
    BY DEF RouteToFallback, FallbackReturns, InFlight, Probes, Sound, TypeOK
  <1>3. QED
    BY <1>1, <1>2

\* Calls and outage age together.
LEMMA CallsAge ==
  ASSUME Sound, Tick
  PROVE  /\ InFlight' = InFlight /\ Probes' = Probes
         /\ breaker'.state = breaker.state
         /\ breaker'.half_open_probe_in_flight = breaker.half_open_probe_in_flight
         /\ breaker.since_failure \in Nat /\ breaker'.since_failure \in Nat
         /\ breaker'.since_failure <= breaker.since_failure + 1
         /\ \A r \in InFlight : call_age[r] \in Nat /\ call_age'[r] = call_age[r] + 1
  <1>b. SoundBreaker(breaker)
    BY DEF Sound, TypeOK, TrippedIffThreshold, SoundBreaker
  <1>1. InFlight' = InFlight /\ Probes' = Probes
    BY DEF Tick, InFlight, Probes
  <1>2. /\ breaker'.state = breaker.state
        /\ breaker'.half_open_probe_in_flight = breaker.half_open_probe_in_flight
        /\ breaker'.since_failure <= breaker.since_failure + 1
    BY <1>b, AgeSound, BreakerAssumption DEF Tick, Age, SoundBreaker, Breaker
  <1>3. breaker.since_failure \in Nat /\ breaker'.since_failure \in Nat
    BY <1>b, AgeSound, BreakerAssumption DEF Tick, SoundBreaker, Breaker
  <1>4. \A r \in InFlight : call_age[r] \in Nat /\ call_age'[r] = call_age[r] + 1
    BY RoutingAssumption DEF Tick, InFlight, Sound, TypeOK
  <1>5. QED
    BY <1>1, <1>2, <1>3, <1>4

\* Every step keeps the calls older than the outage.
LEMMA AgedStep == Sound /\ Aged /\ [Next]_vars => Aged'
  <1> SUFFICES ASSUME Sound, Aged, [Next]_vars PROVE Aged'
    OBVIOUS
  <1>a. \A r \in InFlight : call_age[r] \in Nat
    BY RoutingAssumption DEF InFlight, Sound, TypeOK
  <1>t. RecoveryTimeout \in Nat
    BY BreakerAssumption
  <1>1. ASSUME NEW r \in Requests, RouteToPrimary(r) PROVE Aged'
    <2>1. CASE breaker.state = "CLOSED"
      BY <1>1, <2>1, CallStarts DEF Aged, StragglersAreOld
    <2>2. CASE breaker.state = "OPEN"
      BY <1>1, <2>2, CallStarts DEF Aged, StragglersAreOld
    <2>3. CASE breaker.state = "HALF_OPEN"
      BY <1>1, <2>3, CallStarts DEF Aged, StragglersAreOld
    <2>4. QED
      BY <1>1, <2>1, <2>2, <2>3, CallStarts
  <1>2. ASSUME NEW r \in Requests, PrimaryReturns(r) PROVE Aged'
    BY <1>2, <1>a, CallReturns DEF Aged, StragglersAreOld
  <1>3. ASSUME NEW r \in Requests, RouteToFallback(r) \/ FallbackReturns(r) PROVE Aged'
    BY <1>3, CallsElse DEF Aged, StragglersAreOld
  <1>4. CASE Tick
    BY <1>4, <1>t, CallsAge DEF Aged, StragglersAreOld
  <1>5. CASE UNCHANGED vars
    BY <1>5 DEF vars, Aged, StragglersAreOld, InFlight, Probes
  <1>6. QED
    BY <1>1, <1>2, <1>3, <1>4, <1>5 DEF Next, PrimaryReturns

\* Every step keeps the probe alone while no straggler is out in HALF_OPEN.
LEMMA ExclusiveStep == Sound /\ NoStragglers /\ Exclusive /\ [Next]_vars => Exclusive'
  <1> SUFFICES ASSUME Sound, NoStragglers, Exclusive, [Next]_vars PROVE Exclusive'
    OBVIOUS
  <1>1. ASSUME NEW r \in Requests, RouteToPrimary(r) PROVE Exclusive'
    <2>1. CASE breaker.state = "CLOSED"
      BY <1>1, <2>1, CallStarts DEF Exclusive, AtMostOneProbe
    <2>2. CASE breaker.state # "CLOSED"
      <3>1. Probes = {} /\ Probes' = Probes \cup {r}
            /\ breaker'.state = "HALF_OPEN" /\ breaker'.half_open_probe_in_flight
        BY <1>1, <2>2, CallStarts DEF Exclusive
      <3>2. QED
        BY <3>1 DEF Exclusive, AtMostOneProbe
    <2>3. QED
      BY <2>1, <2>2
  <1>2. ASSUME NEW r \in Requests, PrimaryReturns(r) PROVE Exclusive'
    <2>1. Probes' = {}
      BY <1>2, CallReturns DEF Exclusive, AtMostOneProbe, NoStragglers
    <2>2. QED
      BY <2>1 DEF Exclusive, AtMostOneProbe
  <1>3. ASSUME NEW r \in Requests, RouteToFallback(r) \/ FallbackReturns(r) PROVE Exclusive'
    BY <1>3, CallsElse DEF Exclusive, AtMostOneProbe
  <1>4. CASE Tick
    BY <1>4, CallsAge DEF Exclusive, AtMostOneProbe
  <1>5. CASE UNCHANGED vars
    BY <1>5 DEF vars, Exclusive, AtMostOneProbe, InFlight, Probes
  <1>6. QED
    BY <1>1, <1>2, <1>3, <1>4, <1>5 DEF Next, PrimaryReturns

\* However long calls take: what is still out besides probes in HALF_OPEN has
\* been out for the recovery timeout.
THEOREM StragglersAreOldAlways == Spec => []StragglersAreOld
  <1>1. Init => Sound /\ Aged
    BY SoundInit, CallsInit
  <1>2. (Sound /\ Aged) /\ [Next]_vars => (Sound /\ Aged)'
    BY SoundStep, AgedStep
  <1>3. Aged => StragglersAreOld
    BY DEF Aged
  <1>4. QED
    BY <1>1, <1>2, <1>3, PTL DEF Spec

\* However long calls take: in a behaviour in which no call admitted before the
\* trip is out in HALF_OPEN, no two probes overlap.
THEOREM SingleProbeHolds == Spec => SingleProbe
  <1>1. Init => Sound /\ Exclusive
    BY SoundInit, CallsInit
  <1>2. Sound /\ [Next]_vars => Sound'
    BY SoundStep
  <1>3. Sound /\ NoStragglers /\ Exclusive /\ [Next]_vars => Exclusive'
    BY ExclusiveStep
  <1>4. Exclusive => AtMostOneProbe
    BY DEF Exclusive
  <1>5. Spec => ([]NoStragglers => []AtMostOneProbe)
    BY <1>1, <1>2, <1>3, <1>4, PTL DEF Spec
  <1>6. QED
    BY <1>5 DEF SingleProbe, NoStragglers
==============================================================================
