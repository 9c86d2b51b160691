-------------------------- MODULE RateLimiterProofs --------------------------
(***************************************************************************)
(* Proofs about RateLimiter.  They all follow one counter: what it says    *)
(* (count[k]) against the requests that have ended in its window, against  *)
(* those that were let through, and against those that were allowed.       *)
(***************************************************************************)
EXTENDS RateLimiter, FiniteSetTheorems, TLAPS

\* Multiples of WindowSeconds are their own window's start.
LEMMA WindowArithmetic ==
    ASSUME NEW t \in Nat
    PROVE  /\ window_start(t) \in Nat
           /\ window_start(t) <= t
           /\ t < window_start(t) + WindowSeconds
           /\ window_start(window_start(t)) = window_start(t)
<1> DEFINE q == t \div WindowSeconds
<1>1. WindowSeconds \in Nat \ {0}
  BY LimiterAssumption
<1>2. /\ q \in Nat
      /\ q * WindowSeconds <= t
      /\ t < q * WindowSeconds + WindowSeconds
  BY <1>1, SMTT(30)
<1>3. q * WindowSeconds \in Nat
  BY <1>1, <1>2, SMTT(30)
<1>4. (q * WindowSeconds) \div WindowSeconds = q
  BY <1>1, <1>2, SMTT(30)
<1> QED
  BY <1>2, <1>3, <1>4 DEF window_start

------------------------------------------------------------------------------
(***************************************************************************)
(* What the proofs add to the invariants that the runs check.              *)
(***************************************************************************)
Outcomes == {"allowed", "denied", "failed_open"}

\* The requests of window k that have come to one of the outcomes in O.
EndedIn(k, O) == {r \in Requests : pc[r] \in O /\ Window(r) = k}

LetThrough == {"allowed", "failed_open"}

\* A counter never says more than the requests that have ended in its window.
CountersBounded ==
    \A k \in Windows : count[k] <= Cardinality(EndedIn(k, Outcomes))

TypeInv == TypeOK /\ CountersBounded

\* A transaction in flight was sent at most MaxDelay ago.
InFlightInTime ==
    \A r \in Requests : pc[r] = "sent" =>
        /\ current_time[r] <= now
        /\ now <= current_time[r] + MaxDelay

\* A counter in use outlives its window by a whole window.
CountersOutliveWindow ==
    \A k \in Windows : 0 < count[k] => k + 2 * WindowSeconds <= expires_at[k]

\* Every request allowed is on its window's counter.
AllowedCounted ==
    \A k \in Windows : Cardinality(EndedIn(k, {"allowed"})) <= count[k]

QuotaInv ==
    /\ TypeInv
    /\ InFlightInTime
    /\ CountersOutliveWindow
    /\ AllowedCounted
    /\ WindowQuota

\* Until a window's quota is given away, its counter counts only requests that
\* were let through: a refusal is counted too, but only after that.
RefusalsCountedLast ==
    \A k \in Windows : \/ count[k] <= Cardinality(EndedIn(k, LetThrough))
                       \/ Limit <= Cardinality(EndedIn(k, LetThrough))

DenialInv == TypeInv /\ RefusalsCountedLast /\ QuotaUsedWhenDenied

------------------------------------------------------------------------------
(***************************************************************************)
(* The requests of a window, step by step                                  *)
(***************************************************************************)
LEMMA EndedInFinite ==
  ASSUME NEW k, NEW O
  PROVE  /\ IsFiniteSet(EndedIn(k, O))
         /\ Cardinality(EndedIn(k, O)) \in Nat
         /\ Cardinality(EndedIn(k, O)) <= Cardinality(Requests)
  <1>1. EndedIn(k, O) \in SUBSET Requests
    BY DEF EndedIn
  <1>2. QED
    BY <1>1, LimiterAssumption, FS_Subset, FS_CardinalityType

\* The window of a request begins at most WindowSeconds before it.
LEMMA WindowType ==
  ASSUME TypeOK, NEW r \in Requests
  PROVE  /\ Window(r) \in Windows
         /\ Window(r) \in Nat
         /\ Window(r) <= current_time[r]
         /\ current_time[r] < Window(r) + WindowSeconds
  <1>1. current_time[r] \in 0 .. MaxTime /\ current_time[r] \in Nat /\ MaxTime \in Nat
    BY LimiterAssumption DEF TypeOK
  <1>2. QED
    BY <1>1, WindowArithmetic DEF Window, Windows

\* A request in flight that ends joins its own window under its outcome.
LEMMA EndedInJoins ==
  ASSUME TypeOK, NEW r \in Requests, NEW label, NEW k, NEW O,
         pc[r] = "sent", "sent" \notin O,
         Goto(r, label), UNCHANGED current_time
  PROVE  /\ (label \in O /\ k = Window(r)) =>
                 /\ EndedIn(k, O)' = EndedIn(k, O) \cup {r}
                 /\ Cardinality(EndedIn(k, O)') = Cardinality(EndedIn(k, O)) + 1
         /\ ~(label \in O /\ k = Window(r)) => EndedIn(k, O)' = EndedIn(k, O)
  <1>1. pc' = [pc EXCEPT ![r] = label] /\ pc \in [Requests -> {"new", "sent", "allowed", "denied", "failed_open"}]
    BY DEF Goto, TypeOK
  <1>2. \A q \in Requests : Window(q)' = Window(q)
    BY DEF Window, window_start
  <1>3. r \notin EndedIn(k, O)
    BY DEF EndedIn
  <1>4. EndedIn(k, O)' = {q \in Requests : pc'[q] \in O /\ Window(q)' = k}
    BY DEF EndedIn
  <1>5. \A q \in Requests : pc'[q] = IF q = r THEN label ELSE pc[q]
    BY <1>1
  <1>6. ASSUME label \in O, k = Window(r)
        PROVE  EndedIn(k, O)' = EndedIn(k, O) \cup {r}
    BY <1>2, <1>4, <1>5, <1>6 DEF EndedIn
  <1>7. ASSUME ~(label \in O /\ k = Window(r))
        PROVE  EndedIn(k, O)' = EndedIn(k, O)
    BY <1>2, <1>4, <1>5, <1>7 DEF EndedIn
  <1>8. Cardinality(EndedIn(k, O) \cup {r}) = Cardinality(EndedIn(k, O)) + 1
    BY <1>3, EndedInFinite, FS_AddElement
  <1>9. QED
    BY <1>6, <1>7, <1>8

\* Nobody ends when a clock is read or ticks.
LEMMA EndedInStays ==
  ASSUME TypeOK, NEW k, NEW O, "new" \notin O, "sent" \notin O,
         (\E r \in Requests : ReadClock(r)) \/ Tick \/ UNCHANGED vars
  PROVE  EndedIn(k, O)' = EndedIn(k, O)
  <1>1. CASE UNCHANGED <<pc, current_time>>
    BY <1>1 DEF EndedIn, Window, window_start
  <1>2. CASE \E r \in Requests : ReadClock(r)
    <2> PICK r \in Requests : ReadClock(r)
      BY <1>2
    <2>1. /\ pc' = [pc EXCEPT ![r] = "sent"]
          /\ pc[r] = "new"
          /\ current_time' = [current_time EXCEPT ![r] = now]
          /\ pc \in [Requests -> {"new", "sent", "allowed", "denied", "failed_open"}]
          /\ current_time \in [Requests -> 0 .. MaxTime]
      BY DEF ReadClock, Goto, TypeOK
    <2>2. \A q \in Requests : q # r => pc'[q] = pc[q] /\ current_time'[q] = current_time[q]
      BY <2>1
    <2>3. pc'[r] = "sent"
      BY <2>1
    <2>4. EndedIn(k, O)' = {q \in Requests : pc'[q] \in O /\ window_start(current_time'[q]) = k}
      BY DEF EndedIn, Window, window_start
    <2>5. QED
      BY <2>1, <2>2, <2>3, <2>4 DEF EndedIn, Window
  <1>3. QED
    BY <1>1, <1>2 DEF Tick, vars

------------------------------------------------------------------------------
(***************************************************************************)
(* Type correctness                                                        *)
(***************************************************************************)
\* The transaction keeps every counter below the requests that have ended.
LEMMA CountsOneMore ==
  ASSUME TypeInv, NEW r \in Requests
  PROVE  /\ IncrResult(Window(r)) \in Nat
         /\ 0 < IncrResult(Window(r))
         /\ IncrResult(Window(r)) <= count[Window(r)] + 1
         /\ count[Window(r)] \in Nat
  <1>1. Window(r) \in Windows
    BY WindowType DEF TypeInv
  <1>2. count[Window(r)] \in Nat
    BY <1>1, LimiterAssumption, FS_CardinalityType DEF TypeInv, TypeOK
  <1>3. QED
    BY <1>2 DEF IncrResult

\* Types and counters, at the start.
LEMMA TypeInvInit == Init => TypeInv
  <1> SUFFICES ASSUME Init PROVE TypeInv
    OBVIOUS
  <1>1. Cardinality(Requests) \in Nat /\ MaxTime \in Nat /\ WindowSeconds \in Nat
    BY LimiterAssumption, FS_CardinalityType
  <1>2. TypeOK
    BY <1>1 DEF Init, TypeOK
  <1>3. CountersBounded
    BY EndedInFinite DEF Init, CountersBounded
  <1>4. QED
    BY <1>2, <1>3 DEF TypeInv

\* One request ends and its transaction runs: Decide and ReplyLost.
LEMMA TypeInvCounted ==
  ASSUME TypeInv, NEW r \in Requests, NEW label \in Outcomes,
         pc[r] = "sent", IncrAndExpire(Window(r)), Goto(r, label),
         UNCHANGED <<now, current_time>>
  PROVE  TypeInv'
  <1> DEFINE w == Window(r)
  <1>1. w \in Windows /\ TypeOK /\ CountersBounded
    BY WindowType DEF TypeInv
  <1>2. /\ count' = [count EXCEPT ![w] = IncrResult(w)]
        /\ expires_at' = [expires_at EXCEPT ![w] = now + 2 * WindowSeconds]
        /\ pc' = [pc EXCEPT ![r] = label]
    BY DEF IncrAndExpire, Goto
  <1>3. /\ IncrResult(w) \in Nat
        /\ IncrResult(w) <= count[w] + 1
        /\ count[w] \in Nat
    BY CountsOneMore
  <1> HIDE DEF w
  <1>4. CountersBounded'
    <2> SUFFICES ASSUME NEW k \in Windows
                 PROVE  count'[k] <= Cardinality(EndedIn(k, Outcomes)')
      BY DEF CountersBounded, Windows, window_start, Outcomes
    <2>1. count \in [Windows -> 0 .. Cardinality(Requests)]
      BY <1>1 DEF TypeOK
    <2>2. count[k] <= Cardinality(EndedIn(k, Outcomes))
      BY <1>1 DEF CountersBounded
    <2>3. Cardinality(EndedIn(k, Outcomes)) \in Nat
      BY EndedInFinite
    <2>4. "sent" \notin Outcomes
      BY DEF Outcomes
    <2>5. CASE k = w
      <3>1. Cardinality(EndedIn(k, Outcomes)') = Cardinality(EndedIn(k, Outcomes)) + 1
        BY <1>1, <2>4, <2>5, EndedInJoins DEF w
      <3>2. count'[k] = IncrResult(w)
        BY <1>1, <1>2, <2>1, <2>5
      <3>3. QED
        BY <1>3, <2>2, <2>3, <2>5, <3>1, <3>2
    <2>6. CASE k # w
      <3>1. EndedIn(k, Outcomes)' = EndedIn(k, Outcomes)
        BY <1>1, <2>4, <2>6, EndedInJoins DEF w
      <3>2. count'[k] = count[k]
        BY <1>2, <2>1, <2>6
      <3>3. QED
        BY <2>2, <3>1, <3>2
    <2>7. QED
      BY <2>5, <2>6
  <1>5. TypeOK'
    <2>1. ASSUME NEW k \in Windows, k = w
          PROVE  IncrResult(w) <= Cardinality(Requests)
      <3>1. count'[k] = IncrResult(w)
        BY <1>1, <1>2, <2>1 DEF TypeOK
      <3>2. count'[k] <= Cardinality(EndedIn(k, Outcomes)')
        BY <1>4 DEF CountersBounded, Windows, window_start, Outcomes
      <3>3. EndedIn(k, Outcomes)' \in SUBSET Requests
        BY DEF EndedIn
      <3>4. /\ Cardinality(EndedIn(k, Outcomes)') \in Nat
            /\ Cardinality(EndedIn(k, Outcomes)') <= Cardinality(Requests)
            /\ Cardinality(Requests) \in Nat
        BY <3>3, LimiterAssumption, FS_Subset, FS_CardinalityType
      <3>5. QED
        BY <1>3, <3>1, <3>2, <3>4
    <2>2. now + 2 * WindowSeconds \in 0 .. MaxTime + 2 * WindowSeconds
      BY <1>1, LimiterAssumption DEF TypeOK
    <2>3. Cardinality(Requests) \in Nat
      BY LimiterAssumption, FS_CardinalityType
    <2>4. count' \in [Windows -> 0 .. Cardinality(Requests)]
      BY <1>1, <1>2, <1>3, <2>1, <2>3 DEF TypeOK
    <2>5. expires_at' \in [Windows -> 0 .. MaxTime + 2 * WindowSeconds]
      BY <1>1, <1>2, <2>2 DEF TypeOK
    <2>6. pc' \in [Requests -> {"new", "sent", "allowed", "denied", "failed_open"}]
      BY <1>1, <1>2 DEF TypeOK, Outcomes
    <2>7. QED
      BY <1>1, <2>4, <2>5, <2>6 DEF TypeOK, Windows, window_start
  <1>6. QED
    BY <1>4, <1>5 DEF TypeInv

\* Every step keeps them.
LEMMA TypeInvStep == TypeInv /\ [Next]_vars => TypeInv'
  <1> SUFFICES ASSUME TypeInv, [Next]_vars PROVE TypeInv'
    OBVIOUS
  <1>0. TypeOK /\ CountersBounded /\ "new" \notin Outcomes /\ "sent" \notin Outcomes
    BY DEF TypeInv, Outcomes
  <1>1. ASSUME UNCHANGED count,
               \A k \in Windows : Cardinality(EndedIn(k, Outcomes)) <= Cardinality(EndedIn(k, Outcomes)')
        PROVE  CountersBounded'
    <2> SUFFICES ASSUME NEW k \in Windows
                 PROVE  count'[k] <= Cardinality(EndedIn(k, Outcomes)')
      BY DEF CountersBounded, Windows, window_start, Outcomes
    <2>1. count[k] <= Cardinality(EndedIn(k, Outcomes)) /\ count[k] \in Nat
      BY <1>0, LimiterAssumption, FS_CardinalityType DEF CountersBounded, TypeOK
    <2>2. EndedIn(k, Outcomes)' \in SUBSET Requests
      BY DEF EndedIn
    <2>3. Cardinality(EndedIn(k, Outcomes)) \in Nat /\ Cardinality(EndedIn(k, Outcomes)') \in Nat
      BY <2>2, EndedInFinite, LimiterAssumption, FS_Subset, FS_CardinalityType
    <2>4. QED
      BY <1>1, <2>1, <2>3
  <1>2. ASSUME NEW r \in Requests, ReadClock(r) PROVE TypeInv'
    <2>1. TypeOK'
      BY <1>0, <1>2 DEF TypeOK, ReadClock, Goto, Windows, window_start
    <2>2. \A k \in Windows : Cardinality(EndedIn(k, Outcomes)) <= Cardinality(EndedIn(k, Outcomes)')
      BY <1>0, <1>2, EndedInStays, EndedInFinite
    <2>3. QED
      BY <1>1, <1>2, <2>1, <2>2 DEF TypeInv, ReadClock
  <1>3. ASSUME NEW r \in Requests, Decide(r) PROVE TypeInv'
    <2> DEFINE label == IF IncrResult(Window(r)) > Limit THEN "denied" ELSE "allowed"
    <2>1. label \in Outcomes
      BY DEF Outcomes
    <2>2. QED
      BY <1>3, <2>1, TypeInvCounted DEF Decide
  <1>4. ASSUME NEW r \in Requests, RedisDown(r) PROVE TypeInv'
    <2>1. TypeOK'
      BY <1>0, <1>4 DEF TypeOK, RedisDown, FailOpen, Goto, Windows, window_start
    <2>2. \A k \in Windows : Cardinality(EndedIn(k, Outcomes)) <= Cardinality(EndedIn(k, Outcomes)')
      <3> TAKE k \in Windows
      <3> DEFINE label == "failed_open"
      <3>1. pc[r] = "sent" /\ Goto(r, label) /\ UNCHANGED current_time
        BY <1>4 DEF RedisDown, FailOpen
      <3> HIDE DEF label
      <3>2. CASE label \in Outcomes /\ k = Window(r)
        <4>1. Cardinality(EndedIn(k, Outcomes)') = Cardinality(EndedIn(k, Outcomes)) + 1
          BY <1>0, <3>1, <3>2, EndedInJoins
        <4>2. QED
          BY <4>1, EndedInFinite
      <3>3. CASE ~(label \in Outcomes /\ k = Window(r))
        <4>1. EndedIn(k, Outcomes)' = EndedIn(k, Outcomes)
          BY <1>0, <3>1, <3>3, EndedInJoins
        <4>2. QED
          BY <4>1, EndedInFinite
      <3>4. QED
        BY <3>2, <3>3
    <2>3. QED
      BY <1>1, <1>4, <2>1, <2>2 DEF TypeInv, RedisDown
  <1>5. ASSUME NEW r \in Requests, ReplyLost(r) PROVE TypeInv'
    <2>1. "failed_open" \in Outcomes
      BY DEF Outcomes
    <2>2. QED
      BY <1>5, <2>1, TypeInvCounted DEF ReplyLost, FailOpen
  <1>6. ASSUME Tick \/ UNCHANGED vars PROVE TypeInv'
    <2>1. TypeOK'
      BY <1>0, <1>6, LimiterAssumption DEF TypeOK, Tick, vars, Windows, window_start
    <2>2. \A k \in Windows : Cardinality(EndedIn(k, Outcomes)) <= Cardinality(EndedIn(k, Outcomes)')
      BY <1>0, <1>6, EndedInStays, EndedInFinite
    <2>3. QED
      BY <1>1, <1>6, <2>1, <2>2 DEF TypeInv, Tick, vars
  <1>7. QED
    BY <1>2, <1>3, <1>4, <1>5, <1>6 DEF Next

\* Every state is well typed: above all, no counter runs past the number of
\* requests, whatever expires and whatever replies are lost.
THEOREM TypeCorrect == Spec => []TypeOK
  <1>1. TypeInv => TypeOK
    BY DEF TypeInv
  <1>2. QED
    BY <1>1, TypeInvInit, TypeInvStep, PTL DEF Spec

------------------------------------------------------------------------------
(***************************************************************************)
(* The quota.  A counter can only be trusted when no increment of its      *)
(* window comes after it has expired: that takes MaxDelay <= WindowSeconds *)
(* and an expiry of two windows.                                           *)
(***************************************************************************)
LEMMA QuotaInvInit == Init => QuotaInv
  <1> SUFFICES ASSUME Init PROVE QuotaInv
    OBVIOUS
  <1>1. TypeInv
    BY TypeInvInit
  <1>2. InFlightInTime /\ CountersOutliveWindow
    BY DEF Init, InFlightInTime, CountersOutliveWindow
  <1>3. \A k \in Windows : EndedIn(k, {"allowed"}) = {} /\ AllowedIn(k) = {}
    BY DEF Init, EndedIn, AllowedIn
  <1>4. AllowedCounted /\ WindowQuota
    BY <1>3, FS_EmptySet, LimiterAssumption DEF Init, AllowedCounted, WindowQuota
  <1>5. QED
    BY <1>1, <1>2, <1>4 DEF QuotaInv

\* An increment that comes in time finds the counter of its own window.
LEMMA IncrementInTime ==
  ASSUME MaxDelay <= WindowSeconds, QuotaInv, NEW r \in Requests, pc[r] = "sent"
  PROVE  /\ IncrResult(Window(r)) = count[Window(r)] + 1
         /\ Window(r) + 2 * WindowSeconds <= now + 2 * WindowSeconds
  <1> DEFINE w == Window(r)
  <1>1. /\ w \in Windows
        /\ w \in Nat
        /\ w <= current_time[r]
        /\ current_time[r] < w + WindowSeconds
    BY WindowType DEF QuotaInv, TypeInv
  <1>2. /\ now \in Nat
        /\ current_time[r] \in Nat
        /\ count[w] \in Nat
        /\ expires_at[w] \in Nat
        /\ MaxDelay \in Nat
        /\ WindowSeconds \in Nat
    <2>1. TypeOK
      BY DEF QuotaInv, TypeInv
    <2>2. MaxTime \in Nat /\ MaxDelay \in Nat /\ WindowSeconds \in Nat /\ Cardinality(Requests) \in Nat
      BY LimiterAssumption, FS_CardinalityType
    <2>3. now \in 0 .. MaxTime /\ current_time[r] \in 0 .. MaxTime
      BY <2>1 DEF TypeOK
    <2>4. count[w] \in 0 .. Cardinality(Requests)
      BY <1>1, <2>1 DEF TypeOK
    <2>5. expires_at[w] \in 0 .. MaxTime + 2 * WindowSeconds
      BY <1>1, <2>1 DEF TypeOK
    <2>6. QED
      BY <2>2, <2>3, <2>4, <2>5
  <1>3. /\ current_time[r] <= now
        /\ now <= current_time[r] + MaxDelay
    BY DEF QuotaInv, InFlightInTime
  <1>4. 0 < count[w] => w + 2 * WindowSeconds <= expires_at[w]
    BY <1>1 DEF QuotaInv, CountersOutliveWindow
  <1> HIDE DEF w
  <1>5. 0 < count[w] => now < expires_at[w]
    BY <1>1, <1>2, <1>3, <1>4
  <1>6. IncrResult(w) = count[w] + 1
    BY <1>2, <1>5 DEF IncrResult
  <1>7. w + 2 * WindowSeconds <= now + 2 * WindowSeconds
    BY <1>1, <1>2, <1>3
  <1>8. QED
    BY <1>6, <1>7 DEF w

\* One request ends and is counted; it is allowed only below the limit.
LEMMA QuotaInvCounted ==
  ASSUME MaxDelay <= WindowSeconds, QuotaInv, NEW r \in Requests, NEW label \in Outcomes,
         pc[r] = "sent", IncrAndExpire(Window(r)), Goto(r, label),
         label = "allowed" => IncrResult(Window(r)) <= Limit,
         UNCHANGED <<now, current_time>>
  PROVE  QuotaInv'
  <1> DEFINE w == Window(r)
  <1>1. w \in Windows /\ TypeInv /\ TypeOK
    BY WindowType DEF QuotaInv, TypeInv
  <1>2. /\ count' = [count EXCEPT ![w] = IncrResult(w)]
        /\ expires_at' = [expires_at EXCEPT ![w] = now + 2 * WindowSeconds]
        /\ pc' = [pc EXCEPT ![r] = label]
    BY DEF IncrAndExpire, Goto
  <1>3. /\ IncrResult(w) = count[w] + 1
        /\ w + 2 * WindowSeconds <= now + 2 * WindowSeconds
    BY IncrementInTime
  <1>4. label = "allowed" => IncrResult(w) <= Limit
    OBVIOUS
  <1>5. /\ count \in [Windows -> Nat]
        /\ expires_at \in [Windows -> Nat]
        /\ Limit \in Nat
    BY <1>1, LimiterAssumption, FS_CardinalityType DEF TypeOK
  <1>6. TypeInv'
    BY <1>1, TypeInvCounted
  <1>7. InFlightInTime'
    BY <1>1, <1>2 DEF QuotaInv, InFlightInTime, TypeOK, Outcomes
  <1>8. \A k \in Windows :
           /\ count'[k] = IF k = w THEN count[k] + 1 ELSE count[k]
           /\ k # w => expires_at'[k] = expires_at[k]
           /\ k = w => expires_at'[k] = now + 2 * WindowSeconds
    <2> HIDE DEF w
    <2> QED
      BY <1>1, <1>2, <1>3, <1>5
  <1>9. CountersOutliveWindow'
    <2> SUFFICES ASSUME NEW k \in Windows, 0 < count'[k]
                 PROVE  k + 2 * WindowSeconds <= expires_at'[k]
      BY DEF CountersOutliveWindow, Windows, window_start
    <2>1. 0 < count[k] => k + 2 * WindowSeconds <= expires_at[k]
      BY DEF QuotaInv, CountersOutliveWindow
    <2>2. QED
      BY <1>3, <1>5, <1>8, <2>1
  <1>10. ASSUME NEW k \in Windows
         PROVE  /\ Cardinality(EndedIn(k, {"allowed"})') <= count'[k]
                /\ Cardinality(AllowedIn(k)') <= Limit
    <2> DEFINE O == {"allowed"}
    <2>1. AllowedIn(k)' = EndedIn(k, O)' /\ AllowedIn(k) = EndedIn(k, O)
      BY DEF AllowedIn, EndedIn
    <2>2. /\ Cardinality(EndedIn(k, O)) <= count[k]
          /\ Cardinality(EndedIn(k, O)) <= Limit
      BY <2>1 DEF QuotaInv, AllowedCounted, WindowQuota
    <2>3. Cardinality(EndedIn(k, O)) \in Nat /\ count[k] \in Nat
      BY <1>5, EndedInFinite
    <2>4. "sent" \notin O
      OBVIOUS
    <2>5. CASE label \in O /\ k = w
      <3>1. Cardinality(EndedIn(k, O)') = Cardinality(EndedIn(k, O)) + 1
        BY <1>1, <2>4, <2>5, EndedInJoins
      <3>2. count[k] + 1 <= Limit /\ count'[k] = count[k] + 1
        BY <1>3, <1>4, <1>8, <2>5
      <3>3. QED
        BY <1>5, <2>1, <2>2, <2>3, <3>1, <3>2
    <2>6. CASE ~(label \in O /\ k = w)
      <3>1. EndedIn(k, O)' = EndedIn(k, O)
        <4>1. ~(label \in O /\ k = Window(r))
          BY <2>6
        <4> HIDE DEF O, w
        <4>2. QED
          BY <1>1, <2>4, <4>1, EndedInJoins
      <3>2. count'[k] >= count[k]
        BY <1>8, <2>3
      <3>3. count'[k] \in Nat
        BY <1>8, <2>3
      <3>4. QED
        BY <1>5, <2>1, <2>2, <2>3, <3>1, <3>2, <3>3
    <2>7. QED
      BY <2>5, <2>6
  <1>11. AllowedCounted' /\ WindowQuota'
    BY <1>10 DEF AllowedCounted, WindowQuota, Windows, window_start
  <1>12. QED
    BY <1>6, <1>7, <1>9, <1>11 DEF QuotaInv

\* Steps that leave every counter and everyone allowed where they are.
LEMMA QuotaInvUncounted ==
  ASSUME QuotaInv, TypeInv', InFlightInTime', UNCHANGED <<count, expires_at>>,
         \A k \in Windows : EndedIn(k, {"allowed"})' = EndedIn(k, {"allowed"})
  PROVE  QuotaInv'
  <1>1. CountersOutliveWindow'
    BY DEF QuotaInv, CountersOutliveWindow, Windows, window_start
  <1>2. ASSUME NEW k \in Windows
        PROVE  /\ Cardinality(EndedIn(k, {"allowed"})') <= count'[k]
               /\ Cardinality(AllowedIn(k)') <= Limit
    <2>1. AllowedIn(k)' = AllowedIn(k)
      BY DEF AllowedIn, EndedIn
    <2>2. QED
      BY <2>1 DEF QuotaInv, AllowedCounted, WindowQuota
  <1>3. AllowedCounted' /\ WindowQuota'
    BY <1>2 DEF AllowedCounted, WindowQuota, Windows, window_start
  <1>4. QED
    BY <1>1, <1>3 DEF QuotaInv

\* Every step keeps the quota: no counter of a window still in use expires.
LEMMA QuotaInvStep ==
  ASSUME MaxDelay <= WindowSeconds, QuotaInv, [Next]_vars
  PROVE  QuotaInv'
  <1>0. /\ TypeInv /\ TypeOK /\ InFlightInTime
        /\ TypeInv'
    BY TypeInvStep DEF QuotaInv, TypeInv
  <1> DEFINE O == {"allowed"}
  <1>1. ASSUME NEW r \in Requests, ReadClock(r) PROVE QuotaInv'
    <2>1. \A k \in Windows : EndedIn(k, O)' = EndedIn(k, O)
      BY <1>0, <1>1, EndedInStays
    <2>2. /\ pc' = [pc EXCEPT ![r] = "sent"]
          /\ current_time' = [current_time EXCEPT ![r] = now]
          /\ now' = now
          /\ now \in Nat /\ MaxDelay \in Nat
      BY <1>0, <1>1, LimiterAssumption DEF ReadClock, Goto, TypeOK
    <2>3. InFlightInTime'
      <3> SUFFICES ASSUME NEW q \in Requests, pc'[q] = "sent"
                   PROVE  current_time'[q] <= now /\ now <= current_time'[q] + MaxDelay
        BY <2>2 DEF InFlightInTime
      <3>1. CASE q = r
        <4>1. current_time'[q] = now
          BY <1>0, <2>2, <3>1 DEF TypeOK
        <4>2. QED
          BY <2>2, <4>1
      <3>2. CASE q # r
        BY <1>0, <2>2, <3>2 DEF InFlightInTime, TypeOK
      <3>3. QED
        BY <3>1, <3>2
    <2>4. QED
      BY <1>0, <1>1, <2>1, <2>3, QuotaInvUncounted DEF ReadClock
  <1>2. ASSUME NEW r \in Requests, Decide(r) PROVE QuotaInv'
    <2> DEFINE label == IF IncrResult(Window(r)) > Limit THEN "denied" ELSE "allowed"
    <2>1. label \in Outcomes
      BY DEF Outcomes
    <2>2. label = "allowed" => IncrResult(Window(r)) <= Limit
      BY <1>0, CountsOneMore, LimiterAssumption
    <2>3. QED
      BY <1>2, <2>1, <2>2, QuotaInvCounted DEF Decide
  <1>3. ASSUME NEW r \in Requests, RedisDown(r) PROVE QuotaInv'
    <2> DEFINE label == "failed_open"
    <2>1. /\ pc[r] = "sent" /\ Goto(r, label)
          /\ UNCHANGED current_time /\ now' = now
      BY <1>3 DEF RedisDown, FailOpen
    <2>2. \A k \in Windows : EndedIn(k, O)' = EndedIn(k, O)
      <3> TAKE k \in Windows
      <3>1. "sent" \notin O /\ ~(label \in O /\ k = Window(r))
        OBVIOUS
      <3> HIDE DEF label, O
      <3>2. QED
        BY <1>0, <2>1, <3>1, EndedInJoins
    <2>3. InFlightInTime'
      BY <1>0, <2>1 DEF InFlightInTime, Goto, TypeOK
    <2>4. QED
      BY <1>0, <1>3, <2>2, <2>3, QuotaInvUncounted DEF RedisDown
  <1>4. ASSUME NEW r \in Requests, ReplyLost(r) PROVE QuotaInv'
    <2> DEFINE label == "failed_open"
    <2>1. label \in Outcomes /\ label # "allowed"
      BY DEF Outcomes
    <2>2. /\ pc[r] = "sent" /\ IncrAndExpire(Window(r)) /\ Goto(r, label)
          /\ UNCHANGED <<now, current_time>>
      BY <1>4 DEF ReplyLost, FailOpen
    <2> HIDE DEF label
    <2>3. QED
      BY <2>1, <2>2, QuotaInvCounted
  <1>5. CASE Tick
    <2>1. \A k \in Windows : EndedIn(k, O)' = EndedIn(k, O)
      BY <1>0, <1>5, EndedInStays
    <2>2. InFlightInTime'
      <3> SUFFICES ASSUME NEW q \in Requests, pc[q] = "sent"
                   PROVE  current_time[q] <= now + 1 /\ now + 1 <= current_time[q] + MaxDelay
        BY <1>5 DEF InFlightInTime, Tick
      <3>1. /\ now \in Nat /\ current_time[q] \in Nat /\ MaxDelay \in Nat
            /\ current_time[q] <= now
        BY <1>0, LimiterAssumption DEF TypeOK, InFlightInTime
      <3>2. now < current_time[q] + MaxDelay
        BY <1>5 DEF Tick
      <3>3. QED
        BY <3>1, <3>2
    <2>3. QED
      BY <1>0, <1>5, <2>1, <2>2, QuotaInvUncounted DEF Tick
  <1>6. CASE UNCHANGED vars
    <2>1. \A k \in Windows : EndedIn(k, O)' = EndedIn(k, O)
      BY <1>0, <1>6, EndedInStays
    <2>2. InFlightInTime'
      BY <1>0, <1>6 DEF InFlightInTime, vars
    <2>3. QED
      BY <1>0, <1>6, <2>1, <2>2, QuotaInvUncounted DEF vars
  <1>7. QED
    BY <1>1, <1>2, <1>3, <1>4, <1>5, <1>6 DEF Next

\* When no transaction is later than a window's length, no window lets more
\* than Limit requests through on Redis's word.
THEOREM QuotaKept ==
  ASSUME MaxDelay <= WindowSeconds
  PROVE  Spec => []WindowQuota
  <1>1. Init => QuotaInv
    BY QuotaInvInit
  <1>2. QuotaInv /\ [Next]_vars => QuotaInv'
    BY QuotaInvStep
  <1>3. QuotaInv => WindowQuota
    BY DEF QuotaInv
  <1>4. QED
    BY <1>1, <1>2, <1>3, PTL DEF Spec

------------------------------------------------------------------------------
(***************************************************************************)
(* Refusals.  However late an increment comes and whatever has expired, a  *)
(* counter stays below the limit until Limit requests were let through.    *)
(***************************************************************************)
LEMMA DenialInvInit == Init => DenialInv
  <1> SUFFICES ASSUME Init PROVE DenialInv
    OBVIOUS
  <1>1. \A k \in Windows : count[k] = 0
    BY DEF Init
  <1>2. RefusalsCountedLast
    BY <1>1, EndedInFinite DEF RefusalsCountedLast
  <1>3. QuotaUsedWhenDenied
    BY DEF Init, QuotaUsedWhenDenied
  <1>4. QED
    BY <1>2, <1>3, TypeInvInit DEF DenialInv

\* QuotaUsedWhenDenied counts the requests that were let through.
LEMMA DeniedMeans ==
  QuotaUsedWhenDenied <=>
      \A d \in Requests : pc[d] = "denied" =>
          Limit <= Cardinality(EndedIn(Window(d), LetThrough))
  <1>1. \A d \in Requests :
          {r \in Requests : Window(r) = Window(d) /\ pc[r] \in {"allowed", "failed_open"}}
            = EndedIn(Window(d), LetThrough)
    BY DEF EndedIn, LetThrough
  <1>2. QED
    BY <1>1 DEF QuotaUsedWhenDenied

\* As long as those let through stay let through, both facts are kept by a
\* step that counts at most one more of them and refuses nobody too early.
LEMMA DenialInvKept ==
  ASSUME DenialInv, TypeInv',
         \A k \in Windows : Cardinality(EndedIn(k, LetThrough))
                              <= Cardinality(EndedIn(k, LetThrough)'),
         \A k \in Windows : \/ count'[k] <= Cardinality(EndedIn(k, LetThrough)')
                            \/ Limit <= Cardinality(EndedIn(k, LetThrough)'),
         \A d \in Requests : pc'[d] = "denied" =>
             \/ pc[d] = "denied" /\ current_time'[d] = current_time[d]
             \/ \A k \in Windows : k = Window(d)' =>
                    Limit <= Cardinality(EndedIn(k, LetThrough)')
  PROVE  DenialInv'
  <1>1. RefusalsCountedLast'
    BY DEF RefusalsCountedLast, Windows, window_start, LetThrough
  <1>2. QuotaUsedWhenDenied'
    <2> SUFFICES ASSUME NEW d \in Requests, pc'[d] = "denied",
                        NEW k \in Windows, k = Window(d)'
                 PROVE  Limit <= Cardinality(EndedIn(k, LetThrough)')
      <3>1. TypeOK'
        BY DEF TypeInv
      <3>2. \A d \in Requests : Window(d)' \in Windows
        <4> TAKE d \in Requests
        <4>1. current_time'[d] \in 0 .. MaxTime /\ MaxTime \in Nat
          BY <3>1, LimiterAssumption DEF TypeOK
        <4>2. window_start(current_time'[d]) \in Windows
          BY <4>1, WindowArithmetic DEF Windows
        <4>3. QED
          BY <4>2 DEF Window, window_start
      <3>3. \A d \in Requests :
              {r \in Requests : Window(r) = Window(d) /\ pc[r] \in {"allowed", "failed_open"}}'
                = {r \in Requests : Window(r)' = Window(d)' /\ pc'[r] \in LetThrough}
        BY DEF LetThrough
      <3>4. \A k \in Windows : EndedIn(k, LetThrough)' =
                {r \in Requests : Window(r)' = k /\ pc'[r] \in LetThrough}
        BY DEF EndedIn, LetThrough
      <3>5. QED
        BY <3>2, <3>3, <3>4 DEF QuotaUsedWhenDenied
    <2>1. CASE pc[d] = "denied" /\ current_time'[d] = current_time[d]
      <3>1. k = Window(d)
        BY <2>1 DEF Window, window_start
      <3>2. Limit <= Cardinality(EndedIn(k, LetThrough))
        BY <2>1, <3>1, DeniedMeans DEF DenialInv
      <3>3. EndedIn(k, LetThrough)' \in SUBSET Requests
        BY DEF EndedIn
      <3>4. /\ Cardinality(EndedIn(k, LetThrough)') \in Nat
            /\ Cardinality(EndedIn(k, LetThrough)) \in Nat
            /\ Limit \in Nat
        BY <3>3, EndedInFinite, LimiterAssumption, FS_Subset, FS_CardinalityType
      <3>5. QED
        BY <3>2, <3>4
    <2>2. CASE ~(pc[d] = "denied" /\ current_time'[d] = current_time[d])
      BY <2>2
    <2>3. QED
      BY <2>1, <2>2
  <1>3. QED
    BY <1>1, <1>2 DEF DenialInv

\* One request ends and is counted; it is refused only above the limit.
LEMMA DenialInvCounted ==
  ASSUME DenialInv, NEW r \in Requests, NEW label \in Outcomes,
         pc[r] = "sent", IncrAndExpire(Window(r)), Goto(r, label),
         label = "denied" => Limit < IncrResult(Window(r)),
         UNCHANGED <<now, current_time>>
  PROVE  DenialInv'
  <1> DEFINE w == Window(r)
             O == LetThrough
  <1>1. w \in Windows /\ TypeInv /\ TypeOK
    BY WindowType DEF DenialInv, TypeInv
  <1>2. count' = [count EXCEPT ![w] = IncrResult(w)] /\ pc' = [pc EXCEPT ![r] = label]
    BY DEF IncrAndExpire, Goto
  <1>3. /\ IncrResult(w) \in Nat
        /\ 0 < IncrResult(w)
        /\ IncrResult(w) <= count[w] + 1
        /\ count[w] \in Nat
    BY <1>1, CountsOneMore
  <1>4. count \in [Windows -> Nat] /\ Limit \in Nat \ {0}
    BY <1>1, LimiterAssumption, FS_CardinalityType DEF TypeOK
  <1>5. "sent" \notin O
    BY DEF LetThrough
  <1>6. \A k \in Windows : count'[k] = IF k = w THEN IncrResult(w) ELSE count[k]
    <2> HIDE DEF w
    <2> QED
      BY <1>2, <1>4
  <1>7. label = "denied" => label \notin O
    BY DEF LetThrough
  <1>8. label # "denied" => label \in O
    BY DEF LetThrough, Outcomes
  <1>9. ASSUME NEW k \in Windows
        PROVE  /\ label \in O /\ k = w =>
                    Cardinality(EndedIn(k, O)') = Cardinality(EndedIn(k, O)) + 1
               /\ ~(label \in O /\ k = w) => EndedIn(k, O)' = EndedIn(k, O)
    <2> HIDE DEF O
    <2> QED
      BY <1>1, <1>5, EndedInJoins
  <1>10. ASSUME NEW k \in Windows
         PROVE  /\ Cardinality(EndedIn(k, O)) <= Cardinality(EndedIn(k, O)')
                /\ \/ count'[k] <= Cardinality(EndedIn(k, O)')
                   \/ Limit <= Cardinality(EndedIn(k, O)')
                /\ label = "denied" /\ k = w => Limit <= Cardinality(EndedIn(k, O)')
    <2>1. \/ count[k] <= Cardinality(EndedIn(k, O))
          \/ Limit <= Cardinality(EndedIn(k, O))
      BY DEF DenialInv, RefusalsCountedLast
    <2>2. Cardinality(EndedIn(k, O)) \in Nat /\ count[k] \in Nat
      BY <1>4, EndedInFinite
    <2>3. label = "denied" => Limit < IncrResult(w)
      OBVIOUS
    <2> HIDE DEF O, w
    <2>4. CASE label \in O /\ k = w
      BY <1>3, <1>4, <1>6, <1>7, <1>9, <2>1, <2>2, <2>4
    <2>5. CASE label \notin O /\ k = w
      <3>1. EndedIn(k, O)' = EndedIn(k, O) /\ Limit < IncrResult(w)
        BY <1>8, <1>9, <2>3, <2>5
      <3>2. Limit <= Cardinality(EndedIn(k, O))
        BY <1>3, <1>4, <2>1, <2>2, <2>5, <3>1
      <3>3. QED
        BY <2>2, <3>1, <3>2
    <2>6. CASE k # w
      BY <1>6, <1>9, <2>1, <2>2, <2>6
    <2>7. QED
      BY <2>4, <2>5, <2>6
  <1>11. \A d \in Requests : pc'[d] = "denied" =>
             \/ pc[d] = "denied" /\ current_time'[d] = current_time[d]
             \/ \A k \in Windows : k = Window(d)' => Limit <= Cardinality(EndedIn(k, O)')
    <2> SUFFICES ASSUME NEW d \in Requests, pc'[d] = "denied", pc[d] # "denied",
                        NEW k \in Windows, k = Window(d)'
                 PROVE  Limit <= Cardinality(EndedIn(k, O)')
      OBVIOUS
    <2>1. d = r /\ label = "denied"
      BY <1>1, <1>2 DEF TypeOK
    <2>2. k = w
      BY <2>1 DEF Window, window_start
    <2>3. QED
      BY <1>10, <2>1, <2>2
  <1>12. TypeInv'
    BY <1>1, TypeInvCounted
  <1>13. QED
    BY <1>10, <1>11, <1>12, DenialInvKept

\* Steps that count nothing and refuse nobody.
LEMMA DenialInvUncounted ==
  ASSUME DenialInv, TypeInv', UNCHANGED count,
         \A k \in Windows :
             \/ EndedIn(k, LetThrough)' = EndedIn(k, LetThrough)
             \/ Cardinality(EndedIn(k, LetThrough)') = Cardinality(EndedIn(k, LetThrough)) + 1,
         \A d \in Requests : pc'[d] = "denied" =>
             pc[d] = "denied" /\ current_time'[d] = current_time[d]
  PROVE  DenialInv'
  <1>1. ASSUME NEW k \in Windows
        PROVE  /\ Cardinality(EndedIn(k, LetThrough)) <= Cardinality(EndedIn(k, LetThrough)')
               /\ \/ count'[k] <= Cardinality(EndedIn(k, LetThrough)')
                  \/ Limit <= Cardinality(EndedIn(k, LetThrough)')
    <2>1. count[k] \in Nat /\ Limit \in Nat /\ Cardinality(EndedIn(k, LetThrough)) \in Nat
      BY EndedInFinite, LimiterAssumption, FS_CardinalityType DEF DenialInv, TypeInv, TypeOK
    <2>2. \/ count[k] <= Cardinality(EndedIn(k, LetThrough))
          \/ Limit <= Cardinality(EndedIn(k, LetThrough))
      BY DEF DenialInv, RefusalsCountedLast
    <2>3. QED
      BY <2>1, <2>2
  <1>2. QED
    BY <1>1, DenialInvKept

\* Every step keeps refusals behind the quota.
LEMMA DenialInvStep == DenialInv /\ [Next]_vars => DenialInv'
  <1> SUFFICES ASSUME DenialInv, [Next]_vars PROVE DenialInv'
    OBVIOUS
  <1>0. TypeInv /\ TypeOK /\ TypeInv'
    BY TypeInvStep DEF DenialInv, TypeInv
  <1> DEFINE O == LetThrough
  <1>1. "new" \notin O /\ "sent" \notin O
    BY DEF LetThrough
  <1> HIDE DEF O
  <1>2. ASSUME NEW r \in Requests, ReadClock(r) PROVE DenialInv'
    <2>1. \A k \in Windows : EndedIn(k, O)' = EndedIn(k, O)
      BY <1>0, <1>1, <1>2, EndedInStays
    <2>2. \A d \in Requests : pc'[d] = "denied" =>
             pc[d] = "denied" /\ current_time'[d] = current_time[d]
      BY <1>0, <1>2 DEF ReadClock, Goto, TypeOK
    <2>3. QED
      BY <1>0, <1>2, <2>1, <2>2, DenialInvUncounted DEF ReadClock, O
  <1>3. ASSUME NEW r \in Requests, Decide(r) PROVE DenialInv'
    <2> DEFINE label == IF IncrResult(Window(r)) > Limit THEN "denied" ELSE "allowed"
    <2>1. label \in Outcomes
      BY DEF Outcomes
    <2>2. label = "denied" => Limit < IncrResult(Window(r))
      BY <1>0, CountsOneMore, LimiterAssumption
    <2>3. QED
      BY <1>3, <2>1, <2>2, DenialInvCounted DEF Decide
  <1>4. ASSUME NEW r \in Requests, RedisDown(r) PROVE DenialInv'
    <2> DEFINE label == "failed_open"
    <2>1. /\ pc[r] = "sent" /\ Goto(r, label)
          /\ UNCHANGED current_time
      BY <1>4 DEF RedisDown, FailOpen
    <2>2. \A d \in Requests : pc'[d] = "denied" =>
             pc[d] = "denied" /\ current_time'[d] = current_time[d]
      BY <1>0, <2>1 DEF Goto, TypeOK
    <2> HIDE DEF label
    <2>3. \A k \in Windows :
             \/ EndedIn(k, O)' = EndedIn(k, O)
             \/ Cardinality(EndedIn(k, O)') = Cardinality(EndedIn(k, O)) + 1
      <3> TAKE k \in Windows
      <3>1. CASE label \in O /\ k = Window(r)
        BY <1>0, <1>1, <2>1, <3>1, EndedInJoins
      <3>2. CASE ~(label \in O /\ k = Window(r))
        BY <1>0, <1>1, <2>1, <3>2, EndedInJoins
      <3>3. QED
        BY <3>1, <3>2
    <2>4. QED
      BY <1>0, <1>4, <2>2, <2>3, DenialInvUncounted DEF RedisDown, O
  <1>5. ASSUME NEW r \in Requests, ReplyLost(r) PROVE DenialInv'
    <2> DEFINE label == "failed_open"
    <2>1. label \in Outcomes /\ label # "denied"
      BY DEF Outcomes
    <2>2. /\ pc[r] = "sent" /\ IncrAndExpire(Window(r)) /\ Goto(r, label)
          /\ UNCHANGED <<now, current_time>>
      BY <1>5 DEF ReplyLost, FailOpen
    <2> HIDE DEF label
    <2>3. QED
      BY <2>1, <2>2, DenialInvCounted
  <1>6. CASE Tick \/ UNCHANGED vars
    <2>1. \A k \in Windows : EndedIn(k, O)' = EndedIn(k, O)
      BY <1>0, <1>1, <1>6, EndedInStays
    <2>2. UNCHANGED <<pc, current_time, count>>
      BY <1>6 DEF Tick, vars
    <2>3. QED
      BY <1>0, <2>1, <2>2, DenialInvUncounted DEF O
  <1>7. QED
    BY <1>2, <1>3, <1>4, <1>5, <1>6 DEF Next

\* Whatever the delays, lost replies and expiries, nobody is refused before
\* the window's quota was really given away.
THEOREM NoEarlyRefusal == Spec => []QuotaUsedWhenDenied
  <1>1. DenialInv => QuotaUsedWhenDenied
    BY DEF DenialInv
  <1>2. QED
    BY <1>1, DenialInvInit, DenialInvStep, PTL DEF Spec
==============================================================================
