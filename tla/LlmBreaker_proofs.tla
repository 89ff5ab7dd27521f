------------------------- MODULE LlmBreaker_proofs -------------------------
(***************************************************************************)
(* Proofs about the circuit breaker, for every set of requests, threshold, *)
(* timeout and retry policy that the assumptions of LlmBreaker allow.      *)
(***************************************************************************)
EXTENDS LlmBreakerHistory, FiniteSetTheorems, TLAPS

\* The half-open state is a counter one short of the threshold after a full
\* uninterrupted streak; it is only ever entered by letting a call through.
HalfOpenHasProbes ==
    counted = FailureThreshold /\ failures = FailureThreshold - 1 => probes # {}

\* The inductive invariant.
BreakerInv ==
    /\ HistoryTypeOK
    /\ CountsConsecutiveFailures
    /\ ClockFollowsLastFailure
    /\ HalfOpenHasProbes

----------------------------------------------------------------------------
(* Facts about the operators.                                              *)

\* The waits computed by tenacity's formula are natural numbers.
LEMMA BackoffNat == \A n \in 1 .. MaxAttempts : Backoff(n) \in Nat
<1> SUFFICES ASSUME NEW n \in 1 .. MaxAttempts PROVE Backoff(n) \in Nat
    OBVIOUS
<1>1. 2 ^ (n - 1) \in Int
    BY AttemptsAssumption
<1>2. Multiplier * 2 ^ (n - 1) \in Int
    BY <1>1, WaitAssumption
<1> QED
    BY <1>2, WaitAssumption DEF Backoff

\* A failed attempt leaves the request well-typed, retried or given up.
LEMMA RetryTyped ==
    ASSUME TypeOK, NEW r \in Requests, NEW how \in Results, RetryOrGiveUp(r, how)
    PROVE  /\ pc'      \in [Requests -> {"idle", "ready", "calling"}]
           /\ attempt' \in [Requests -> 1 .. MaxAttempts]
           /\ wait'    \in [Requests -> Nat]
           /\ result'  \in [Requests -> Results]
<1>1. attempt[r] \in 1 .. MaxAttempts
    BY DEF TypeOK
<1>2. Backoff(attempt[r]) \in Nat
    BY <1>1, BackoffNat
<1>3. attempt[r] < MaxAttempts => attempt[r] + 1 \in 1 .. MaxAttempts
    BY <1>1, AttemptsAssumption
<1> QED
    BY <1>2, <1>3 DEF TypeOK, RetryOrGiveUp

----------------------------------------------------------------------------
(* Type correctness.                                                       *)

\* A closed breaker and idle requests are well-typed.
LEMMA InitTyped == HInit => HistoryTypeOK
  BY ThresholdAssumption, TimeoutAssumption, AttemptsAssumption
     DEF HInit, Init, HistoryTypeOK, TypeOK, Results

\* Each step of a call and each second keeps every variable in its type.
LEMMA StepTyped == HistoryTypeOK /\ [HNext]_allVars => HistoryTypeOK'
<1> SUFFICES ASSUME HistoryTypeOK, [HNext]_allVars PROVE HistoryTypeOK'
    OBVIOUS
<1> USE ThresholdAssumption, TimeoutAssumption, AttemptsAssumption
<1>0. TypeOK
    BY DEF HistoryTypeOK
<1>1. ASSUME NEW r \in Requests, HStart(r) PROVE HistoryTypeOK'
    BY <1>1 DEF HistoryTypeOK, TypeOK, HStart, StartRequest, historyVars,
                breakerVars, Results
<1>2. ASSUME NEW r \in Requests, HReject(r) PROVE HistoryTypeOK'
  <2>1. RetryOrGiveUp(r, "rejected") /\ UNCHANGED <<failures, age>>
      BY <1>2 DEF HReject, Reject, breakerVars
  <2> QED
      BY <1>0, <1>2, <2>1, RetryTyped
         DEF HistoryTypeOK, TypeOK, HReject, historyVars, Results
<1>3. ASSUME NEW r \in Requests, HLaunch(r) PROVE HistoryTypeOK'
    BY <1>3 DEF HistoryTypeOK, TypeOK, HLaunch, Launch, PassBreaker
<1>4. ASSUME NEW r \in Requests, HSucceed(r) PROVE HistoryTypeOK'
    BY <1>4 DEF HistoryTypeOK, TypeOK, HSucceed, CallSucceeds, RecordSuccess, Results
<1>5. ASSUME NEW r \in Requests, HFail(r) PROVE HistoryTypeOK'
  <2>1. RetryOrGiveUp(r, "llm_error") /\ CountFailure(failures)
      BY <1>5 DEF HFail, CallFails, RecordFailure
  <2>2. failures' \in Nat /\ age' \in 0 .. RecoveryTimeout + 1
      BY <2>1 DEF HistoryTypeOK, TypeOK, CountFailure
  <2>3. /\ streak' \in 0 .. FailureThreshold
        /\ counted' \in 0 .. FailureThreshold
        /\ quiet' \in 0 .. RecoveryTimeout + 1
        /\ probes' \subseteq Requests
      BY <1>5 DEF HistoryTypeOK, HFail, UpToThreshold
  <2> QED
      BY <1>0, <2>1, <2>2, <2>3, RetryTyped DEF HistoryTypeOK, TypeOK, Results
<1>6. ASSUME NEW r \in Requests, HMalformed(r) PROVE HistoryTypeOK'
  <2>1. RetryOrGiveUp(r, "llm_error") /\ CountFailure(0)
      BY <1>6 DEF HMalformed, CallMalformed
  <2>2. failures' \in Nat /\ age' \in 0 .. RecoveryTimeout + 1
      BY <2>1 DEF HistoryTypeOK, TypeOK, CountFailure
  <2>3. /\ streak' \in 0 .. FailureThreshold
        /\ counted' \in 0 .. FailureThreshold
        /\ quiet' \in 0 .. RecoveryTimeout + 1
        /\ probes' \subseteq Requests
      BY <1>6 DEF HistoryTypeOK, HMalformed, UpToThreshold
  <2> QED
      BY <1>0, <2>1, <2>2, <2>3, RetryTyped DEF HistoryTypeOK, TypeOK, Results
<1>7. ASSUME HTick PROVE HistoryTypeOK'
    BY <1>7 DEF HistoryTypeOK, TypeOK, HTick, Tick, Elapsed
<1>8. CASE UNCHANGED allVars
    BY <1>8 DEF HistoryTypeOK, TypeOK, allVars
<1> QED
    BY <1>1, <1>2, <1>3, <1>4, <1>5, <1>6, <1>7, <1>8
       DEF HNext, HTry, HComplete

\* Every variable of the breaker and of the calls keeps its type.
THEOREM TypeCorrect == HSpec => []HistoryTypeOK
<1>1. HInit => HistoryTypeOK
    BY InitTyped
<1>2. HistoryTypeOK /\ [HNext]_allVars => HistoryTypeOK'
    BY StepTyped
<1> QED
    BY <1>1, <1>2, PTL DEF HSpec

----------------------------------------------------------------------------
(* The counter and the clock.                                              *)

\* A breaker that has seen no call satisfies the invariant.
LEMMA InitInv == HInit => BreakerInv
  BY InitTyped, ThresholdAssumption
     DEF HInit, Init, BreakerInv, CountsConsecutiveFailures,
         ClockFollowsLastFailure, HalfOpenHasProbes

\* Attempts, completions and seconds preserve the invariant in any order.
LEMMA StepInv == BreakerInv /\ [HNext]_allVars => BreakerInv'
<1> SUFFICES ASSUME BreakerInv, [HNext]_allVars PROVE BreakerInv'
    OBVIOUS
<1> USE ThresholdAssumption, TimeoutAssumption
<1>0. HistoryTypeOK'
    BY StepTyped DEF BreakerInv
<1>1. ASSUME NEW r \in Requests, HStart(r) PROVE BreakerInv'
    BY <1>0, <1>1 DEF BreakerInv, CountsConsecutiveFailures, ClockFollowsLastFailure,
       HalfOpenHasProbes, HStart, StartRequest, historyVars, breakerVars
<1>2. ASSUME NEW r \in Requests, HReject(r) PROVE BreakerInv'
    BY <1>0, <1>2 DEF BreakerInv, CountsConsecutiveFailures, ClockFollowsLastFailure,
       HalfOpenHasProbes, HReject, Reject, historyVars, breakerVars
<1>3. ASSUME NEW r \in Requests, HLaunch(r) PROVE BreakerInv'
    BY <1>0, <1>3 DEF BreakerInv, HistoryTypeOK, TypeOK, CountsConsecutiveFailures,
       ClockFollowsLastFailure, HalfOpenHasProbes, HLaunch, Launch, PassBreaker
<1>4. ASSUME NEW r \in Requests, HSucceed(r) PROVE BreakerInv'
    BY <1>0, <1>4 DEF BreakerInv, CountsConsecutiveFailures, ClockFollowsLastFailure,
       HalfOpenHasProbes, HSucceed, CallSucceeds, RecordSuccess
<1>5. ASSUME NEW r \in Requests, HFail(r) PROVE BreakerInv'
    BY <1>0, <1>5 DEF BreakerInv, HistoryTypeOK, TypeOK, CountsConsecutiveFailures,
       ClockFollowsLastFailure, HalfOpenHasProbes, HFail, CallFails, RecordFailure,
       CountFailure, UpToThreshold
<1>6. ASSUME NEW r \in Requests, HMalformed(r) PROVE BreakerInv'
    BY <1>0, <1>6 DEF BreakerInv, HistoryTypeOK, TypeOK, CountsConsecutiveFailures,
       ClockFollowsLastFailure, HalfOpenHasProbes, HMalformed, CallMalformed,
       CountFailure, UpToThreshold
<1>7. ASSUME HTick PROVE BreakerInv'
    BY <1>0, <1>7 DEF BreakerInv, HistoryTypeOK, TypeOK, CountsConsecutiveFailures,
       ClockFollowsLastFailure, HalfOpenHasProbes, HTick, Tick, Elapsed
<1>8. CASE UNCHANGED allVars
    BY <1>0, <1>8 DEF BreakerInv, CountsConsecutiveFailures, ClockFollowsLastFailure,
       HalfOpenHasProbes, allVars
<1> QED
    BY <1>1, <1>2, <1>3, <1>4, <1>5, <1>6, <1>7, <1>8 DEF HNext, HTry, HComplete

\* The invariant holds in every reachable state.
LEMMA Invariance == HSpec => []BreakerInv
  BY InitInv, StepInv, PTL DEF HSpec

\* The counter agrees with the outcomes of the calls, however they overlap.
THEOREM CounterCorrect == HSpec => []CountsConsecutiveFailures
<1>1. BreakerInv => CountsConsecutiveFailures
    BY DEF BreakerInv
<1> QED
    BY <1>1, Invariance, PTL

\* An outage is counted from the last failure.
THEOREM ClockCorrect == HSpec => []ClockFollowsLastFailure
<1>1. BreakerInv => ClockFollowsLastFailure
    BY DEF BreakerInv
<1> QED
    BY <1>1, Invariance, PTL

\* The backend is left alone for the whole recovery timeout after a trip.
THEOREM ShedsLoad == HSpec => ShedsAfterTrip
<1> DEFINE Shed == \A r \in Requests :
               pc[r] # "calling" /\ pc'[r] = "calling" /\ counted = FailureThreshold
                  => quiet > RecoveryTimeout \/ probes # {}
<1>1. BreakerInv /\ [HNext]_allVars => [Shed]_allVars
  <2> SUFFICES ASSUME BreakerInv, HNext,
                      NEW r \in Requests,
                      pc[r] # "calling", pc'[r] = "calling",
                      counted = FailureThreshold
               PROVE  quiet > RecoveryTimeout \/ probes # {}
      OBVIOUS
  <2>1. HLaunch(r)
    <3>1. ASSUME NEW q \in Requests, HStart(q) PROVE FALSE
        BY <3>1 DEF BreakerInv, HistoryTypeOK, TypeOK, HStart, StartRequest
    <3>2. ASSUME NEW q \in Requests, NEW how, RetryOrGiveUp(q, how) PROVE FALSE
        BY <3>2 DEF BreakerInv, HistoryTypeOK, TypeOK, RetryOrGiveUp
    <3>3. ASSUME NEW q \in Requests, HReject(q) \/ HComplete(q) PROVE FALSE
      <4>1. CASE HSucceed(q)
          BY <4>1 DEF BreakerInv, HistoryTypeOK, TypeOK, HSucceed, CallSucceeds
      <4> QED
          BY <3>2, <3>3, <4>1 DEF HComplete, HFail, HMalformed, HReject,
             CallFails, CallMalformed, Reject
    <3>4. ASSUME NEW q \in Requests, HLaunch(q) PROVE q = r
        BY <3>4 DEF BreakerInv, HistoryTypeOK, TypeOK, HLaunch, Launch
    <3>5. ~HTick
        BY DEF HTick, Tick
    <3> QED
        BY <3>1, <3>3, <3>4, <3>5 DEF HNext, HTry
  <2>2. ~IsOpen
      BY <2>1 DEF HLaunch, Launch, PassBreaker
  <2>3. CASE failures >= FailureThreshold
      BY <2>2, <2>3 DEF BreakerInv, ClockFollowsLastFailure, IsOpen, Elapsed
  <2>4. CASE failures < FailureThreshold
    <3>1. failures = FailureThreshold - 1
        BY <2>4, ThresholdAssumption
           DEF BreakerInv, HistoryTypeOK, TypeOK, CountsConsecutiveFailures
    <3> QED
        BY <3>1 DEF BreakerInv, HalfOpenHasProbes
  <2> QED
      BY <2>3, <2>4, ThresholdAssumption DEF BreakerInv, HistoryTypeOK, TypeOK
<1> QED
    BY <1>1, Invariance, PTL DEF HSpec, ShedsAfterTrip

----------------------------------------------------------------------------
(* The overshoot.                                                          *)

\* At most all requests are in flight.
LEMMA InFlightFinite ==
    /\ IsFiniteSet(InFlight)
    /\ Cardinality(InFlight) \in Nat
    /\ Cardinality(Requests) \in Nat
    /\ Cardinality(InFlight) <= Cardinality(Requests)
  BY RequestsAssumption, FS_Subset, FS_CardinalityType DEF InFlight

\* A completed call is no longer in flight.
LEMMA CompletionLands ==
    ASSUME TypeOK, NEW r \in Requests, pc[r] = "calling",
           NEW next \in {"idle", "ready"}, pc' = [pc EXCEPT ![r] = next]
    PROVE  Cardinality(InFlight') = Cardinality(InFlight) - 1
<1>1. InFlight' = InFlight \ {r} /\ r \in InFlight
    BY DEF TypeOK, InFlight
<1> QED
    BY <1>1, InFlightFinite, FS_RemoveElement

\* An attempt that raised is no longer in flight either.
LEMMA RaiseLands ==
    ASSUME TypeOK, NEW r \in Requests, pc[r] = "calling",
           NEW how, RetryOrGiveUp(r, how)
    PROVE  Cardinality(InFlight') = Cardinality(InFlight) - 1
<1>1. \E next \in {"idle", "ready"} : pc' = [pc EXCEPT ![r] = next]
    BY DEF RetryOrGiveUp
<1> QED
    BY <1>1, CompletionLands

\* A step past the threshold is a failure of a call that was in flight.
LEMMA OvershootStep ==
    TypeOK /\ OvershootBounded /\ [HNext]_allVars => OvershootBounded'
<1> SUFFICES ASSUME TypeOK, OvershootBounded, [HNext]_allVars,
                    failures' >= FailureThreshold
             PROVE  failures' + Cardinality(InFlight')
                       < FailureThreshold + Cardinality(Requests)
    BY DEF OvershootBounded
<1> USE ThresholdAssumption, InFlightFinite
<1>1. ASSUME pc' = pc, UNCHANGED failures
      PROVE  failures' + Cardinality(InFlight')
                < FailureThreshold + Cardinality(Requests)
  <2>1. InFlight' = InFlight
      BY <1>1 DEF InFlight
  <2> QED
      BY <1>1, <2>1 DEF OvershootBounded
<1>2. ASSUME NEW r \in Requests, NEW next \in {"idle", "ready"},
             pc[r] # "calling", pc' = [pc EXCEPT ![r] = next], UNCHANGED failures
      PROVE  failures' + Cardinality(InFlight')
                < FailureThreshold + Cardinality(Requests)
  <2>1. InFlight' = InFlight
      BY <1>2 DEF TypeOK, InFlight
  <2> QED
      BY <1>2, <2>1 DEF OvershootBounded
<1>3. ASSUME NEW r \in Requests, HReject(r)
      PROVE  failures' + Cardinality(InFlight')
                < FailureThreshold + Cardinality(Requests)
  <2>1. \E next \in {"idle", "ready"} : pc' = [pc EXCEPT ![r] = next]
      BY <1>3 DEF HReject, Reject, RetryOrGiveUp
  <2> QED
      BY <1>2, <1>3, <2>1 DEF HReject, Reject, Due, breakerVars
<1>4. ASSUME NEW r \in Requests, HLaunch(r) PROVE FALSE
    BY <1>4 DEF HLaunch, Launch, PassBreaker, TypeOK
<1>5. ASSUME NEW r \in Requests, HSucceed(r) PROVE FALSE
    BY <1>5 DEF HSucceed, CallSucceeds, RecordSuccess
<1>6. ASSUME NEW r \in Requests, HFail(r)
      PROVE  failures' + Cardinality(InFlight')
                < FailureThreshold + Cardinality(Requests)
  <2>1. Cardinality(InFlight') = Cardinality(InFlight) - 1
      BY <1>6, RaiseLands DEF HFail, CallFails
  <2>2. failures' = failures + 1
      BY <1>6 DEF HFail, CallFails, RecordFailure, CountFailure
  <2> QED
      BY <2>1, <2>2 DEF TypeOK, OvershootBounded
<1>7. ASSUME NEW r \in Requests, HMalformed(r)
      PROVE  failures' + Cardinality(InFlight')
                < FailureThreshold + Cardinality(Requests)
  <2>1. Cardinality(InFlight') = Cardinality(InFlight) - 1
      BY <1>7, RaiseLands DEF HMalformed, CallMalformed
  <2>2. failures' = 1
      BY <1>7 DEF HMalformed, CallMalformed, CountFailure
  <2> QED
      BY <2>1, <2>2
<1>8. ASSUME NEW r \in Requests, HStart(r)
      PROVE  failures' + Cardinality(InFlight')
                < FailureThreshold + Cardinality(Requests)
    BY <1>2, <1>8 DEF HStart, StartRequest, breakerVars
<1>9. CASE HTick
    BY <1>1, <1>9 DEF HTick, Tick
<1>10. CASE UNCHANGED allVars
    BY <1>1, <1>10 DEF allVars
<1> QED
    BY <1>3, <1>4, <1>5, <1>6, <1>7, <1>8, <1>9, <1>10 DEF HNext, HTry, HComplete

\* However many requests hammer an open breaker, its counter stays within the
\* calls that can overlap.
THEOREM Overshoot == HSpec => []OvershootBounded
<1>1. HInit => OvershootBounded
    BY ThresholdAssumption DEF HInit, Init, OvershootBounded
<1>2. HistoryTypeOK => TypeOK
    BY DEF HistoryTypeOK
<1> QED
    BY <1>1, <1>2, OvershootStep, TypeCorrect, PTL DEF HSpec
=============================================================================
