----------------------------- MODULE LlmBreaker -----------------------------
(***************************************************************************)
(* The circuit breaker in front of the LLM backend and the retrying call   *)
(* that uses it (src/main.py).                                             *)
(*                                                                         *)
(* One gateway process is one asyncio event loop, so the stretch of        *)
(* _call_llm between two awaits is one step: an attempt tests the breaker  *)
(* and issues litellm.acompletion without yielding, and a completion       *)
(* records its result without yielding.  The calls in flight, the requests *)
(* sleeping between two attempts and the clock interleave freely.          *)
(*                                                                         *)
(* Time is counted in seconds.  `age' is time.monotonic() - _opened_at and *)
(* stops one second after the recovery timeout, beyond which the code      *)
(* cannot tell two ages apart.                                             *)
(***************************************************************************)
EXTENDS Integers, FiniteSets

CONSTANTS
    Requests,          \* /chat/completions requests that may overlap
    FailureThreshold,  \* _CircuitBreaker.failure_threshold
    RecoveryTimeout,   \* _CircuitBreaker.recovery_timeout, seconds
    MaxAttempts,       \* stop_after_attempt
    Multiplier,        \* wait_exponential(multiplier=...)
    MinWait,           \* wait_exponential(min=...)
    MaxWait            \* wait_exponential(max=...)

ASSUME RequestsAssumption  == IsFiniteSet(Requests)
ASSUME ThresholdAssumption == FailureThreshold \in Nat \ {0}
ASSUME TimeoutAssumption   == RecoveryTimeout \in Nat
ASSUME AttemptsAssumption  == MaxAttempts \in Nat \ {0}
ASSUME WaitAssumption      == /\ Multiplier \in Nat
                              /\ MinWait \in Nat
                              /\ MaxWait \in Nat

VARIABLES
    failures,   \* _failures
    age,        \* seconds since _opened_at, up to RecoveryTimeout + 1
    pc,         \* pc[r]: "idle", "ready" (an attempt is due), "calling" (in acompletion)
    attempt,    \* attempt[r]: number of the current attempt, from 1
    wait,       \* wait[r]: seconds of back-off left before the attempt
    result      \* result[r]: how the last attempt of r ended

breakerVars == <<failures, age>>
callVars    == <<pc, attempt, wait, result>>
vars        == <<failures, age, pc, attempt, wait, result>>

Results == {"none", "ok", "llm_error", "rejected"}

----------------------------------------------------------------------------
(* The breaker.                                                            *)

Elapsed == age > RecoveryTimeout

\* What the property is_open returns.  Testing it is not free of effects:
\* see PassBreaker.
IsOpen == failures >= FailureThreshold /\ ~Elapsed

\* is_open returned False: an open breaker whose timeout has elapsed is first
\* moved to half-open, one failure short of the threshold.
PassBreaker ==
    /\ ~IsOpen
    /\ failures' = IF failures < FailureThreshold THEN failures
                                                  ELSE FailureThreshold - 1
    /\ UNCHANGED age

RecordSuccess ==
    /\ failures' = 0
    /\ UNCHANGED age

\* Adds n to the counter and, at or above the threshold, (re)starts the timeout.
CountFailure_ArmOnce(n) ==   \* fault: only the tripping failure sets the clock
    /\ failures' = n + 1
    /\ age' = IF n + 1 = FailureThreshold THEN 0 ELSE age

CountFailure_ArmLate(n) ==   \* fault: > for >=
    /\ failures' = n + 1
    /\ age' = IF n + 1 > FailureThreshold THEN 0 ELSE age

CountFailure(n) ==
    /\ failures' = n + 1
    /\ age' = IF n + 1 >= FailureThreshold THEN 0 ELSE age

RecordFailure == CountFailure(failures)

----------------------------------------------------------------------------
(* One request's calls.                                                    *)

\* tenacity's wait_exponential after attempt n.
Backoff(n) ==
    LET uncapped == Multiplier * 2 ^ (n - 1)
        capped   == IF uncapped < MaxWait THEN uncapped ELSE MaxWait
    IN  IF capped > MinWait THEN capped ELSE MinWait

\* An attempt raised: any Exception is retried until the attempts run out,
\* then re-raised to the client.
RetryOrGiveUp_OneMore(r, how) ==   \* fault: <= for <
    /\ result' = [result EXCEPT ![r] = how]
    /\ IF attempt[r] <= MaxAttempts
         THEN /\ pc'      = [pc EXCEPT ![r] = "ready"]
              /\ attempt' = [attempt EXCEPT ![r] = attempt[r] + 1]
              /\ wait'    = [wait EXCEPT ![r] = Backoff(attempt[r])]
         ELSE /\ pc'      = [pc EXCEPT ![r] = "idle"]
              /\ UNCHANGED <<attempt, wait>>

RetryOrGiveUp_Endless(r, how) ==   \* fault: retries never run out
    /\ result' = [result EXCEPT ![r] = how]
    /\ pc'     = [pc EXCEPT ![r] = "ready"]
    /\ wait'   = [wait EXCEPT ![r] = Backoff(attempt[r])]
    /\ UNCHANGED attempt

RetryOrGiveUp(r, how) ==
    /\ result' = [result EXCEPT ![r] = how]
    /\ IF attempt[r] < MaxAttempts
         THEN /\ pc'      = [pc EXCEPT ![r] = "ready"]
              /\ attempt' = [attempt EXCEPT ![r] = attempt[r] + 1]
              /\ wait'    = [wait EXCEPT ![r] = Backoff(attempt[r])]
         ELSE /\ pc'      = [pc EXCEPT ![r] = "idle"]
              /\ UNCHANGED <<attempt, wait>>

\* route_traffic reaches _call_llm.  A request that was answered makes room
\* for the next one.
StartRequest(r) ==
    /\ pc[r] = "idle"
    /\ pc'      = [pc EXCEPT ![r] = "ready"]
    /\ attempt' = [attempt EXCEPT ![r] = 1]
    /\ wait'    = [wait EXCEPT ![r] = 0]
    /\ result'  = [result EXCEPT ![r] = "none"]
    /\ UNCHANGED breakerVars

Due(r) == pc[r] = "ready" /\ wait[r] = 0

\* The breaker lets the attempt through and the LLM call is issued.
Launch(r) ==
    /\ Due(r)
    /\ PassBreaker
    /\ pc' = [pc EXCEPT ![r] = "calling"]
    /\ UNCHANGED <<attempt, wait, result>>

Reject_Counted(r) ==   \* fault: the 503 is recorded like a backend failure
    /\ Due(r)
    /\ IsOpen
    /\ RetryOrGiveUp(r, "rejected")
    /\ RecordFailure

Reject_Rearmed(r) ==   \* fault: a rejected request restarts the timeout
    /\ Due(r)
    /\ IsOpen
    /\ RetryOrGiveUp(r, "rejected")
    /\ age' = 0
    /\ UNCHANGED failures

\* The breaker is open: HTTPException(503), which is an Exception to tenacity.
Reject(r) ==
    /\ Due(r)
    /\ IsOpen
    /\ RetryOrGiveUp(r, "rejected")
    /\ UNCHANGED breakerVars

CallSucceeds(r) ==
    /\ pc[r] = "calling"
    /\ RecordSuccess
    /\ pc'     = [pc EXCEPT ![r] = "idle"]
    /\ result' = [result EXCEPT ![r] = "ok"]
    /\ UNCHANGED <<attempt, wait>>

\* An error of the backend, or the 30 s timeout.
CallFails(r) ==
    /\ pc[r] = "calling"
    /\ RecordFailure
    /\ RetryOrGiveUp(r, "llm_error")

CallMalformed_Unrecorded(r) ==   \* fault: the answer is unpacked after the try
    /\ pc[r] = "calling"
    /\ RecordSuccess
    /\ RetryOrGiveUp(r, "llm_error")

\* The backend answered without choices: the success was recorded before
\* response.choices[0] raised, and the handler then records a failure.
CallMalformed(r) ==
    /\ pc[r] = "calling"
    /\ CountFailure(0)
    /\ RetryOrGiveUp(r, "llm_error")

\* One second passes for the breaker's clock and for the back-off sleeps.
Tick ==
    /\ age'  = IF Elapsed THEN age ELSE age + 1
    /\ wait' = [r \in Requests |-> IF wait[r] = 0 THEN 0 ELSE wait[r] - 1]
    /\ UNCHANGED <<failures, pc, attempt, result>>

----------------------------------------------------------------------------
\* _opened_at starts at 0.0, long before the first reading of the clock.
Init ==
    /\ failures = 0
    /\ age      = RecoveryTimeout + 1
    /\ pc       = [r \in Requests |-> "idle"]
    /\ attempt  = [r \in Requests |-> 1]
    /\ wait     = [r \in Requests |-> 0]
    /\ result   = [r \in Requests |-> "none"]

Complete(r) == CallSucceeds(r) \/ CallFails(r) \/ CallMalformed(r)
Try(r)      == Launch(r) \/ Reject(r)

Next ==
    \/ \E r \in Requests : StartRequest(r) \/ Try(r) \/ Complete(r)
    \/ Tick

Spec == Init /\ [][Next]_vars

----------------------------------------------------------------------------
(* Properties that need no history.                                        *)

\* Every variable stays in its range; the failure counter, which the code
\* never caps, is a natural number.
TypeOK ==
    /\ failures \in Nat
    /\ age      \in 0 .. RecoveryTimeout + 1
    /\ pc       \in [Requests -> {"idle", "ready", "calling"}]
    /\ attempt  \in [Requests -> 1 .. MaxAttempts]
    /\ wait     \in [Requests -> Nat]
    /\ result   \in [Requests -> Results]

InFlight == {r \in Requests : pc[r] = "calling"}

\* Once tripped, the counter can only be pushed on by calls that were already
\* in flight: however many requests retry against an open breaker, it never
\* exceeds the threshold by more than the calls that could overlap.
OvershootBounded ==
    failures >= FailureThreshold =>
        failures + Cardinality(InFlight) < FailureThreshold + Cardinality(Requests)

\* Every request is answered: attempts are bounded, and neither an open
\* breaker nor the back-off keeps a request waiting for ever.
EveryRequestAnswered ==
    \A r \in Requests : pc[r] # "idle" ~> pc[r] = "idle"

\* An open breaker stops being open, even under a stream of requests that it
\* rejects: only calls in flight can restart its timeout, and none is issued
\* while it is open.
BreakerRecovers == IsOpen ~> ~IsOpen
=============================================================================
