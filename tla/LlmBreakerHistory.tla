------------------------- MODULE LlmBreakerHistory -------------------------
(***************************************************************************)
(* LlmBreaker with history variables.  The code keeps none of them: they   *)
(* record what an observer of the LLM calls sees, so that the breaker's    *)
(* counter and clock can be compared with the calls' real outcomes.        *)
(***************************************************************************)
EXTENDS LlmBreaker

VARIABLES
    streak,   \* attempts in a row that failed, up to FailureThreshold
    counted,  \* those of them since the last malformed answer, which is the first
    quiet,    \* seconds since the last failure, up to RecoveryTimeout + 1
    probes    \* calls issued since the open breaker's timeout elapsed, until a
              \* call completes

historyVars == <<streak, counted, quiet, probes>>
allVars     == <<failures, age, pc, attempt, wait, result,
                 streak, counted, quiet, probes>>

UpToThreshold(n) == IF n < FailureThreshold THEN n ELSE FailureThreshold

HInit ==
    /\ Init
    /\ streak = 0
    /\ counted = 0
    /\ quiet  = RecoveryTimeout + 1
    /\ probes = {}

HStart(r)  == StartRequest(r) /\ UNCHANGED historyVars
HReject(r) == Reject(r) /\ UNCHANGED historyVars

HLaunch(r) ==
    /\ Launch(r)
    /\ probes' = IF failures >= FailureThreshold \/ probes # {}
                   THEN probes \union {r} ELSE {}
    /\ UNCHANGED <<streak, counted, quiet>>

HSucceed(r) ==
    /\ CallSucceeds(r)
    /\ streak'  = 0
    /\ counted' = 0
    /\ probes' = {}
    /\ UNCHANGED quiet

HFail(r) ==
    /\ CallFails(r)
    /\ streak'  = UpToThreshold(streak + 1)
    /\ counted' = UpToThreshold(counted + 1)
    /\ quiet'   = 0
    /\ probes' = {}

\* To the request this is one more failure in a row, however the breaker
\* counts it.
HMalformed(r) ==
    /\ CallMalformed(r)
    /\ streak'  = UpToThreshold(streak + 1)
    /\ counted' = 1
    /\ quiet'   = 0
    /\ probes' = {}

HTick ==
    /\ Tick
    /\ quiet' = IF quiet > RecoveryTimeout THEN quiet ELSE quiet + 1
    /\ UNCHANGED <<streak, counted, probes>>

HComplete(r) == HSucceed(r) \/ HFail(r) \/ HMalformed(r)
HTry(r)      == HLaunch(r) \/ HReject(r)

HNext ==
    \/ \E r \in Requests : HStart(r) \/ HTry(r) \/ HComplete(r)
    \/ HTick

HSpec == HInit /\ [][HNext]_allVars

\* Time passes, a due attempt is resumed by the event loop, and every call
\* ends because of its timeout.  Nothing obliges a client to send a request.
HFairSpec ==
    /\ HSpec
    /\ WF_allVars(HTick)
    /\ \A r \in Requests : WF_allVars(HTry(r)) /\ WF_allVars(HComplete(r))

----------------------------------------------------------------------------
(* What the breaker promises.                                              *)

HistoryTypeOK ==
    /\ TypeOK
    /\ streak  \in 0 .. FailureThreshold
    /\ counted \in 0 .. FailureThreshold
    /\ quiet   \in 0 .. RecoveryTimeout + 1
    /\ probes \subseteq Requests

\* What the counter says of the failures in a row, whatever calls overlap.
\* It counts them exactly as far as the last malformed answer: below the
\* threshold it is their number, and once there are enough of them it is never
\* further than one failure from opening again.  So it only reaches the
\* threshold after that many failures in a row.  But an answer that turns out malformed has
\* been recorded as a success before it is recorded as a failure, so it hides
\* the failures before it: a streak of any length stays below the threshold if
\* malformed answers divide it into pieces shorter than that.
CountsConsecutiveFailures ==
    /\ counted <= streak
    /\ counted < FailureThreshold => failures = counted
    /\ counted = FailureThreshold => failures >= FailureThreshold - 1

\* The breaker's clock is the time since the LAST failure, not since the one
\* that tripped it: late failures of calls already in flight extend the outage.
ClockFollowsLastFailure ==
    failures >= FailureThreshold => age = quiet

\* After a full streak of failures that no malformed answer interrupts, the
\* backend gets no call until it has had the whole recovery timeout without a
\* failure, or calls of the half-open breaker are under way and none of them
\* has ended yet.
ShedsAfterTrip ==
    [][\A r \in Requests :
          pc[r] # "calling" /\ pc'[r] = "calling" /\ counted = FailureThreshold
             => quiet > RecoveryTimeout \/ probes # {}]_allVars

----------------------------------------------------------------------------
(* What a comment of the code says and the code does not do.               *)

\* "one probe is allowed through": between the end of the timeout and the
\* first result, at most one call is issued.
OneProbe == Cardinality(probes) <= 1
=============================================================================
