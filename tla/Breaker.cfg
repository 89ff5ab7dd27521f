\* Three overlapping requests and three failures to trip: a trip with calls
\* still in flight and a half-open breaker with several callers both occur.
\* No symmetry, which liveness checking does not allow.
CONSTANTS
    r1 = r1
    r2 = r2
    r3 = r3
    Requests <- MCRequests
    FailureThreshold = 3
    RecoveryTimeout = 2
    MaxAttempts = 2
    Multiplier = 1
    MinWait = 2
    MaxWait = 10
SPECIFICATION HFairSpec
INVARIANTS
    HistoryTypeOK
    OvershootBounded
    CountsConsecutiveFailures
    ClockFollowsLastFailure
PROPERTIES
    ShedsAfterTrip
    EveryRequestAnswered
    BreakerRecovers
