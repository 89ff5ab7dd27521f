\* Three requests may arrive at the half-open breaker at once.
CONSTANTS
    r1 = r1
    r2 = r2
    r3 = r3
    Requests <- MCRequests
    FailureThreshold = 3
    RecoveryTimeout = 3
    MaxAttempts = 3
    Multiplier = 1
    MinWait = 2
    MaxWait = 10
SPECIFICATION HSpec
SYMMETRY Symmetry
INVARIANT OneProbe
