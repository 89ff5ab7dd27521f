\* A script may run one second late and one bucket may be lost.  Costs below, at
\* and above the size of a bucket; the horizon outlives an idle bucket's expiry
\* (6 s), so buckets reappear full.
CONSTANTS
    u1 = u1
    r1 = r1
    r2 = r2
    NoCall = NoCall
    Users <- MCUsers
    Requests <- MCRequests
    Costs = {1, 2, 3}
    MaxTpm = 2
    Window = 3
    MaxLag = 1
    Horizon = 8
    MaxLosses = 1
SPECIFICATION HSpec
SYMMETRY Symmetry
INVARIANTS
    HistoryTypeOK
    RateBoundWithLag
PROPERTIES
    RefusedOnlyWhenSpent
    ImplementsIdeal
