\* Three requests of any kind, so that a summary meets two writers and the list is
\* full; four minutes, so that buckets leave the window of two and expire after three.
CONSTANTS
    r1 = r1
    r2 = r2
    r3 = r3
    Requests <- MCRequests
    Quant = Quant
    Other = Other
    Intents <- MCIntents
    Window = 2
    RpmTtl = 3
    RecentMax = 2
    Shown = 1
    MaxLag = 1
    MaxFaults = 1
    Horizon = 3
SPECIFICATION Spec
SYMMETRY Symmetry
CHECK_DEADLOCK FALSE
INVARIANTS
    TypeOK
    CountersAgree
    SummaryCovers
