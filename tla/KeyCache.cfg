\* One key, two requests and two admins under every failure.  A rehydrated entry
\* lives 3 s, a stalled request up to 2 s, a limited key 4 s: an entry may outlive its
\* key, and a registration may come after its key's end.
\* No symmetry, which liveness checking does not allow.
CONSTANTS
    k1 = k1
    r1 = r1
    r2 = r2
    a1 = a1
    a2 = a2
    Forever = Forever
    Keys <- MCKeys
    Requests <- MCRequests
    Admins <- MCAdmins
    Lifetimes <- MCLifetimes
    RehydrateTtl = 3
    MaxStall = 2
    Faults <- AllFaults
SPECIFICATION HFairSpec
INVARIANTS
    HistoryTypeOK
    StalenessBounded
PROPERTY DeadKeysSettle
