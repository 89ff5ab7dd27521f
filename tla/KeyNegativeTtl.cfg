\* One key of any lifetime, and no failure at all.
CONSTANTS
    k1 = k1
    r1 = r1
    r2 = r2
    a1 = a1
    a2 = a2
    Forever = Forever
    Keys <- MCKeys
    Requests <- MCRequests
    Admins <- MCAdmins
    Lifetimes <- MCLifetimes
    RehydrateTtl = 2
    MaxStall = 1
    Faults <- NoFaults
SPECIFICATION HSpec
SYMMETRY Symmetry
INVARIANT ExpiredNotPermanent
