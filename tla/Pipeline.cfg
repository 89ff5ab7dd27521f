\* Two requests of any route and credential with one connection to each store, so that
\* either may find the pools empty; two faults, so that both look-ups of a key fail.
CONSTANTS
    Requests = {r1, r2}
    k1 = k1
    u1 = u1
    Keys <- MCKeys
    Owner <- MCOwner
    DevKey = DevKey
    DevUser = DevUser
    BadKey = BadKey
    NoKey = NoKey
    Anonymous = Anonymous
    RedisMax = 1
    PgMax = 1
    MaxFaults = 2
SPECIFICATION Spec
CHECK_DEADLOCK FALSE
INVARIANTS
    TypeOK
    FailsClosed
    ChargedToOwner
    PoolSuffices
PROPERTIES
    EveryRequestAnswered
