\* Every pair of chains over four and three strikes, in every trend.  A run of the graph
\* ends, so the system really stops.
CONSTANTS
    NoMarket = NoMarket
    PutStrikes <- MCPutStrikes
    CallStrikes <- MCCallStrikes
    Mids <- MCMids
    Prices <- MCPrices
    BaseWidth = 1000
    MaxAttempts = 3
    Settlements <- MCSettlements
SPECIFICATION FairSpec
INVARIANTS
    TypeOK
    PayoffBounded
    AcceptedRisk
PROPERTIES
    WideningNeverSafer
    RunEnds
CHECK_DEADLOCK FALSE
