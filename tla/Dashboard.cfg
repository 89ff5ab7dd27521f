\* Two queries and two fetches in flight, so that answers to queries and to polls
\* overtake each other.
CONSTANTS
    q1 = q1
    q2 = q2
    f1 = f1
    f2 = f2
    NoQuery = NoQuery
    Queries <- MCQueries
    Fetches <- MCFetches
SPECIFICATION FairSpec
INVARIANTS
    TypeOK
    OnePoll
    SpinnerHonest
PROPERTIES
    PollEnds
    SpinnerEnds
