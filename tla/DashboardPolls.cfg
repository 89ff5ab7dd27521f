\* The queries and fetches of Dashboard.cfg.
CONSTANTS
    q1 = q1
    q2 = q2
    f1 = f1
    f2 = f2
    NoQuery = NoQuery
    Queries <- MCQueries
    Fetches <- MCFetches
SPECIFICATION Spec
PROPERTY PollsForCompletion
