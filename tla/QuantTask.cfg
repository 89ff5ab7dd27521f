\* One task, two workers and one client that cancels, under two faults of any
\* kind.  One retry is enough for an attempt that is not the last and one that is.
CONSTANTS
    t1 = t1
    w1 = w1
    w2 = w2
    c1 = c1
    NoTask = NoTask
    Tasks <- MCTasks
    Workers <- MCWorkers
    Cancels <- MCCancels
    MaxRetries = 1
    MaxCalls = 1
    MaxFaults = 2
    MaxSaves = 1
VIEW MCView
\* Tasks and calls come to an end.
CHECK_DEADLOCK FALSE
SPECIFICATION HFairSpec
INVARIANTS
    HistoryTypeOK
    NeverForgotten
    CopiesBounded
    AttemptsBounded
PROPERTIES
    VerdictStands
    EveryTaskSettles
