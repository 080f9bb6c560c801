\* A busy_pool of two workers or a unit_pool, and a client.
SPECIFICATION FairSpec
CONSTANTS
    c1 = c1
    w1 = w1
    w2 = w2
    null = null
    garbage = garbage
    Clients = {c1}
    Workers = {w1, w2}
    Solo = w1
    NumJobs = 2
    MaxFork = 1
    MaxSwitch = 1
    Null = null
    Garbage = garbage
INVARIANTS
    SubmissionsAreFifo
    FutureIsSafe
    ContextsAreLive
    NothingLeftBehind
PROPERTIES
    FuturesComplete
    DestructorReturns
CHECK_DEADLOCK FALSE
