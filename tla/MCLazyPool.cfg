\* Three workers on two NUMA nodes; the pool may be destroyed at any time.
SPECIFICATION FairSpec
CONSTANTS
    w1 = w1
    w2 = w2
    w3 = w3
    Workers = {w1, w2, w3}
    NumNodes = 2
    NodeOf <- TwoNodes
    MaxJobs = 1
    MaxActs = 1
INVARIANTS
    TypeOK
    TopologyIsSound
    ActiveImpliesThief
    SleepAndShutdownAreSafe
PROPERTIES
    EveryJobIsResumed
    DestructorReturns
CHECK_DEADLOCK FALSE
