\* Two thieves, a ring of one slot that wraps around, grows three times or fails to.
SPECIFICATION FairSpec
CONSTANTS
    t1 = t1
    t2 = t2
    o = o
    free = free
    Thieves = {t1, t2}
    Owner = o
    Free = free
    Capacity = 1
    MaxPush = 5
    MaxStale = 1
    AllocFails = TRUE
INVARIANTS
    LockExcludes
PROPERTIES
    ImplementsWorkDeque
    OwnerWaitsOnlyAfterThrow
