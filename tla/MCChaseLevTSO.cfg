\* In-order stores, ring buffers growing 1 -> 2 -> 4.
SPECIFICATION FairSpec
CONSTANTS
    t1 = t1
    t2 = t2
    Thieves = {t1, t2}
    Capacities = {1, 2, 4}
    InitialCap = 1
    MaxPush = 4
    StoreOrder = "program"
INVARIANTS
    TypeOK
    ClaimsAreLive
    WinnerReadIsClean
PROPERTIES
    ImplementsWorkDeque
    EveryItemIsTaken
