\* Stores out of order while the ring buffer grows.
SPECIFICATION Spec
CONSTANTS
    t1 = t1
    t2 = t2
    Thieves = {t1, t2}
    Capacities = {2, 4}
    InitialCap = 2
    MaxPush = 3
    StoreOrder = "relaxed"
SYMMETRY ThiefSymmetry
INVARIANT WinnerReadIsClean
