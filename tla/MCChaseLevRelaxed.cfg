\* Stores out of order, one ring buffer that wraps around.
SPECIFICATION Spec
CONSTANTS
    t1 = t1
    t2 = t2
    Thieves = {t1, t2}
    Capacities = {2}
    InitialCap = 2
    MaxPush = 5
    StoreOrder = "relaxed"
SYMMETRY ThiefSymmetry
INVARIANTS
    IndexInv
    VisibleItemsAreReadable
PROPERTY ImplementsWorkDeque
