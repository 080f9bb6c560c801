\* Two thieves; all indices are below the capacity.
SPECIFICATION Spec
CONSTANTS
    t1 = t1
    t2 = t2
    Thieves = {t1, t2}
    Capacity = 8
    MaxPush = 6
    MaxSize = 6
SYMMETRY ThiefSymmetry
INVARIANTS
    ClaimsAreShared
    OwnerKnowsSplit
PROPERTY ImplementsWorkDeque
