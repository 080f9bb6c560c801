\* Two task trees, steals, joins, an explicit context switch and an exception.
SPECIFICATION Spec
CONSTANTS
    w1 = w1
    w2 = w2
    w3 = w3
    Workers = {w1, w2, w3}
    MaxFrames = 4
    MaxRoots = 2
    MaxSwitch = 1
    MaxThrow = 1
    CounterMax = 7
SYMMETRY WorkerSymmetry
INVARIANTS
    TypeOK
    OnePlace
    CountersAccountForChildren
    WorkerDiscipline
    JoinIsSafe
CHECK_DEADLOCK FALSE
