\* Liveness under fair workers (no symmetry).
SPECIFICATION FairSpec
CONSTANTS
    w1 = w1
    w2 = w2
    Workers = {w1, w2}
    MaxFrames = 4
    MaxRoots = 1
    MaxSwitch = 1
    MaxThrow = 1
    CounterMax = 7
PROPERTIES
    EveryTaskEnds
CHECK_DEADLOCK FALSE
