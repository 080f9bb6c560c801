\* Pages of 8 bytes, headers and malloc data of 2: stacklets of 4, 12, 28, 44.
SPECIFICATION Spec
CONSTANTS
    w1 = w1
    w2 = w2
    s1 = s1
    s2 = s2
    s3 = s3
    s4 = s4
    null = null
    Workers = {w1, w2}
    Stacklets = {s1, s2, s3, s4}
    Null = null
    Sizes = {0, 4, 40}
    MaxAllocs = 5
    PageSize = 8
    MetaSize = 2
    HeaderSize = 2
    Align = 2
    InitSize = 1
SYMMETRY StackSymmetry
INVARIANTS
    StackletsHaveOneOwner
    LastAllocationIsOnTop
    FrameKnowsTop
    CacheIsBounded
