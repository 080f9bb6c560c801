\* Up to three elements in chunks of one or two, one exception.
SPECIFICATION Spec
CONSTANTS
    MaxLen = 3
    MaxChunk = 2
    MaxThrow = 1
INVARIANT ExceptionsArrive
CHECK_DEADLOCK FALSE
