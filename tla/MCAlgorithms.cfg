\* All algorithms on inputs of up to six elements, in chunks of one to three.
SPECIFICATION Spec
CONSTANTS
    MaxLen = 6
    MaxChunk = 3
    MaxThrow = 2
INVARIANTS
    ResultIsSequential
    NoRace
    ExceptionsAreContained
PROPERTY Terminates
CHECK_DEADLOCK FALSE
