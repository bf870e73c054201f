\* One client with lines of up to two pieces.
CONSTANTS
    Clients = {c1}
    NoClient = none
    MaxTries = 2
    HalfPipeBuf = 2
    MaxLine = 3
    LineLengths = {1, 2, 3}
    PublicCapacity = 1
    MaxStarts = 1
SPECIFICATION Spec
INVARIANT WholeLineConverted
CHECK_DEADLOCK FALSE
