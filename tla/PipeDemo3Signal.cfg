CONSTANTS
    Repeat = 1
    PipeBuf = 3
    PipeCapacity = 3
    RdChunk = 2
SPECIFICATION FairSpec
PROPERTY SignalIsHeard
CHECK_DEADLOCK FALSE
