\* The ring is shorter than the run, so both ends wrap around more than once
\* and the buffer is full and empty in many of the interleavings.
CONSTANTS
    NumIterations = 7
    BufferSize = 3
SPECIFICATION FairSpec
INVARIANTS
    TypeOK
    RingHoldsUnread
    NoMissedSignal
    ConsumerNeverCutShort
PROPERTIES
    ImplementsFifo
    Termination
