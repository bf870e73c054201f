\* Two clients and a public FIFO with room for one message, lines of
\* two pieces, a server that is started twice and gives up after two tries.
CONSTANTS
    Clients = {c1, c2}
    NoClient = none
    MaxTries = 2
    HalfPipeBuf = 2
    MaxLine = 3
    LineLengths = {3}
    PublicCapacity = 1
    MaxStarts = 2
SPECIFICATION FairSpec
INVARIANTS
    TypeOK
    
    RepliesMatch
PROPERTIES
    WaitingEnds
CHECK_DEADLOCK FALSE
