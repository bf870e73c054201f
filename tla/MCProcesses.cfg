\* rabbits2: three children, so two deaths can be merged while a third is
\* being reaped; one stop, whose signal finds nothing to wait for.
\* pipe_demo_3: lines of 3 bytes, a pipe with room for one line and a half,
\* and reads of 2 bytes, so reads stop inside of lines and writers wait for
\* room.  A child that misses its signal stops the program: deadlock is not
\* checked.
\* upcase_2: two clients, a FIFO with room for one message, a server that is
\* started twice, and clients that give up after two delays.
\* sock_demo_3: two clients, one waiting to be accepted at a time, room for one
\* line in each direction, two lines typed by one user or one by each,
\* and one child killed.
\* sock_demo_1: two clients with one of them waiting at a time, two characters.
\* pipelines: a command that writes four lines into a pipe with room for three
\* and a reader that takes two at a time.
\* rev_fifo: four messages of two clients through a FIFO with room for three.
\* select_demo: two writes of each child.
\* The signal demos: two rounds, three signals.
\* The fork demos: two forks of each process.
\* The wait demos: two of the values are the same to the kernel (259 is 3
\* modulo 256); one stop.
\* pipe_size_test: two pages of two bytes.
\* The synch demos: three lines of each process.
CONSTANTS
    NumChildren = 3
    Repeat = 2
    PipeBuf = 4
    PipeCapacity = 5
    RdChunk = 2
    Clients = {c1, c2}
    NoClient = none
    MaxTries = 2
    PublicCapacity = 1
    MaxStarts = 2
    ListenQueueSize = 1
    SocketCapacity = 1
    MaxTyped = 2
    MaxKilled = 1
    MaxChars = 2
    NUM = 3
    Output = 4
    ReadSize = 2
    Capacity = 3
    MaxMessages = 4
    Writes = 2
    Rounds = 2
    MaxRaised = 3
    N = 2
    ExitCodes = {0, 3, 259}
    MaxStops = 1
    PageSize = 2
    Pages = 2
    MaxCounter = 3
SPECIFICATION FairSpec
INVARIANTS
    TypeOK
    HandlersAreSafe
    LinesAreWhole
    OutputComplete
    ActsAfterSignal
    NameKept
    KilledLastFirst
    SignalsFollowFlags
    OutputOnce
    ReportsAreTrue
PROPERTIES
    StreamsArrive
    ServicesSettle
CHECK_DEADLOCK FALSE
