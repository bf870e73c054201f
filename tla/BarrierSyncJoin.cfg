\* Three elements for two threads: thread 1 has one element and leaves the
\* barrier rounds before thread 0 does.  The program stops there, so that is
\* not checked as a deadlock but as the loss of the promised end.
CONSTANTS
    ArraySize = 3
    NumThreads = 2
SPECIFICATION FairSpec
PROPERTY AllJoined
CHECK_DEADLOCK FALSE
