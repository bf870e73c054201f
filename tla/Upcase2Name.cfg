\* A server that is interrupted before it has stored its process id.
CONSTANTS
    Clients = {c1, c2}
    NoClient = none
    MaxTries = 2
    PublicCapacity = 1
    MaxStarts = 2
SPECIFICATION Spec
INVARIANT PublicRemoved
CHECK_DEADLOCK FALSE
