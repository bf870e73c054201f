\* One round and three signals: two of them for a handler that interrupts itself.
CONSTANTS
    Rounds = 1
    MaxRaised = 3
SPECIFICATION Spec
INVARIANT RestartDoesNotNest
CHECK_DEADLOCK FALSE
