\* A connection is closed and nobody else keeps a pointer to it.
SPECIFICATION Spec
CONSTANTS
    MaxThreads = 2
    MaxConns = 3
INVARIANTS
    NeverUndefined
CHECK_DEADLOCK FALSE
