SPECIFICATION Spec
CONSTANTS
    Byte <- MCByte
    kCheapPrepend = 1
    kInitialSize = 2
    ExtraSize = 1
    MaxData = 2
    MaxSize = 6
INVARIANTS
    TypeOK
    SpaceMade
PROPERTIES
    ImplementsByteQueue
