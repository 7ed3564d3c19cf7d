CONSTANTS
    Base = 2
    Message <- ShortMessages
    Capacity = 4
    MaxMessages = 3

SPECIFICATION FairSpec

INVARIANTS
    TypeOK
    InOrder

PROPERTIES
    Arrives
    CloseNoticed

CHECK_DEADLOCK FALSE
