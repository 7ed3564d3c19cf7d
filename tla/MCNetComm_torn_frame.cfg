CONSTANTS
    Base = 2
    Message <- ShortMessages
    Capacity = 4
    MaxMessages = 2

SPECIFICATION Spec

INVARIANTS
    HeaderTrue

CHECK_DEADLOCK FALSE
