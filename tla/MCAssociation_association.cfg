CONSTANTS
    KeysOf <- Keys
    None = None
    Empty = Empty

SPECIFICATION FairSpec

INVARIANTS
    TypeOK
    BothAssociated
    DeletedIsClean

PROPERTIES
    TrustKept
    HandshakeEnds
    TrustImplemented

