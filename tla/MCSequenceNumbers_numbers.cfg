CONSTANTS
    ClientMask = 4
    Sealers <- OneSealer
    MaxPackets = 3
    None = None

SPECIFICATION Spec

INVARIANTS
    NumbersInv
    NoncesUnique
    AcceptedOnce

PROPERTIES
    NothingRefused

CHECK_DEADLOCK FALSE
