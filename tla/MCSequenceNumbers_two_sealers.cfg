CONSTANTS
    ClientMask = 4
    Sealers <- BothSealAtClient
    MaxPackets = 3
    None = None

SPECIFICATION Spec

INVARIANT NonceRebuilt

CHECK_DEADLOCK FALSE
