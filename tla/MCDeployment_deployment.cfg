CONSTANTS
    KeysOf <- Keys
    None = None
    Empty = Empty
    Conn = {1, 2}
    MaxRuns = 2
    Addresses <- Networks
    Measures <- Anybody

SPECIFICATION FairSpec

INVARIANTS
    TypeOK
    OneSession
    MeasuringHarmless
PROPERTIES
    NobodyWaitsForever
    SessionsResume
CHECK_DEADLOCK FALSE
