CONSTANTS
    Secret <- FewPairs
    None = None
    Payload = {p, q}
    Reset = Reset
    Rekeying <- BothRekey
    Window = 1
    SplitResponses = FALSE
    AgreementOutcomes <- AnyOutcome
    MaxDelays = 0

SPECIFICATION FairSpec

INVARIANTS
    LockstepInv
    DataReadable
    ResetReadable
    OneInitiator

PROPERTIES
    TunnelImplemented
    RequestsGetThrough
    RekeyCarriedOut
