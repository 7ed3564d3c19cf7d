CONSTANTS
    Secret <- Pairs
    None = None
    Payload = {p}
    Reset = Reset
    Rekeying <- BothRekey
    Window = 1
    SplitResponses = FALSE
    AgreementOutcomes <- OnlySuccess
    MaxDelays = 1

SPECIFICATION Spec

INVARIANTS
    RoleKnown
