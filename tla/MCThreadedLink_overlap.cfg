CONSTANTS
    Secret <- FewPairs
    None = None
    Payload = {p}
    Reset = Reset
    Rekeying <- BothRekey
    Window = 2
    SplitResponses = FALSE
    AgreementOutcomes <- OnlySuccess
    MaxDelays = 0

SPECIFICATION ThreadedSpec

INVARIANTS
    OwnSecretThere

