CONSTANTS
    Secret <- FewPairs
    None = None
    Payload = {p}
    Reset = Reset
    Rekeying <- SomeRekey
    Window = 1
    SplitResponses = FALSE
    AgreementOutcomes <- AnyOutcome
    MaxDelays = 0

SPECIFICATION ThreadedSpec

INVARIANTS
    OneCall
    OwnSecretThere

PROPERTIES
    LinkImplemented
