CONSTANTS
    Secret <- FewPairs
    None = None
    Payload = {p}
    Reset = Reset
    Rekeying <- SomeRekey
    Window = 1
    SplitResponses = TRUE
    AgreementOutcomes <- AnyOutcome
    MaxDelays = 1

SPECIFICATION Spec

INVARIANTS
    TypeOK
    ThreadsSurvive
    FallbackUnused
    AtRestForgets
    KeysAgree
    RekeyingAloneHarmless

PROPERTIES
    SwitchTogether
