SPECIFICATION Spec
CONSTANTS
    Targets = {d1, d2, d3}
    MaxFailures = 3
INVARIANTS
    CompletedMeansGone
    NoLegacyOptions
PROPERTIES
    NewDataSurvives
    FailsClosed
    ChoiceInEffectStays
    ResetCompletes
