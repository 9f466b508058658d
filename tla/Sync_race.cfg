SPECIFICATION Spec
CONSTANTS
    Workers = {w1, w2, w3}
    Nothing = Nothing
    Retention = 1
    MaxWorld = 1
    MaxRuns = 4
SYMMETRY Interchangeable
INVARIANTS
    TypeOK
    ReturnIsFresh
    CitationsResolve
    StatusExplained
PROPERTY ImplementsRegister
CHECK_DEADLOCK FALSE
