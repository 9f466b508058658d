SPECIFICATION ContractSpec
CONSTANTS
    Workers = {w1, w2}
    Nothing = Nothing
    Retention = 2
    MaxWorld = 2
    MaxRuns = 3
    c1 = c1
    Changes = {c1}
    Meets <- OnlyFirstState
    MaxDisputes = 2
    MaxUndone = 1
SYMMETRY Interchangeable
INVARIANTS
    VerifiedIsWitnessed
    VerifiedSettlesDispute
PROPERTY VerifiedIsFinal
CHECK_DEADLOCK FALSE
