SPECIFICATION ContractSpec
CONSTANTS
    Workers = {w1, w2}
    Nothing = Nothing
    Retention = 1
    MaxWorld = 2
    MaxRuns = 2
    c1 = c1
    Changes = {c1}
    Meets <- OnlyFirstState
    MaxDisputes = 2
    MaxUndone = 0
SYMMETRY Interchangeable
INVARIANT PassedIsLater
CHECK_DEADLOCK FALSE
