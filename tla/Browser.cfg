\* Runs that die, fail or lose an answer at any three points, between an administrator and a removal.
SPECIFICATION Spec
CONSTANTS
    Names = {n1, n2}
    Logins = {g1, g2, g3, g4}
    Llats = {l1, l2, l3, l4}
    None = None
    MaxFailures = 3
    MaxChanges = 2
INVARIANTS
    ReadyMeansClean
    NothingForgotten
PROPERTY
    Converges
