SPECIFICATION Spec
SYMMETRY Interchangeable
CONSTANTS
    Invocations = {p1, p2}
    Contents = {bug, feature, leak, broken}
    Malformed = {broken}
    Sensitive = {leak}
    Tokens = {t1, t2}
    None = None
INVARIANTS
    UncertainIsLocked
    EachIssueConfirmed
    OneIssueUnlessMissed
