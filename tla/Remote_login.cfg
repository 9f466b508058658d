SPECIFICATION Spec
CONSTANTS
    Logins = {t1, t2}
    Free = Free
    Service = Service
    MaxAttempts = 3
    MaxLost = 1
    MaxKills = 1
INVARIANTS
    TypeOK
    CliHoldsLock
    DaemonAlone
PROPERTY DaemonStarts
CHECK_DEADLOCK FALSE
