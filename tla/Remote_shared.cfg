SPECIFICATION Spec
CONSTANTS
    Logins = {t1, t2}
    Free = Free
    Service = Service
    MaxAttempts = 2
    MaxLost = 1
    MaxKills = 0
INVARIANT NeverShared
CHECK_DEADLOCK FALSE
