SPECIFICATION FairSpec
CONSTANTS
    Jobs = {j1, j2}
    Requests = {r1}
    MaxAttempts = 8
    BaseDelay = 10
    MaxDelay = 25
    Width = 8
INVARIANTS
    TypeOK
    RefreshesDisjoint
    DrainedOnExit
    ZeroExitClean
    NoLostWakeup
PROPERTIES
    BackoffGrows
    RefreshesRecur
    Terminates
CHECK_DEADLOCK FALSE
