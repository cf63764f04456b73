CONSTANTS
    Limit = 3
    Window = 4
    RestartDelay = 1
    MaxTime = 11
SPECIFICATION CriticalSpec
CHECK_DEADLOCK FALSE
INVARIANTS
    TwiceLimitHolds
