SPECIFICATION FairLimiterSpec
CONSTANTS
    Callers <- MCCallers
    t1 = t1
    t2 = t2
    Token = 2
    Capacity = 6
    Timeout = 3
    Window = 6
    MaxIdle = 7
INVARIANTS
    WindowBudget
PROPERTIES
    EveryAcquireEnds
