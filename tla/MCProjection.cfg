SPECIFICATION Spec
CONSTANTS
    a = a
    b = b
    c = c
    Worlds <- MCWorlds
    MaxDay = 2
    MaxTries = 2
    Retries = 2
    MaxFaults = 1
INVARIANTS
    FillsAreTrue
    SyncedIsKept
    PositionsAreExplained
    ReportsAreTrue
PROPERTIES
    GrossWasTrue
    RealizedIsTrue
