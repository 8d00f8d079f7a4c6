SPECIFICATION FairSpec
CONSTANTS
    p1 = p1
    p2 = p2
    a1 = a1
    Posts <- MCPosts
    Drops <- MCDrops
    BodyOf <- MCBodyOf
    Dates <- MCDates
    Names <- MCNames
    Allowed <- MCAllowed
    MaxFailures = 1
    MaxCrashes = 1
INVARIANTS
    RowsKeepTheirMeaning
    AcceptedIsKept
    RoutedOncePerFile
    TargetsAreKept
PROPERTIES
    InboxDrains
CHECK_DEADLOCK FALSE
