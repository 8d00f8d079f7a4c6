SPECIFICATION FairSpec
CONSTANTS
    t1 = t1
    t2 = t2
    t3 = t3
    c1 = c1
    c2 = c2
    c3 = c3
    AAPL = AAPL
    MSFT = MSFT
    Callers <- MCCallers
    Cids <- MCCids
    Symbols <- MCSymbols
    SymbolOf <- MCSymbolOf
    MaxCalls = 3
    MaxAuditFailures = 1
    MaxCrashes = 1
INVARIANTS
    AuditedBeforePlaced
    OneOrderUnlessForgotten
    AnswersAreTrue
PROPERTIES
    RefinesOnce
    EveryCallEnds
CHECK_DEADLOCK FALSE
