SPECIFICATION Spec
CONSTANTS
    MaxDay = 2
    TradingDays = {1, 2}
    NumDrops = 1
    MaxFailures = 1
    MaxCrashes = 1
    AAPL = AAPL
    MSFT = MSFT
    Symbols <- MCSymbols
    SymbolOf <- OneSymbol
INVARIANTS
    AtMostOncePerDay
    SweepClosesTheGate
    RowsAccountedFor
PROPERTIES
    HaltedProcessNeverBuys
