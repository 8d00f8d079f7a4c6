SPECIFICATION Spec
CONSTANTS
    NumSymbols = 2
    Price <- MCPrice
    Total = 12
    Band = 10
    Buffer = 10
    MinNotional = 2
    Lot = 2
    MaxScore = 2
    MaxSignals = 1
    MaxOrderNotional = 4
    MaxPositionQty = 5
    MaxGross = 7
INVARIANTS
    CapsHold
    NoReversal
PROPERTIES
    TrimsKeepCover
