SPECIFICATION Spec
CONSTANTS
    Lot = 1
    MaxOrders = 3
    MaxErrors = 2
INVARIANTS
    LiveStopsAreTracked
    OrphansAreSwept
    ReconcileProtects
    HaltCancelsEntries
CHECK_DEADLOCK FALSE
