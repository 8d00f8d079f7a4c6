SPECIFICATION Spec
CONSTANTS
    Lot = 1
    MaxOrders = 3
    MaxErrors = 0
PROPERTIES
    ShortNeverOpens
CHECK_DEADLOCK FALSE
