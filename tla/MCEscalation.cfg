SPECIFICATION Spec
CONSTANTS
    Qty = 3
INVARIANTS
    OneLiveOrder
    OverfillBounded
    AnswerIsTheLastOrder
CHECK_DEADLOCK FALSE
