SPECIFICATION FairSpec
CONSTANTS
    Strikes = {1, 2}
    Expiries = {1, 2}
    Far = {2}
    MaxLots = 1
    MaxContracts = 1
    DefaultContracts = 1
    Attempts = 1
    MaxPlans = 2
    MaxErrors = 2
INVARIANTS
    CoverIsPlaced
    AnswersAreTrue
    CoveredAtRest
PROPERTIES
    PlansEnd
CHECK_DEADLOCK FALSE
