CONSTANTS
    EpSize = 2
    Requests <- MCRequests
    Unruly = TRUE
    OthersPolled = TRUE
SPECIFICATION Spec
INVARIANTS
    AckedTakesEffect
    CallbackAtMostOnce
