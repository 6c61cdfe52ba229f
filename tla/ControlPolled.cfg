CONSTANTS
    EpSize = 2
    Requests <- MCRequests
    Unruly = FALSE
    OthersPolled = TRUE
SPECIFICATION Spec
INVARIANTS
    StallOnlyExtraData
