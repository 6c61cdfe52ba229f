CONSTANTS
    EpSize = 2
    Requests <- MCRequests
    Unruly = TRUE
    OthersPolled = FALSE
SPECIFICATION Spec
INVARIANTS
    AddressAfterHandshake
