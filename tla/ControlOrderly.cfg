CONSTANTS
    EpSize = 2
    Requests <- MCRequests
    Unruly = FALSE
    OthersPolled = FALSE
SPECIFICATION FairSpec
INVARIANTS
    TypeOK
    EffectsAreAcked
    DataComplete
    ReportIsWhole
    KnownNeverFails
PROPERTIES
    RequestEnds
