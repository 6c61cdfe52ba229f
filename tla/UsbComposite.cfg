CONSTANTS
    Endpoint <- MCEndpoint
    NbIface = 3
    IfaceOf <- MCIfaceOf
    Position <- MCPosition
    Driver <- MCDriver
SPECIFICATION FairSpec
INVARIANTS
    TypeOK
    NoJobWhileHalted
    OwnerIsLive
    PendingHasCarrier
    NoneEnabledUnconfigured
    ServedIsConfigured
    OutArmedUnlessHalted
PROPERTIES
    AckedIsServed
    SecondResetIsClean
    DeafUntilRearmed
    PendingPickedUp
    InReportsDrain
