CONSTANT SliderCount = 4
SPECIFICATION FairSpec
INVARIANTS
    ListIsQueue
    HeadIsOldest
PROPERTIES
    ImplementsQueue
    FirstPadWins
    ScanReturns
