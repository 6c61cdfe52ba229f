SPECIFICATION FairSpec
CONSTANTS
    Key = {k1, k2, k3}
    None = none
    NbSlot = 2
    Modifier = {shift}
    Content = {c1, c2, c3}
    Centre = c1
    Unknown = unknown
CHECK_DEADLOCK FALSE
INVARIANTS SlotsPacked HostWillKnow MuteAfterReconfigure
PROPERTIES BufferStable HostConverges
