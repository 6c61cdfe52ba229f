SPECIFICATION Spec
CONSTANTS
    NbLed = 2
    Status = 0
    KeyLed = {1}
    Contact = {{}, {1}}
    Mask = {{}, {2}}
    None = none
INVARIANTS MapTellsPort HostLedsStay
