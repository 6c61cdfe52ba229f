CONSTANTS
    Endpoint <- MCEndpoint
    NbIface = 3
    IfaceOf <- MCIfaceOf
    Position <- MCPosition
    Driver <- MCDriver
SPECIFICATION Spec
PROPERTY ResetStopsJobs
