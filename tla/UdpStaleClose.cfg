SPECIFICATION Spec
CONSTANTS
    e1 = e1
    e2 = e2
    NoEndpoint = NoEndpoint
    Endpoints <- TwoPeers
    MaxDatagrams = 2
    MaxErrors = 0
    MaxFill = 0
    MaxClose = 2
    MaxInputs = 4
CHECK_DEADLOCK FALSE
INVARIANTS
    ClosedByOwner
