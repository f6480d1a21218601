SPECIFICATION Spec
CONSTANTS
    e1 = e1
    e2 = e2
    NoEndpoint = NoEndpoint
    Endpoints <- TwoPeers
    MaxDatagrams = 3
    MaxErrors = 1
    MaxFill = 2
    MaxClose = 1
    MaxInputs = 4
CHECK_DEADLOCK FALSE
INVARIANTS
    TypeOK
    MapExact
    ReceiveToken
    Demultiplexed
    OnCloseIsLast
    RefusedIsLast
    DeliveredInOrder
PROPERTIES
    CloseAnswered
    PacksLeave
