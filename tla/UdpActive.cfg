SPECIFICATION Spec
CONSTANTS
    Binds <- Either
    MaxResults = 3
    MaxDatagrams = 2
    MaxErrors = 1
    MaxFill = 2
    MaxClose = 1
CHECK_DEADLOCK FALSE
INVARIANTS
    TypeOK
    EveryEndpointTried
    ReceiveToken
    DeliveredInOrder
PROPERTIES
    ImplementsContract
    ConnectAnswered
    CloseAnswered
    SentReported
