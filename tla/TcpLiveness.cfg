SPECIFICATION Spec
CONSTANTS
    Ways <- EveryWay
    UseSsl <- Never
    Binds <- Never
    MaxResults = 1
    Chunks = 1
    MaxFill = 2
    MaxClose = 1
    MaxBytes = 2
    MaxMark = 2
CHECK_DEADLOCK FALSE
PROPERTIES
    ConnectAnswered
    CloseAnswered
    DataShown
    SentReported
    Released
    ImplementsContract
