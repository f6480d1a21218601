SPECIFICATION Spec
CONSTANTS
    Ways <- Async
    UseSsl <- Never
    Binds <- Never
    MaxResults = 2
    Chunks = 1
    MaxFill = 1
    MaxClose = 1
    MaxBytes = 1
    MaxMark = 1
CHECK_DEADLOCK FALSE
PROPERTIES
    ConnectAnswered
