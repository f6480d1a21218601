SPECIFICATION Spec
CONSTANTS
    Ways <- EveryWay
    UseSsl <- Always
    Binds <- Never
    MaxResults = 1
    Chunks = 1
    MaxFill = 1
    MaxClose = 1
    MaxBytes = 1
    MaxMark = 1
CHECK_DEADLOCK FALSE
PROPERTIES
    CloseAnswered
