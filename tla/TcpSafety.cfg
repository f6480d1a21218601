SPECIFICATION Spec
CONSTANTS
    Ways = {"accept", "sync", "async"}
    UseSsl = {FALSE, TRUE}
    Binds = {FALSE, TRUE}
    MaxResults = 2
    Chunks = 2
    MaxFill = 2
    MaxClose = 1
    MaxBytes = 2
    MaxMark = 2
CHECK_DEADLOCK FALSE
INVARIANTS
    TypeOK
    ReadArmed
    SendArmed
    WriteInPlace
    WireIsStream
    LateCallbacksBounded
    NoRecvAfterReject
