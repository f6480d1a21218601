SPECIFICATION Spec
CONSTANTS
    Ways <- Accepted
    UseSsl <- Never
    Binds <- Never
    MaxResults = 1
    Chunks = 1
    MaxFill = 1
    MaxClose = 1
    MaxBytes = 2
    MaxMark = 1
CHECK_DEADLOCK FALSE
INVARIANTS
    OnCloseIsLast
