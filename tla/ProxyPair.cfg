SPECIFICATION Spec
CONSTANTS
    MaxBytes = 3
    MaxLate = 1
CHECK_DEADLOCK FALSE
INVARIANTS
    TypeOK
    PairKept
    RelayExact
PROPERTIES
    Released
    BytesMove
