SPECIFICATION Spec
CONSTANTS
    MaxBytes = 1
    MaxLate = 1
CHECK_DEADLOCK FALSE
INVARIANTS
    RecvExclusive
