SPECIFICATION Spec
CONSTANTS
    Kinds <- BothKinds
    Arguments <- AnyArguments
    Peers = {p1}
    MaxThreads = 2
    MaxInits = 2
    MaxConnects = 1
    MaxErrors = 1
CHECK_DEADLOCK FALSE
INVARIANTS
    TypeOK
    PortsTold
    AcceptArmed
    SafeWhileServing

    
