SPECIFICATION Spec
CONSTANTS
    NoNode = NoNode
    Roles <- ChainRole
    MaxConcurrent = 2
    MaxIds = 4
    MaxCrashes = 0
    Stubborn = {1}
    EarlyRequests = FALSE
    Faults = FALSE
INVARIANTS AttemptsBounded
CHECK_DEADLOCK FALSE
