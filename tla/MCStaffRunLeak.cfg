SPECIFICATION Spec
CONSTANTS
    NoNode = NoNode
    Roles <- RetryRole
    MaxConcurrent = 2
    MaxIds = 2
    MaxCrashes = 1
    Stubborn = {1}
    EarlyRequests = FALSE
    Faults = FALSE
INVARIANTS NoKnownProcessLeaks
CHECK_DEADLOCK FALSE
