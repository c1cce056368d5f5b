SPECIFICATION Spec
CONSTANTS
    NoNode = NoNode
    Roles <- RetryRole
    MaxConcurrent = 2
    MaxIds = 2
    MaxCrashes = 0
    Stubborn = {1}
    EarlyRequests = TRUE
    Faults = FALSE
PROPERTIES FailedByItsWorker
CHECK_DEADLOCK FALSE
