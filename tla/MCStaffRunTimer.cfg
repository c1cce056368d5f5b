SPECIFICATION FairSpec
CONSTANTS
    NoNode = NoNode
    Roles <- RetryRole
    MaxConcurrent = 2
    MaxIds = 2
    MaxCrashes = 1
    Stubborn = {1}
    EarlyRequests = FALSE
    Faults = FALSE
PROPERTIES QueuedRunsEnd
CHECK_DEADLOCK FALSE
