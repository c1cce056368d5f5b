SPECIFICATION FairSpec
CONSTANTS
    NoNode = NoNode
    Roles <- SmallRoles
    MaxConcurrent = 2
    MaxIds = 3
    MaxCrashes = 1
    Stubborn = {1}
    EarlyRequests = FALSE
    Faults = FALSE
INVARIANTS CancelReachesChild SuccessReachesRoot AttemptsBounded OneWorkerPerAttempt LeaksOnlyUnrecorded
PROPERTIES RunsEndUnlessBackoffLost
CHECK_DEADLOCK FALSE
