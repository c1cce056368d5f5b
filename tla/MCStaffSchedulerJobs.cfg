SPECIFICATION Spec
CONSTANTS
    h1 = h1
    h2 = h2
    k1 = k1
    k2 = k2
    Chain <- MCChain
    Hub = h2
    Keys <- TwoKeys
    RoleOf <- MCJobsOf
    Period = 2
    LeaseTtl = 1
    MaxClock = 4
    MaxFaults = 0
    Barbs = {}
INVARIANT OneActiveRunPerRole
CHECK_DEADLOCK FALSE
