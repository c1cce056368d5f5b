SPECIFICATION Spec
CONSTANTS
    p1 = p1
    p2 = p2
    Order <- TwoProposals
    DefaultsOf <- SilentDefaults
    Callers = {c1}
    Barb = Barb
    Asked = {p1}
    MaxApprovals = 1
    MaxFaults = 0
PROPERTIES SilentDenialApplied
CHECK_DEADLOCK FALSE
