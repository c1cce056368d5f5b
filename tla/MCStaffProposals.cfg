SPECIFICATION Spec
CONSTANTS
    p1 = p1
    p2 = p2
    Order <- TwoProposals
    DefaultsOf <- SilentDefaults
    Callers = {c1}
    Barb = Barb
    Asked = {p1}
    MaxApprovals = 1
    MaxFaults = 1
INVARIANTS RunnerHoldsProposal NoBlindRetry
PROPERTIES ExecutionEndsUnlessUnrecorded SilentDenialAppliedUnlessFenced
CHECK_DEADLOCK FALSE
