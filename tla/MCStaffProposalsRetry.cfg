SPECIFICATION Spec
CONSTANTS
    p1 = p1
    p2 = p2
    Order <- OneProposal
    DefaultsOf <- AnyDefault
    Callers = {c1, c2}
    Barb = Barb
    Asked = {p1}
    MaxApprovals = 1
    MaxFaults = 0
INVARIANT RetryNeedsDecision
CHECK_DEADLOCK FALSE
