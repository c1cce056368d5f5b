SPECIFICATION Spec
CONSTANTS
    a = a
    b = b
    c = c
    r1 = r1
    r2 = r2
    NoNode = NoNode
    Nodes = {a, b, c}
    Runs = {r1, r2}
    Home <- HomeApart
    First = a
    MaxCards = 1
    MaxEpoch = 2
    Deviations = {"unreachable", "live_fence"}
PROPERTY StagedFinalCardDelivered
CHECK_DEADLOCK FALSE
