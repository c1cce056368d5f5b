SPECIFICATION Spec
CONSTANTS
    a = a
    b = b
    c = c
    r1 = r1
    r2 = r2
    NoNode = NoNode
    Nodes = {a, b, c}
    Runs = {r1, r2}
    Home <- HomeApart
    First = a
    MaxCards = 1
    MaxEpoch = 3
    Deviations = {"unreachable", "undrained", "live_fence"}
INVARIANTS OneWriterPerEpoch NoSplitWrites FinalCardsSurvive
PROPERTIES DeliveredUnlessFencedLive
CHECK_DEADLOCK FALSE
