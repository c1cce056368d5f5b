SPECIFICATION Spec
CONSTANTS
    k1 = k1
    q1 = q1
    q2 = q2
    a = a
    b = b
    Keys = {k1}
    Reqs = {q1, q2}
    KeyOf <- MCKeyOf
    PayloadsOf <- MCPayloadsOf
    MaxOps = 3
    MaxFaults = 0
INVARIANT RetakeFindsRun
CHECK_DEADLOCK FALSE
