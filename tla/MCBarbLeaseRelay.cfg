SPECIFICATION Spec
CONSTANTS
    s1 = s1
    s2 = s2
    n1 = n1
    n2 = n2
    Holders = {n1, n2}
    NoHolder = NoHolder
    CallerOf <- MCCallerOf
    BarbSeats = {}
    Nodes = {n1, n2}
    RemoteHolders = {}
    Mode = "enforce"
    CliOverlaps = FALSE
    Ttl = 1
    MaxWait = 1
    MaxTime = 2
    MaxEpoch = 3
    MaxTask = 2
INVARIANTS RelayClaimIsOwn
