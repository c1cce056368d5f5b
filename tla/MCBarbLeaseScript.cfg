SPECIFICATION Spec
CONSTANTS
    s1 = s1
    s2 = s2
    n1 = n1
    n2 = n2
    Holders = {s1, n1}
    NoHolder = NoHolder
    CallerOf <- MCCallerOf
    BarbSeats = {s1}
    Nodes = {n1}
    RemoteHolders = {s1}
    Mode = "enforce"
    CliOverlaps = TRUE
    Ttl = 1
    MaxWait = 1
    MaxTime = 1
    MaxEpoch = 3
    MaxTask = 2
INVARIANTS NoTakeoverDuringWrite
