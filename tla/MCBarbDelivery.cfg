SPECIFICATION FairSpec
CONSTANTS
    CardKeys = {r1}
    SignalKeys = {}
    NoNode = NoNode
    Nodes = {a, b}
    Hub = a
    MaxVersion = 2
    MaxEpoch = 2
    PruneEvery = 2
    MaxRows = 0
    Batch = 1
    Sizes = {1}
    MaxEntries = 2
    MaxBytes = 2
    Limit = 2
    Backoffs = {0, 1}
    Faults = FALSE
    MaxIds = 3
    MaxLate = 2
    MaxRestarts = 2
INVARIANTS DeliveredIsCommitted
PROPERTIES FinalCardsArrive
