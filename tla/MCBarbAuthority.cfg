SPECIFICATION Spec
CONSTANTS
    NoNode = NoNode
    Runs = {r1}
    Statuses = {"running", "succeeded", "failed"}
    Nodes = {a, b}
    Local = a
    MaxVersion = 4
    MaxEpoch = 2
    PruneEvery = 2
    MaxRows = 1
    Batch = 2
INVARIANTS TypeOK HeadReceiptKept AppliedOnce FenceCoversReceipts EpochsNeverFallBack
PROPERTIES FenceMonotone ImplementsRegister
