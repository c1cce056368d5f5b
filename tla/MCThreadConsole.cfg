CONSTANTS
    Writers = {w1, w2}
    Cards = {2}
    Replies = {2}
    QueueSize = 1
    HistoryPage = 2
    ReplayPage = 1
    MaxMsgs = 3
    MaxVersion = 2
    MaxBreaks = 1
SPECIFICATION ConsoleSpec
INVARIANTS
    ShownAsStored
PROPERTIES
    MessageArrives
CHECK_DEADLOCK FALSE
