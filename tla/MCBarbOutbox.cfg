SPECIFICATION Spec
CONSTANTS
    CardKeys = {k1}
    SignalKeys = {s1}
    MaxVersion = 3
    Sizes = {1, 2}
    MaxEntries = 2
    MaxBytes = 3
    Limit = 2
    Backoffs = {0, 1}
    Faults = TRUE
    MaxIds = 4
INVARIANTS WithinBounds LowerVersionsFirst
PROPERTIES NeverSilentlyDropped
