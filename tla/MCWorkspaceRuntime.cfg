CONSTANTS
    Docs = {1, 2}
    InitialDocs = {1}
    Batches = {1, 2}
    Replacing = {1}
    Unordered = {2}
    MaxOps = 2
    MaxCrashes = 1
    NoTarget = NoTarget
    NoFlight = NoFlight
    NoSave = NoSave
SPECIFICATION FairSpec
CHECK_DEADLOCK FALSE
INVARIANTS
    TypeOK
    TargetIsItsRevision
PROPERTIES
    HistoryIsKept
    LostReceiptIsRepeated
    CallsEnd
