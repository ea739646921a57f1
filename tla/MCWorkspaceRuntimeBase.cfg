CONSTANTS
    Docs = {1, 2}
    InitialDocs = {1, 2}
    Batches = {1, 2}
    Replacing = {1}
    Unordered = {2}
    MaxOps = 2
    MaxCrashes = 0
    NoTarget = NoTarget
    NoFlight = NoFlight
    NoSave = NoSave
SPECIFICATION Spec
CHECK_DEADLOCK FALSE
PROPERTIES
    FreshQueueBaseIsExpected
