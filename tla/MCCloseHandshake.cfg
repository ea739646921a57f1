CONSTANTS
    Docs = {d1, d2}
    MaxEdits = 3
    MaxRequests = 2
    NoRequest = NoRequest
SPECIFICATION FairSpec
CHECK_DEADLOCK FALSE
INVARIANTS
    TypeOK
    ClosedMeansFlushed
PROPERTIES
    CloseIsAnswered
