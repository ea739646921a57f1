CONSTANTS
    Chars = {c1, c2, c3}
    MaxFormats = 2
    MaxTxns = 2
    MaxSequence = 4
    NoState = NoState
    NoFlight = NoFlight
SPECIFICATION FairSpec
INVARIANTS
    TypeOK
    TextAccounted
    SavedTextIsDurable
    SentSavesAreAcceptable
    NoOrphanedWork
    HeldTextIsComposed
PROPERTIES
    RetryIsIdentical
    WorkSettles
