CONSTANTS
    Chars = {c1}
    MaxFormats = 1
    MaxTxns = 3
    MaxSequence = 3
    NoState = NoState
    NoFlight = NoFlight
SPECIFICATION Spec
INVARIANTS
    SavedFormattingIsDurable
