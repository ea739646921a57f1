CONSTANTS
    Processes = {p1, p2}
    Works = {w1, w2}
    Latest = 3
    BoardVersion = 2
    FirstVersions <- MCFirstVersions
    MaxStarts = 4
SPECIFICATION Spec
CHECK_DEADLOCK FALSE
INVARIANTS
    OneDefaultBoard
