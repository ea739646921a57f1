CONSTANTS
    Plots = {a, b, c}
    Events = {e, f}
    Documents = {d}
    FirstLanes <- MCFirstLanes
    KeyLengthLimits = {3, 4}
    MaxCommands = 4
    None = None
SPECIFICATION Spec
SYMMETRY Symmetry
CHECK_DEADLOCK FALSE
INVARIANTS
    TypeOK
    LinksAreSingle
PROPERTIES
    OrderIsKept
    MovesGoWhereShown
