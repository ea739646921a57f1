CONSTANTS
    Plots = {a, b}
    Events = {e}
    Documents = {d}
    FirstLanes <- MCFirstLanes
    KeyLengthLimits = {3, 4}
    MaxCommands = 4
    None = None
SPECIFICATION Spec
CHECK_DEADLOCK FALSE
PROPERTIES
    RepeatedCreationIsAnswered
