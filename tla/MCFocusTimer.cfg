CONSTANTS
    Plans <- MCPlans
    MaxTime = 4
    MaxStarts = 1
    MaxLaunches = 2
    None = None
SPECIFICATION FairSpec
CHECK_DEADLOCK FALSE
INVARIANTS
    TypeOK
    OneActivePhase
    PhasesFollowPlan
    TimeIsCountedOnce
PROPERTIES
    LaunchStopsTimers
    DuePhaseIsCompleted
