CONSTANTS
    Docs = {d1, d2}
    MaxBatches = 3
    MaxFailures = 1
    MaxCrashes = 2
    MaxReloads = 1
    NoBatch = NoBatch
    Torn = Torn
    Absent = Absent
    Partial = Partial
SPECIFICATION FairSpec
CHECK_DEADLOCK FALSE
INVARIANTS
    TypeOK
    RecoveryIsExact
    CompactionIsSafe
PROPERTIES
    CallsEnd
