CONSTANTS
    Contents <- MCContents
    Places = {p1, p2}
    MaxRevisions = 2
    MaxCommands = 2
    MaxFaults = 2
    None = None
SPECIFICATION FairSpec
CHECK_DEADLOCK FALSE
INVARIANTS
    TypeOK
PROPERTIES
    PublishedBundleIsWhole
    RestoredIsWhole
    NothingIsOverwritten
    CommandsEnd
