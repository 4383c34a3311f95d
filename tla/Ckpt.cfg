\* Two saves, one milestone kept, one retry; the uploads of latest.* may fail.
SPECIFICATION FairSpec
CONSTANTS
    MaxSaves = 2
    Flaky = {1, 2}
    KeepLast = 1
    MaxRetries = 1
INVARIANTS
    NothingIsMissed
    MilestonesAreBounded
PROPERTIES
    EveryFileIsDealtWith
