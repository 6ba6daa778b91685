CONSTANTS
    Number = {f1, f2}
    Limit = 1
    MaxTime = 3
    MaxStarted = 3
    MaxFailures = 2
SPECIFICATION FairWatcherSpec
INVARIANTS
    ChangesAreAccounted
PROPERTIES
    ChangesAreSeen
CHECK_DEADLOCK FALSE
