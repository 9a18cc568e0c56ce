SPECIFICATION MCSpec
CONSTANTS
    task1 = task1
    Task = task1
    Jobs = {task1}
    Problems = 2
    MaxAttempts = 2
    MaxRestarts = 1
    MaxFaults = 1
    search1 = search1
    search2 = search2
    Searches = {search1, search2}
    Contents = {1, 2}
    RetryAttempts = 2
    MaxSaves = 4
    MaxUpdates = 1
    MaxDisturbances = 1
INVARIANTS
    ImportInv
    ChecksInv
PROPERTIES
    TaskOnlyAdvances
    QueuedImportEnds
    SearchesEnd
CHECK_DEADLOCK FALSE
