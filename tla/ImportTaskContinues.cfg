SPECIFICATION Spec
CONSTANTS
    Task = task1
    Jobs = {task1}
    Problems = 2
    MaxAttempts = 2
    MaxRestarts = 0
    MaxFaults = 1
INVARIANTS
    PartialImportContinues
CHECK_DEADLOCK FALSE
