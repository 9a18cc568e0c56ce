SPECIFICATION MCSpec
CONSTANTS
    r1 = r1
    r2 = r2
    a1 = a1
    a2 = a2
    q1 = q1
    q2 = q2
    Parts = {"migration"}
    Runs = {r1}
    Approvals = {a1}
    Approvable = {"original"}
    MaxFaults = 2
    Importers = {q1}
    MaxPackages = 1
    MaxSlips = 0
INVARIANTS
    FailedMeansRecoverable
CHECK_DEADLOCK FALSE
