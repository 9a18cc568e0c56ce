SPECIFICATION MCSpec
CONSTANTS
    r1 = r1
    r2 = r2
    a1 = a1
    a2 = a2
    q1 = q1
    q2 = q2
    Parts = {"migration", "batch"}
    Runs = {r1, r2}
    Approvals = {a1, a2}
    Approvable = {"original"}
    MaxFaults = 3
    Importers = {q1, q2}
    MaxPackages = 2
    MaxSlips = 3
INVARIANTS
    HistoryInv
    CopiesSurvive
    BatchInv
PROPERTIES
    HistoryEnds
CHECK_DEADLOCK FALSE
