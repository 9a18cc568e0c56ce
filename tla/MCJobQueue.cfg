SPECIFICATION Spec
CONSTANTS
    j1 = j1
    j2 = j2
    k1 = k1
    k2 = k2
    d1 = d1
    d2 = d2
    i1 = i1
    Jobs = {j1, j2}
    Keys = {k1, k2}
    Digests = {d1, d2}
    Requests <- Colliding
    Percents <- SomePercents
    Items = {i1}
    MaxReports = 1
    MaxAttempts = 2
    LeaseMs = 2
    RetryDelayMs = 1
    MaxTime = 4
INVARIANTS
    Inv
PROPERTIES
    TerminalIsFinal
    LeaseHandover
    ImplementsLifecycle
