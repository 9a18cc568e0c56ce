SPECIFICATION MCSpec
CONSTANTS
    task1 = task1
    u1 = u1
    u2 = u2
    p1 = p1
    p2 = p2
    none = none
    v1 = v1
    s1 = s1
    s2 = s2
    r1 = r1
    r2 = r2
    Task = task1
    Jobs = {task1}
    MaxAttempts = 2
    Problems = 1
    MaxRestarts = 1
    MaxFaults = 1
    Uploads = {u1, u2}
    Paths = {p1, p2}
    NoProgram = none
    MaxRevision = 4
    MaxMishaps = 1
    Events = {v1}
    Senders = {s1, s2}
    MaxTrouble = 2
    Requests = {r1, r2}
    MaxOperations = 2
    MaxFailures = 2
INVARIANTS
    ExportInv
    FilesInv
    MailInv
    SiteBackupInv
PROPERTIES
    EffectsEnd
CHECK_DEADLOCK FALSE
