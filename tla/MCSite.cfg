SPECIFICATION MCSpec
CONSTANTS
    p1 = p1
    p2 = p2
    s1 = s1
    s2 = s2
    d1 = d1
    d2 = d2
    Pages = {p1, p2}
    Sites = {s1, s2}
    ClientIds = {d1, d2}
    DeploymentMail = FALSE
    MaxSaves = 3
    a1 = a1
    k1 = k1
    k2 = k2
    Attempts = {a1}
    Calls = {k1, k2}
    MaxSessions = 2
    e1 = e1
    e2 = e2
    u1 = u1
    u2 = u2
    q1 = q1
    Editors = {e1, e2}
    UserOf <- Authors
    Persons = {u1, u2}
    Bank = {q1}
    Offered <- Lists
    Permits <- Allowances
    LastRevision = 2
    Instants = 4
    c1 = c1
    c2 = c2
    c3 = c3
    Passages = {c1, c2, c3}
    MaxRevision = 3
    r1 = r1
    r2 = r2
    f1 = f1
    i1 = i1
    Transfers = {r1, r2}
    Earlier = f1
    RequestKeys = {i1}
    LastPicked = 3
    MaxPlans = 2
    MaxFormats = 2
    MaxChanges = 1
INVARIANTS
    SettingsInv
    LoginInv
    ContestInv
    EditorInv
    TransferInv
CHECK_DEADLOCK FALSE
SYMMETRY
    Interchangeable
