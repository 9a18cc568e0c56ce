SPECIFICATION MCSpec
CONSTANTS
    t1 = t1
    t2 = t2
    t3 = t3
    tagA = tagA
    tagB = tagB
    Tx = {t1, t2, t3}
    Users = {1, 2, 3}
    Robots = {3}
    Tags = {tagA, tagB}
    Rosters <- Given
    Own = {2}
    Workloads <- Mixes
    c1 = c1
    c2 = c2
    user1 = user1
    user2 = user2
    a1 = a1
    a2 = a2
    nobody = nobody
    Clients = {c1, c2}
    Persons = {user1, user2}
    Addresses = {a1, a2}
    Identities <- MCIdentities
    Nobody = nobody
    MaxAuthRevision = 3
    MaxLinks = 1
    x1 = x1
    x2 = x2
    Attempts = {x1, x2}
    MaxFailedAttempts = 2
    MaxWindows = 2
    d1 = d1
    d2 = d2
    api = api
    i1 = i1
    i2 = i2
    noholder = noholder
    Deployments = {d1, d2}
    Servers = {api}
    Tools = {i1, i2}
    NoHolder = noholder
    MaxDeaths = 1
    p1 = p1
    p2 = p2
    asGiven = asGiven
    edited = edited
    g1 = g1
    g2 = g2
    missing = missing
    SourcePaths <- MCSourcePaths
    Texts = {asGiven, edited}
    Missing = missing
    Plans = {g1, g2}
    MaxEdits = 2
    MaxMishaps = 1
    nothing = nothing
    Unplanned = nothing
    Length = 3
    Records = {1, 2}
    r1 = r1
    r2 = r2
    nofile = nofile
    Preparers = {r1, r2}
    None = nofile
    MaxSources = 2
    MaximumAttempts = 2
    MaxStarts = 3
    MaxPrepareFaults = 2
    RequestAttempts = 2
    MaximumBytes = 3
INVARIANTS
    LocksInv
    OnlyAdministrationDeadlocks
    AccountInv
    FailuresBounded
    BootstrapInv
    PlanInv
    PreparedInv
SYMMETRY Twins
CHECK_DEADLOCK FALSE
