SPECIFICATION MCSpec
CONSTANTS
    h1 = h1
    h2 = h2
    b1 = b1
    b2 = b2
    i1 = i1
    i2 = i2
    c1 = c1
    c2 = c2
    Humans = {h1}
    Robots = {}
    Contents = {c1, c2}
    Policies <- BothPolicies
    Ids = {i1}
    Opinions = {"approve", "changes"}
    MaxRounds = 2
    MaxRevision = 4
    MaxRequests = 1
    MaxClaims = 1
    MaxLease = 0
    MaxCatalog = 1
PROPERTIES
    OpinionsAreCurrent
CHECK_DEADLOCK FALSE
