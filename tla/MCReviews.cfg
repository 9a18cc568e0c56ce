SPECIFICATION MCSpec
CONSTANTS
    h1 = h1
    h2 = h2
    b1 = b1
    b2 = b2
    i1 = i1
    i2 = i2
    c1 = c1
    c2 = c2
    Humans = {h1, h2}
    Robots = {b1, b2}
    Contents = {c1, c2}
    Policies <- BothPolicies
    Ids = {i1, i2}
    Opinions = {"approve", "changes"}
    MaxRounds = 2
    MaxRevision = 4
    MaxRequests = 1
    MaxClaims = 2
    MaxLease = 1
    MaxCatalog = 2
INVARIANTS
    ReviewInv
    RobotInv
PROPERTIES
    ClosedRoundsAreFinal
    FrozenNeedsAudit
    StatusMovesAreLegal
    RobotOpinionsAreCurrent
    AnswersAreFinal
SYMMETRY Interchangeable
