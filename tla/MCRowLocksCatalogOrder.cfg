SPECIFICATION Spec
CONSTANTS
    t1 = t1
    t2 = t2
    t3 = t3
    tagA = tagA
    tagB = tagB
    Tx = {t1, t2, t3}
    Users = {1, 2, 3}
    Robots = {3}
    Tags = {tagA, tagB}
    Rosters <- Given
    Own = {2}
    Workloads <- Mixes
INVARIANT CatalogOrderIsSafe
SYMMETRY Twins
CHECK_DEADLOCK FALSE
