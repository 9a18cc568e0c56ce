SPECIFICATION FairSpec
CONSTANTS
    Jobs = {j1}
    Workers = {w1, w2}
    MaxAttempts = 3
    MaxCrashes = 1
    MaxOutages = 2
INVARIANTS
    WorkerInv
PROPERTIES
    OutcomeIsFinal
    EveryJobEnds
