SPECIFICATION FairSpec
CONSTANTS
    Production = TRUE
    Grants = {g1}
    Requests = {r1}
    Workers = {w1, w2}
    NoJob = NoJob
    NoOwner = NoOwner
    MaxReconciles = 1
    MaxResumes = 1
    StoreMayFail = FALSE
    MayStall = TRUE
    HandlersMayDie = FALSE
PROPERTIES ConsumedIsAnswered AbandonedProjectIsSurfaced
