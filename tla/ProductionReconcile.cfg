SPECIFICATION Spec
CONSTANTS
    Production = TRUE
    Grants = {g1}
    Requests = {r1}
    Workers = {w1, w2}
    NoJob = NoJob
    NoOwner = NoOwner
    MaxReconciles = 1
    MaxResumes = 0
    StoreMayFail = FALSE
    MayStall = FALSE
    HandlersMayDie = FALSE
SYMMETRY Interchangeable
INVARIANTS ReconciliationMovesOn
