SPECIFICATION Spec
CONSTANTS
    Production = FALSE
    Grants = {g1}
    Requests = {r1, r2}
    Workers = {w1, w2}
    NoJob = NoJob
    NoOwner = NoOwner
    MaxReconciles = 1
    MaxResumes = 1
    StoreMayFail = TRUE
    MayStall = TRUE
    HandlersMayDie = TRUE
SYMMETRY Interchangeable
INVARIANTS TypeOK WritesAreAuthorised ReconciledNeverReplayed
PROPERTIES AuthoritySpec LateWriteIsStale UnattendedByRefusal DesertedByMishap
