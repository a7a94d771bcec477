SPECIFICATION FairSpec
CONSTANTS
    write = write
    prepare = prepare
    w1 = w1
    w2 = w2
    w3 = w3
    Jobs = {write, prepare}
    Workers = {w1, w2}
    NoJob = NoJob
    NoOwner = NoOwner
    Kind <- KindTwo
    MaxResumes = 1
    StoreMayFail = TRUE
INVARIANTS TypeOK RunsAreAuthorised LatestRunDecides
PROPERTIES LifecycleSpec AbandonedIsPickedUp
