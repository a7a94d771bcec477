SPECIFICATION FairSpec
CONSTANTS
    Log <- MCLog
    Dispatchers = {d1, d2}
    Nobody = Nobody
    Limit = 2
INVARIANTS TypeOK PublishedIsSent AgainIsTroubled
PROPERTIES AlertIsPublished
CHECK_DEADLOCK FALSE
