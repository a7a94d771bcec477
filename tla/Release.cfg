SPECIFICATION FairSpec
CONSTANTS
    Grants = {g1}
    NoGrant = NoGrant
    MaxFollowUps = 2
    MaxResumes = 1
    StoreMayFail = TRUE
    MayStall = TRUE
INVARIANTS TypeOK CapBeforeEnable FailureIsAlerted ClosedIsPaused
PROPERTIES OverspendIsAnswered
CHECK_DEADLOCK FALSE
