SPECIFICATION FairSpec
CONSTANTS
    p1 = p1
    p2 = p2
    p3 = p3
    s1 = s1
    k1 = k1
    k2 = k2
    k3 = k3
    Prepares = {p1, p2, p3}
    Syncs = {s1}
    Plans <- MCPlans
    Attempts <- MCAttempts
    Workers = {w1, w2}
    Approvers = {}
    Nobody = Nobody
    MaxJobs = 2
PROPERTIES PlanningMovesOn
CHECK_DEADLOCK FALSE
