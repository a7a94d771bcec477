SPECIFICATION Spec
CONSTANTS
    p1 = p1
    p2 = p2
    p3 = p3
    s1 = s1
    k1 = k1
    k2 = k2
    k3 = k3
    Prepares = {p1, p2}
    Syncs = {}
    Plans <- MCPlans
    Attempts <- MCAttempts
    Workers = {w1, w2}
    Approvers = {a1, a2}
    Nobody = Nobody
    MaxJobs = 2
INVARIANTS TypeOK PlansAreOnRecord ConfirmedIsActive
SYMMETRY Interchangeable
CHECK_DEADLOCK FALSE
