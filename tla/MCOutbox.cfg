CONSTANTS
    m1 = m1
    Mail <- One
    Owned <- None
    Passes = {"cron", "drain", "user"}
    Transactional <- One
    Keyed = FALSE
    MaxAttempts = 2
    Lease = 3
    CoolDown = 1
    DrainWait = 1
    RunLimit = 1
    MaxFaults = 1
SPECIFICATION Spec
INVARIANTS TypeOK OneAttemptPerRow NoDuplicate BudgetKept SentAgrees
CHECK_DEADLOCK FALSE
