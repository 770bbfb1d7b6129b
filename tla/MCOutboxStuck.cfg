CONSTANTS
    m1 = m1
    Mail <- One
    Owned <- None
    Transactional <- None
    Passes = {"drain", "user"}
    Keyed = TRUE
    MaxAttempts = 2
    Lease = 3
    CoolDown = 1
    DrainWait = 1
    RunLimit = 1
    MaxFaults = 0
SPECIFICATION Spec
INVARIANT NoStuckRetrying
CHECK_DEADLOCK FALSE
