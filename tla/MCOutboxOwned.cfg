CONSTANTS
    m1 = m1
    Mail <- One
    Owned <- One
    Transactional <- None
    Passes = {"cron", "user"}
    Keyed = TRUE
    MaxAttempts = 2
    Lease = 3
    CoolDown = 1
    DrainWait = 1
    RunLimit = 1
    MaxFaults = 1
SPECIFICATION FairSpec
PROPERTIES HeldForOwner EventuallySettled
CHECK_DEADLOCK FALSE
