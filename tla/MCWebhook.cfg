SPECIFICATION FairSpec
CONSTANTS
    d1 = d1
    c1 = c1
    c2 = c2
    Deliveries <- One
    Consumers <- Two
    MaxAttempts = 2
    Threshold = 2
    MaxEras = 2
    MaxCopies = 1
    MaxFaults = 1
INVARIANT PostsSettled
PROPERTIES StreakFollows EventuallyEnded
CHECK_DEADLOCK FALSE
