SPECIFICATION Spec
CONSTANTS
    q1 = q1
    q2 = q2
    q3 = q3
    p1 = p1
    p2 = p2
    Tries <- Three
    Prints <- Either
    Stale = 0
    Lease = 2
    TTL = 2
    Slow = TRUE
    MaxFaults = 1
SYMMETRY AnyOrder
INVARIANTS TypeOK OneMessage OneAnswer KeptOnceOut
CHECK_DEADLOCK FALSE
