SPECIFICATION Spec
CONSTANTS
    Forms <- MCForms
    MaxAttempts = 2
    Delay = 1
    Grace = 0
    RecoveryAge = 1
    Lease = 2
    CoolDown = 1
    MaxFaults = 2
INVARIANT InFlightLocked
CHECK_DEADLOCK FALSE
