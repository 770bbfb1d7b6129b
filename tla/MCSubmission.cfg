SPECIFICATION FairSpec
CONSTANTS
    Forms <- MCForms
    MaxAttempts = 2
    Delay = 1
    Grace = 0
    RecoveryAge = 1
    Lease = 2
    CoolDown = 1
    MaxFaults = 1
INVARIANTS SentOnce EmailKept StatesTell
PROPERTIES Undoable Settles
CHECK_DEADLOCK FALSE
