CONSTANTS
    Totals <- MCTotals
    SliceSize = 2
    PartSize = 3
    Slots <- MCSlots
    MaxAttempts = 2
    MaxRecoveries = 1
    Idle = 2
    MaxFaults = 2
    None = None
SPECIFICATION FairSpec
INVARIANTS Resumable EndsClean
PROPERTY ExportEnds
CHECK_DEADLOCK FALSE
