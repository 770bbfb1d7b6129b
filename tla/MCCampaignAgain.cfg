CONSTANTS
    c1 = c1
    c2 = c2
    Last = 1
    PageSize = 1
    Consumers = {c1, c2}
    Ops = {"retry"}
    Given = {"accepted", "transient", "permanent"}
    Day = 1
    MaxSends = 2
    MaxCopies = 1
    MaxDisturbed = 1
SPECIFICATION Spec
SYMMETRY AnyConsumer
INVARIANTS OneClaimOneMessage NobodyLost
CHECK_DEADLOCK FALSE
