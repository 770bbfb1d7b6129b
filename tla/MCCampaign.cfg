CONSTANTS
    c1 = c1
    c2 = c2
    Last = 2
    PageSize = 1
    Consumers = {c1, c2}
    Ops = {}
    Given = {"accepted", "transient", "excluded"}
    Day = 1
    MaxSends = 1
    MaxCopies = 1
    MaxDisturbed = 1
SPECIFICATION Spec
SYMMETRY AnyConsumer
INVARIANTS OneClaimOneMessage NobodyLost
CHECK_DEADLOCK FALSE
