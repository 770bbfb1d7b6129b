CONSTANTS
    c1 = c1
    c2 = c2
    Last = 1
    PageSize = 1
    Consumers = {c1}
    Ops = {}
    Given = {"accepted", "transient"}
    Day = 1
    MaxSends = 1
    MaxCopies = 1
    MaxDisturbed = 0
SPECIFICATION FairSpec
PROPERTY StallSurfaced
CHECK_DEADLOCK FALSE
