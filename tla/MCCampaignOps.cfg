CONSTANTS
    c1 = c1
    c2 = c2
    Last = 1
    PageSize = 2
    Consumers = {c1}
    Ops = {"schedule", "cancel", "retry"}
    Given = {"accepted", "transient", "permanent"}
    Day = 1
    MaxSends = 2
    MaxCopies = 1
    MaxDisturbed = 1
SPECIFICATION FairSpec
INVARIANT SentAndBooked
PROPERTY EventuallyRecorded
CHECK_DEADLOCK FALSE
