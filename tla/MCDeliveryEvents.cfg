SPECIFICATION EventFairSpec
CONSTANTS
    s1 = s1
    s2 = s2
    s3 = s3
    s4 = s4
    h = h
    c = c
    p = p
    f = f
    h2 = h2
    r1 = r1
    r2 = r2
    r3 = r3
    k1 = k1
    k2 = k2
    Events = {s1, s2, s3, s4, h, c, p, f}
    Kind <- MCKind
    OccurredAt <- MCOccurredAt
    Messages = {s1, s2, s3, s4, h, c, p, f, h2}
    About <- MCAbout
    Campaigns = {k1, k2}
    Requests = {r1, r2, r3}
    Scenes <- MCScenes
    SoftBounceThreshold = 3
    SoftBounceWindow = 4
    UndoWindow = 1
    MaxRepeats = 1
INVARIANTS ProviderDecides OffTheList EventsReach
PROPERTIES UndoIsWhole EventsRecorded
CHECK_DEADLOCK FALSE
