SPECIFICATION LogFairSpec
CONSTANTS
    Author = author
    Other = other
    Scenes <- MCScenes
    PageSizes = {1, 3}
    DayLength = 2
    Retention = 4
    StateMaxAge = 2
    WindowLimit = 3
    PruneLimit = 1
INVARIANT NothingMissed
PROPERTIES DestroyedIsGone CatchesUp
CHECK_DEADLOCK FALSE
