SPECIFICATION FeedFairSpec
CONSTANTS
    IsGroup = TRUE
    MaxId = 3
    PollLimit = 1
    MaxFaults = 1
    MaxEdits = 1
INVARIANTS
    GapsExplained
PROPERTIES
    CursorMovesBackOnlyAtStart
    CursorCatchesUp
