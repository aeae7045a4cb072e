CONSTANTS
    FifoDepth = 3
    PollTicks = 8
    PrintTicks = 15
    WriteTicks = 12
    SpreadTicks = 25
    PageFrames = 32
    Pages = 1
    TailFrames = 3
    Gaps = {1, 3, 6}
    MaxAttempts = 3
    MaxSurveys = 2
SPECIFICATION FairSpec
INVARIANTS
    StreamTypeOK
    PacedLosesNothing
    DisturbedRecovers
    HopelessFails
PROPERTIES
    StreamEnds
CHECK_DEADLOCK FALSE
