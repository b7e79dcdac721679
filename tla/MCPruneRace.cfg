SPECIFICATION Spec
CONSTANTS
    Branch <- TwoBranches
    SegmentBlocks = 2
    NoChain = NoChain
    ResidentBlocks = 2
    FinalityDepth = 1
    MaxHeight = 5
    MayReset = FALSE
    MayCrash = FALSE
    MayTrackMetrics = FALSE
INVARIANT
    HistoryRecoverable
CHECK_DEADLOCK FALSE
