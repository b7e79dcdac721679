SPECIFICATION PersistenceSpec
CONSTANTS
    Branch <- OneBranch
    SegmentBlocks = 2
    NoChain = NoChain
    ResidentBlocks = 1
    FinalityDepth = 1
    MaxHeight = 4
    MayReset = FALSE
    MayCrash = TRUE
    MayTrackMetrics = TRUE
INVARIANTS
    HistoryRecoverable
    ProjectionMatchesChain
    MetricsMatchLedger
    SettledIsShown
PROPERTIES
    NewTipStored
    
CHECK_DEADLOCK FALSE
