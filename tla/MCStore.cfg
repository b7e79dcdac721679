SPECIFICATION StoreSpec
CONSTANTS
    Branch <- TwoBranches
    SegmentBlocks = 2
    NoChain = NoChain
    ResidentBlocks = 1
    FinalityDepth = 1
    MaxHeight = 4
    MayReset = TRUE
    MayCrash = TRUE
    MayTrackMetrics = TRUE
INVARIANTS
    StoreConsistent
    StoreInv
PROPERTIES
    ImplementsDurableChain
    DepthRespected
