SPECIFICATION CodecSpec
CONSTANTS
    GenesisAddresses <- GenesisOwners
    TextAddresses <- Versioned
    SegmentBlocks = 2
    None = None
    BodiesAfter <- CodecBodies
    BlockByteLimit = 350
    MaxBlocks = 4
INVARIANT BuiltBlockFits
CHECK_DEADLOCK FALSE
