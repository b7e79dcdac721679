SPECIFICATION ConsensusSpec
CONSTANTS
    TxTable <- MCTable
    Allocation <- MCAllocation
    GenesisBurns <- MCGenesisBurns
    Bodies <- MCBodies
    NoAnchor = 99
    MineReward = 3
    MaxAmount = 40
    GenesisBonus = 3
    TicketMaturity = 1
    TicketExpiry = 2
    InvalidationHeight = 2
    LineageMaturity = 1
    CommitteeSize = 3
    TargetTime = 4
    RecoveryDelay = 12
    FutureDrift = 1
    MedianWindow = 3
    RoundsWindow = 2
    MineWindow = 2
    MinBits = 2
    InitialBits = 3
    InitialRounds = 10
    MaxRounds = 11
    MinePerAnchor = 2
    TipBoundHeight = 99
    MaxBlockTxs = 4
    MaxBlockBytes = 9
    DrawBlocks = 2
    ResidentBlocks = 3
    MaxHeight = 4
    Seeds = {0, 2}
    Delays = {0}
    GenesisAddresses <- GenesisOwners
    TextAddresses <- Versioned
    SegmentBlocks = 2
    None = None
    BodiesAfter <- CodecBodies
    BlockByteLimit = 350
    MaxBlocks = 4
    W = 4
    Operands <- MCOperands
    Thresholds <- MCThresholds
INVARIANTS
    SupplyConserved
    KeptStateIsReplayed
    FinalizersSound
    LineageSound
    EncodingReadsBack
    VdfExact
CHECK_DEADLOCK FALSE
