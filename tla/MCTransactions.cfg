SPECIFICATION TransactionsSpec
CONSTANTS
    TxTable <- MCPoolTable
    Allocation <- MCPoolAllocation
    GenesisBurns <- MCPoolGenesisBurns
    OtherBodies <- MCOtherBodies
    Miners = {1}
    NoAnchor = 99
    MineReward = 3
    MaxAmount = 60
    GenesisBonus = 3
    TicketMaturity = 1
    TicketExpiry = 2
    InvalidationHeight = 2
    LineageMaturity = 1
    CommitteeSize = 2
    TargetTime = 4
    RecoveryDelay = 12
    FutureDrift = 1
    MedianWindow = 3
    RoundsWindow = 2
    MineWindow = 4
    MinBits = 1
    InitialBits = 3
    InitialRounds = 10
    MaxRounds = 20
    MinePerAnchor = 1
    TipBoundHeight = 2
    MaxBlockTxs = 3
    MaxBlockBytes = 4
    DrawBlocks = 2
    ResidentBlocks = 3
    MaxPending = 3
    MaxOrphans = 2
    MaxPoolBytes = 4
    MaxChain = 2
    MaxForks = 1
    GapLimit = 1
    MaxDiscovered = 9
    MaxTxs = 3
    MaxRestarts = 1
    StartWallets <- MCWallets
    Payments <- MCPayments
    AskedAmounts <- MCAmounts
    Rates <- MCRates
    BatchInputs = 3
    MaxBatches = 2
    MigrationInputs = 3
    MaxTxBytes = 9000
    ChainIdBytes = 4
    FeeRounds = 6
    MaxRequests = 2
    MaxArrivals = 1
    c1 = c1
    c2 = c2
    alice = alice
    bob = bob
    home = home
    Clients = {c1, c2}
    SourceOf <- MCSourceOf
    Workers = {alice, bob}
    Wallets = {alice}
    Winning = {1}
    NonceLimit = 3
    SearchAttempts = 1
    AnchorLimit = 1
    AnchorAge = 1
    SessionLimit = 2
    SourceLimit = 2
    JobLimit = 2
    MaxTips = 3
    MaxSalt = 4
CONSTRAINT MCMiningFocus
INVARIANTS
    PoolIsSound
    
    AddressesAreKept
    WalletBuildsAsAsked
    
PROPERTIES
    EvictionPaysBetter
    SharePaysItsWorker
CHECK_DEADLOCK FALSE
