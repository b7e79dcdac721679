SPECIFICATION ForksSpec
CONSTANTS
    ActivationHeight = 2
    FinalityDepth = 2
    Nodes = {n1, n2}
    Tx = {t1}
    Hashes = {1, 2, 3, 4, 5}
    Shapes <- AroundActivation
    MaxHeight = 3
    NoJob = NoJob
    NoWork = NoWork
SYMMETRY NodeSymmetry
INVARIANTS
    SyncInv
    CheckpointOnOwnChain
    NeverBothSwitch
    NoTransactionTwice
PROPERTIES
    ChainOnlyImproves
    BuriedHistoryFrozen
