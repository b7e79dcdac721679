SPECIFICATION FairFinalSpec
CONSTANTS
    Ranked <- TwoRanked
    Finalizers = {1, 2}
    CommitteeLimit = 5
    ObjectiveHeight = 2
    TopRankPercent = 100
    CollectTime = 1
    SlotTime = 1
    RecoveryTime = 2
    AnchorLead = 1
    BundleLimit = 2
    Faults = {"fork", "restart", "off"}
    LastHeight = 1
INVARIANTS
    BundlesSound
    PreparedIsAcceptable
PROPERTY ChainAdvances
CHECK_DEADLOCK FALSE
