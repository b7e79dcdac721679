SPECIFICATION SessionsSpec
CONSTANTS
    ListenAddr <- Listen
    MaxTotal = 3
    MaxDiscovered = 1
    MaxPerIp = 1
    MaxPerGroup = 2
    BanScore = 2
    Addrs <- AllAddrs
    Remotes <- AllRemotes
    NodeAt <- WhoListens
    Self = "me"
    AnnounceAddr <- None
    Configured <- ConfiguredPeers
    MaxInbound = 1
    MaxInboundPerIp = 1
    MaxAccepts = 2
    QueueLimit = 1
    InboundQueueLimit = 1
    GlobalQueueLimit = 2
    MaxDials = 1
    InitialAttempts = 2
    Tasks = {1, 2}
    Channels = {1, 2, 3, 4}
    Events <- EventsOf
    Plots = {"gossip", "inbound", "ban", "discover", "operator"}
INVARIANTS SessionsAccounted KnownIsTheirs
PROPERTIES BanKept PeerServed
CHECK_DEADLOCK FALSE
