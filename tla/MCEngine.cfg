SPECIFICATION Spec
CONSTANTS
    Parts = {"watcher", "signer", "runner", "p2p", "sources", "blocks"}
    Plans <- MCPlans
    ExtrinsicLifetime = 3
    RequestLifetime = 1
    MaxFork = 1
    MaxLag = 1
    SignerLoads <- MCSignerLoads
    MaxBroadcastRetries = 2
    NonceMax = 5
    Histories <- MCHistories
    OldVersion <- MCOldVersion
    NewVersion <- MCNewVersion
    BLOCK_CAPACITY = 2
    Networks <- MCNetworks
    Us = "us"
    OtherPeers = {"a", "b"}
    PeerKeys = {"k0", "k1", "k2"}
    PeerAddresses = {"h1", "h2"}
    ReconnectIntervalMax = 3
    Chains <- MCChains
    MaxHeight = 6
    BlockPlans <- MCBlockPlans
INVARIANTS
    SubmissionsAreTracked
    PeersAreReachable
    HeadersAreSafe
    ReportsAreTrue
PROPERTIES
    EveryBlockIsHandled
CHECK_DEADLOCK FALSE
