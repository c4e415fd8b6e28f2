SPECIFICATION Spec
CONSTANTS
    NoLimit = NoLimit
    Loads <- MCLoads
    MaxRequests = 3
    MaximumSubmissions = 1
    AttemptMax = 2
    Scenarios <- MCScenarios
    heartbeat_block_interval = 3
    HEARTBEAT_SAFETY_MARGIN = 1
    MAX_BTC_SIGNING_PAYLOADS = 2
    ScopePlans <- MCScopePlans
    Vaults <- MCVaults
    EpochPlans <- MCEpochPlans
    CHANNEL_BUFFER = 1
PROPERTIES
    RequestsAreServed
    RequestsAreFollowed
    ScopesHoldTheirTasks
    WitnessingIsComplete
CHECK_DEADLOCK FALSE
