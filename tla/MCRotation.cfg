SPECIFICATION KeySpec
CONSTANTS
  Parts = {"key"}
  Validators = {v1, v2}
  Faulty = {}
  Epochs = {0, 1, 2}
  Keys = {k1, k2}
  AuthoritiesAt <- MCAuthoritiesAt
  Callbacks <- RotationCallbacks
  NoCallback = NoCallback
  None = None
  Timeouts = {1}
  CeremonyRetryDelay = 1
  MaxDelay = 1
  MaxRequests = 2
  MaxCeremonies = 5
  CandidateSets <- MCCandidateSets
  SharingSets <- MCCandidateSets
  HandoverRequired = TRUE
  HandoverMatches <- MCHandoverMatches
  GenesisVaults <- AllChains
  KeygenTimeouts = {1, 2}
  MaxWait = 2
  b1 = b1  b2 = b2  b3 = b3  b4 = b4
  Bidders = {b1, b2, b3, b4}
  Rotators = {evm, bitcoin}
  HandoverRotators = {bitcoin}
  Bid <- MCBid
  Genesis <- MCGenesis
  Parameters <- TwoSizes
  Cutoff = 30
  Contraction = 30
  OffenderSets <- AnyOffender
PROPERTIES
    KeysAreVerified
    IsARotator
    StagesEnd
