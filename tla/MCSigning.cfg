SPECIFICATION SigningSpec
CONSTANTS
  Parts = {"signing"}
  Validators = {v1, v2}
  Faulty = {}
  Epochs = {0, 1, 2}
  Keys = {k1}
  AuthoritiesAt <- MCAuthoritiesAt
  Callbacks = {on_signature_ready}
  NoCallback = NoCallback
  None = None
  Timeouts = {1, 2}
  CeremonyRetryDelay = 1
  MaxDelay = 2
  MaxRequests = 2
  MaxCeremonies = 3
  CandidateSets <- MCCandidateSets
  SharingSets <- MCCandidateSets
  HandoverRequired = TRUE
  HandoverMatches <- MCHandoverMatches
  GenesisVaults <- AnyActiveKey
  KeygenTimeouts = {1}
  MaxWait = 1
  b1 = b1  b2 = b2  b3 = b3  b4 = b4
  Bidders = {b1, b2, b3, b4}
  Rotators = {evm, bitcoin}
  HandoverRotators = {bitcoin}
  Bid <- MCBid
  Genesis <- MCGenesis
  Parameters <- TwoSizes
  Cutoff = 30
  Contraction = 30
  OffenderSets <- AnyOffender
PROPERTIES
    RequestsAreTracked
    CeremoniesEnd
    KeepsPromise
