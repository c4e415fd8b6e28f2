SPECIFICATION AuthoritiesSpec
CONSTANTS
  Parts = {"key", "authorities"}
  Validators = {v1, v2, f1, f2}
  Faulty = {f1, f2}
  Epochs = {0, 1, 2}
  Keys = {k1, k2}
  AuthoritiesAt <- MCAuthoritiesAt
  Callbacks <- RotationCallbacks
  NoCallback = NoCallback
  None = None
  Timeouts = {1}
  CeremonyRetryDelay = 1
  MaxDelay = 1
  MaxRequests = 1
  MaxCeremonies = 2
  CandidateSets <- MCCandidateSets
  SharingSets <- MCCandidateSets
  HandoverRequired = TRUE
  HandoverMatches <- MCHandoverMatches
  GenesisVaults <- ChainWithVault
  KeygenTimeouts = {1}
  MaxWait = 1
  b1 = b1  b2 = b2  b3 = b3  b4 = b4
  Bidders = {b1, b2, b3, b4}
  Rotators = {evm, bitcoin}
  HandoverRotators = {bitcoin}
  Bid <- MCBid
  Genesis <- MCGenesis
  Parameters <- TwoSizes
  Cutoff = 30
  Contraction = 30
  OffenderSets <- AnyOffender
INVARIANTS
    HonestAreSafe
PROPERTIES
    RotationIsSound
    RotationIsDecided
