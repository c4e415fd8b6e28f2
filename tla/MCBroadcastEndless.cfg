SPECIFICATION BroadcastSpec
CONSTANTS
  v1 = v1  v2 = v2  v3 = v3
  None = None
  Nobody = Nobody
  Validators = {v1, v2}
  AuthoritySets <- FewerAuthorities
  Chains = {"Ethereum"}
  BroadcastTimeout = 1
  SafeModeBlockMargin = 1
  RetryDelay <- MCRetryDelay
  OutOfTurn = FALSE
  MaxDelay = 2
  MaxBroadcasts = 1
  MaxSignatures = 2
  MaxSuspensions = 0
  MaxSafeModes = 0
PROPERTY
  EveryBroadcastEnds
