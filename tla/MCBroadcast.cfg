SPECIFICATION BroadcastSpec
CONSTANTS
  v1 = v1  v2 = v2  v3 = v3
  None = None
  Nobody = Nobody
  Validators = {v1, v2, v3}
  AuthoritySets <- TwoEpochs
  Chains = {"Ethereum", "Polkadot"}
  BroadcastTimeout = 1
  SafeModeBlockMargin = 1
  RetryDelay <- MCRetryDelay
  OutOfTurn = FALSE
  MaxDelay = 2
  MaxBroadcasts = 2
  MaxSignatures = 2
  MaxSuspensions = 1
  MaxSafeModes = 1
INVARIANTS
  BroadcastsAreTracked
  RotationIsABarrier
PROPERTY
  EveryBroadcastEnds
