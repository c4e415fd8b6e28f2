SPECIFICATION Spec
CONSTANTS
  Parts = {"deposits", "swaps", "pools"}
  NoChannel = NoChannel
  ScaleFactor = 3
  BasisPointsMax = 10
  Boosters = {l1, l2}
  ChainAssets = {Eth, Usdc}
  GasAsset = Eth
  BoostAsset = Eth
  Tiers = {2, 4}
  MaxChannels = 2
  DepositChannelLifetime = 2
  WitnessDelay = 1
  DepositAmounts = {2, 3}
  BoostAmounts = {2}
  WithdrawAmounts = {1}
  MinimumDeposits = {3}
  Fees = {1}
  DepositDustLimit = 1
  BoosterBalance = 4
  DepositBudgets <- MCDepositBudgets
  Brokers = {b1, b2}
  NetworkFee = 500
  EgressFee <- MCEgressFee
  EgressDustLimit <- MCDustLimit
  SwapPriceOne = 10
  Markets <- MCMarkets
  LastSwapBlock = 9
  SwapBudgets <- MCSwapBudgets
  OneInHundredthPips = 4
  SqrtPriceOne = 8
  PriceOne = 16
  FeeGrowthOne = 64
  Width = 8
  MaxFixedPoolLiquidity = 15
  MinTick <- MCMinTick
  MaxTick = 2
  SqrtPriceAtTick <- MCSqrtPrice
  MaxTickGrossLiquidity = 64
  LPs = {l1, l2}
  OrderIds = {1}
  InitialSqrtPrices = {8}
  PoolFees = {0, 1, 3}
  InitialBalance = 8
  MaxBlock = 2
  PoolBudgets <- MCPoolBudgets
SYMMETRY Symmetry
INVARIANTS
    DepositsAreAccountedFor
    SwapsAreAccountedFor
PROPERTIES
    PoolIsSound
CHECK_DEADLOCK FALSE
