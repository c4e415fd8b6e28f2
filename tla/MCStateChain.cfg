SPECIFICATION Spec
CONSTANTS
  Parts = {"governance", "votes", "upgrades", "bitcoin", "reputation", "backups", "vaults", "funding", "evm", "encoding"}
  GovPlans <- MCGovPlans
  VotingPeriod = 1
  EnactmentDelay = 1
  ProposalFee = 1
  VotePlans <- MCVotePlans
  UpgradePlans <- MCUpgradePlans
  INPUT_UTXO_SIZE = 2
  VAULT_UTXO_SIZE = 1
  OUTPUT_UTXO_SIZE = 1
  MINIMUM_BTC_TX_SIZE = 1
  BITCOIN_DUST_LIMIT = 3
  BtcPlans <- MCBtcPlans
  RepPlans <- MCRepPlans
  QUANTISATION_FACTOR = 2
  BackupPlans <- MCBackupPlans
  VaultPlans <- MCVaultPlans
  None = None
  FlipAccounts = {a1, a2}
  EthAddresses = {x1, x2}
  MaxBalance = 16
  GenesisIssuance = 15
  GenesisAccount = a1
  GenesisFunds = 4
  FundingAmounts = {3}
  RedeemAmounts = {2}
  MaxAmount = MaxAmount
  GenesisMinimum = 2
  GenesisTax = 1
  Minimums = {3}
  Taxes = {0}
  TxFee = 1
  Bonds = {2}
  SlashAmount = 1
  Inflation = 1
  InflationBase = 7
  CompoundingInterval = 2
  SupplyUpdateInterval = 1
  BurnFeeMultiple = 2
  FundingBudgets <- MCFundingBudgets
  EvmPlans <- MCEvmPlans
  EvmBatchCost = 5
  EvmFetchCost = 3
  EvmNativeCost = 2
  EvmTokenCost = 4
  EvmMaxGasLimit = 13
  BtcCases <- MCBtcCases
  OddTweaks = {3, 300}
INVARIANTS
    UpgradesKeepTheState
    UtxosAreAccountedFor
    EvmCallsAreSound
    BitcoinReadsBack
PROPERTIES
    FlipIsAccountedFor
    NodeRecordsAreTrue
    VaultsAreHandedOver
    DecisionsHaveBacking
CHECK_DEADLOCK FALSE
