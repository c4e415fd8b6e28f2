SPECIFICATION MCSpec
CONSTANTS
  Parts = {"witnesser", "epochs"}
  v1 = v1
  v2 = v2
  v3 = v3
  v4 = v4
  Validators = {v1, v2, v3, v4}
  Calls = {c1}
  ExtraCalls = {c1}
  Data = {0, 3, 5}
  Reports <- MCReports
  NoData = NoData
  MaxEpoch = 2
  AuthoritiesAt <- MCAuthoritiesAt
  SafeModes <- MCSafeModes
  Weight <- MCWeight
  MaxWeight = 2
  DeletionWeight = 1
  LateWitnessGracePeriod = 1
  MaxForced = 1
  Accounts = {v1, v2}
  Genesis = {v1}
  Bonds = {1, 2}
  Durations = {1, 3}
  RedemptionPeriod = 50
  LastEpoch = 4
  MaxDuration = 3
INVARIANTS
    DispatchedWithQuorum
    WitnessedCallNotLost
    VotesAreAccountedFor
    InjectedWithinHonestReports
    EpochsAreAccountedFor
PROPERTIES
    NoReplayWhileActive
