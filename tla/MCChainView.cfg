SPECIFICATION Spec
CONSTANTS
  Requests = {q1}
  MaxRound = 2
  None = None
  Networks = {"mainnet", "testnet", "localnet"}
  Nameless = {"localnet"}
  Given <- MCGiven
  Unset = Unset
INVARIANTS
  LagIsHonest
  StatsAgree
  LatestIsLatest
  LabelIsHonest
CHECK_DEADLOCK FALSE
