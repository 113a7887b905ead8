\* A slashed stake of a mint other than the governing one, of two configured.
CONSTANTS
  FlexSecs = 1
  ThreeMonthsSecs = 2
  SixMonthsSecs = 3
  OneYearSecs = 4
  CooldownSecs = 1
  Voters = {v1}
  NoKey = NoKey
  MintIdx = {0, 1}
  NumDeposits = 2
  GoverningIdx = 1
  MinOwnWeightedStake = 1
  DelegateThreshold = 1
  StrictRewards = TRUE
  StakedElsewhere = {}
  MaxEarned = 0
  MaxDecrease = 0
  MintingDates = {}
  CallerPeriods = {"None", "Flex"}
  Supply = 1
  GenesisTs = 2
  MaxTs = 4
SPECIFICATION Spec
INVARIANT SlashedStakeCanBeWithdrawn
