\* A penalty dropped with its entry.
CONSTANTS
  FlexSecs = 1
  ThreeMonthsSecs = 2
  SixMonthsSecs = 3
  OneYearSecs = 4
  CooldownSecs = 1
  Voters = {v1}
  NoKey = NoKey
  MintIdx = {0}
  NumDeposits = 2
  GoverningIdx = 0
  MinOwnWeightedStake = 1
  DelegateThreshold = 1
  StrictRewards = TRUE
  StakedElsewhere = {}
  MaxEarned = 0
  MaxDecrease = 0
  MintingDates = {}
  CallerPeriods = {"None", "Flex"}
  Supply = 1
  GenesisTs = 2
  MaxTs = 4
SPECIFICATION Spec
INVARIANT VaultHoldsOnlyEntries
