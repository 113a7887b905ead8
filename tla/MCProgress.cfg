\* An owner with two tokens of each of two mints, and a delegate: the way back of
\* staked and slashed tokens, and restrictions.
CONSTANTS
  FlexSecs = 1
  ThreeMonthsSecs = 2
  SixMonthsSecs = 3
  OneYearSecs = 4
  CooldownSecs = 1
  Voters = {v1, v2}
  Leaving = {v1}
  NoKey = NoKey
  MintIdx = {0, 1}
  NumDeposits = 2
  GoverningIdx = 0
  MinOwnWeightedStake = 1
  DelegateThreshold = 1
  StrictRewards = FALSE
  StakedElsewhere = {v2}
  MaxEarned = 1
  MaxDecrease = 0
  MintingDates = {}
  CallerPeriods = {"None", "Flex"}
  Supply = 2
  GenesisTs = 2
  MaxTs = 3
SPECIFICATION MCSpec
PROPERTIES NoEntryHoldsForever PunishedGetNothing
CHECK_DEADLOCK FALSE
