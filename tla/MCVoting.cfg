\* Weight record, votes and vaults: two entries of two mints, and a delegate.
CONSTANTS
  FlexSecs = 1
  ThreeMonthsSecs = 2
  SixMonthsSecs = 3
  OneYearSecs = 4
  CooldownSecs = 0
  Voters = {v1, v2}
  NoKey = NoKey
  MintIdx = {0, 1}
  NumDeposits = 2
  GoverningIdx = 0
  MinOwnWeightedStake = 1
  DelegateThreshold = 1
  StrictRewards = FALSE
  StakedElsewhere = {}
  MaxEarned = 1
  MaxDecrease = 0
  MintingDates = {}
  CallerPeriods = {"None", "Flex"}
  Supply = 1
  GenesisTs = 2
  MaxTs = 3
SPECIFICATION Spec
INVARIANTS VaultCoversEntries RecordCoveredByEntries VotesBackedByVaults
CONSTRAINTS PlainVoters SecondDelegates HoldsBeforeStakes
SYMMETRY VoterSymmetry
