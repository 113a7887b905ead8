\* One voter, three entries: stakes against what a strict rewards program counts.
CONSTANTS
  FlexSecs = 1
  ThreeMonthsSecs = 2
  SixMonthsSecs = 3
  OneYearSecs = 4
  CooldownSecs = 1
  Voters = {v1}
  NoKey = NoKey
  MintIdx = {0}
  NumDeposits = 3
  GoverningIdx = 0
  MinOwnWeightedStake = 1
  DelegateThreshold = 1
  StrictRewards = TRUE
  StakedElsewhere = {}
  MaxEarned = 0
  MaxDecrease = 1
  MintingDates = {1}
  CallerPeriods = {"None", "Flex", "ThreeMonths"}
  Supply = 2
  GenesisTs = 2
  MaxTs = 4
SPECIFICATION WSpec
INVARIANTS TypeOK VaultCoversEntries WeightsAgree
CONSTRAINTS Regular NoVotesCast NoRestriction FirstEntryHolds OthersStake InOrder PenalizedHasOneStake LastEntryPlain
VIEW WithoutRecords
  
