\* One voter, two entries: lockups, cooldowns and staked funds over time.
CONSTANTS
  FlexSecs = 1
  ThreeMonthsSecs = 2
  SixMonthsSecs = 3
  OneYearSecs = 4
  CooldownSecs = 2
  Voters = {v1}
  NoKey = NoKey
  Never = Never
  MintIdx = {0}
  NumDeposits = 2
  GoverningIdx = 0
  MinOwnWeightedStake = 1
  DelegateThreshold = 1
  StrictRewards = FALSE
  StakedElsewhere = {}
  MaxEarned = 0
  MaxDecrease = 0
  MintingDates = {}
  CallerPeriods = {"None", "Flex", "ThreeMonths"}
  Supply = 1
  GenesisTs = 2
  MaxTs = 5
SPECIFICATION HSpec
INVARIANT EntriesWellFormed
PROPERTIES LockNeverShortens StakedFundsStay PayoutAfterCooldown BankSpec
CONSTRAINTS NoVotesCast NoRestriction FirstEntryHolds SecondEntryStakes
VIEW WithoutRecords
