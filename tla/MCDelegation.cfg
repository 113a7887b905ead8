\* Two voters, one token each, delegating to one another under strict rewards.
CONSTANTS
  FlexSecs = 1
  ThreeMonthsSecs = 2
  SixMonthsSecs = 3
  OneYearSecs = 4
  CooldownSecs = 0
  Voters = {v1, v2}
  NoKey = NoKey
  MintIdx = {0}
  NumDeposits = 2
  GoverningIdx = 0
  MinOwnWeightedStake = 1
  DelegateThreshold = 0
  StrictRewards = TRUE
  StakedElsewhere = {}
  MaxEarned = 0
  MaxDecrease = 0
  MintingDates = {}
  CallerPeriods = {"None", "Flex"}
  Supply = 2
  GenesisTs = 2
  MaxTs = 3
SPECIFICATION DSpec
INVARIANT DelegatesStayOpen
PROPERTIES DelegatesFollowStakes
CONSTRAINTS NoVotesCast NoRestriction HoldingEntryPlain LedgerBounded OneTokenEach FirstEntryHolds SecondEntryStakes ClosedInThisPool
SYMMETRY VoterSymmetry
VIEW DelegatesView
