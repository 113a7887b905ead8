\* The weight cap against the supplies of the configured mints.
CONSTANTS
  Keys = {k1, k2}
  NoKey = NoKey
  Mints = {A, B, C}
  NoMint = NoMint
  NumMints = 2
  U64Max = 8
  MaxSupply = 3
SPECIFICATION Spec
INVARIANT MaxVoteWeightIsTotalSupply
