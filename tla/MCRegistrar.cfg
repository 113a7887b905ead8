\* Three mints compete for two indexes.
CONSTANTS
  Keys = {k1, k2}
  NoKey = NoKey
  Mints = {A, B, C}
  NoMint = NoMint
  NumMints = 2
  U64Max = 8
  MaxSupply = 3
SPECIFICATION Spec
INVARIANTS TypeOK MintHasOneIndex
PROPERTIES IndexKeepsItsMint
SYMMETRY MintSymmetry
