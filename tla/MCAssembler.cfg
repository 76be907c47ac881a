SPECIFICATION Spec
CONSTANTS
  Numeral <- Threes
  Absolute <- Ks
  Relocated <- Xs
  Denotes <- Values
  Characters <- Chars
  Width = 4
  MaxTokens = 7
  MaxBroken = 3
  Inputs <- MCInputs
  Projects <- MCProjects
INVARIANTS TypeOK Grouping LexesAll Expands Located FitsBuffer InPlace Placed
PROPERTY KeepsGlobal
