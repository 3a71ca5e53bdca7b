CONSTANTS
  a = a
  b = b
  Symbols = {a, b}
  LengthCodes <- SplitLengthCodes
  MinBlock = 2
  MaxTypes = 3
  Totals = {0, 1, 6, 9}
  TypeCounts = {2, 3}
  FirstLengths = {1, 2}
  MaxSwitches = 3
  AnyLengths = {1, 2}
SPECIFICATION Spec
SYMMETRY SymbolSymmetry
INVARIANTS
  SymbolsHaveCodes
  SymbolsFollowSwitches
  TypesMeanCodes
CHECK_DEADLOCK FALSE
