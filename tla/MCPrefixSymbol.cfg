SPECIFICATION MCSpec
CONSTANTS
  MaxCodeBits = 3
  InitialLength = 3
  RleThreshold = 8
  Written <- MCWritten
  Counted <- MCCounted
  AnySizes = {1, 3, 7}
  MaxSymbols = 2
  ByteWidth = 2
  WordBytes = 3
  Values = {63, 25}
  Widths = {1, 4, 6}
  Rooms = {1, 3}
  MaxBits = 14
INVARIANTS
  WrittenIsRead
  BuiltIsBest
  BuiltIsComplete
  SymbolsDecode
  BitsKept
CHECK_DEADLOCK FALSE
