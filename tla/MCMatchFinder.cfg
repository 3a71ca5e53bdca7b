SPECIFICATION FinderSpec
CONSTANTS
  Keys = {k1, k2}
  BlockSize = 2
  CountWrap = 4
  SearchDepth = 2
  HashLength = 2
  MaxBackward = 4
  MaxLazy = 2
  Window = 1
  Strides <- MCStrides
  Skips = 2
  Sparse = 2
  Recents = {1}
  Unset = Unset
  NoPosition = NoPosition
  Lengths = {2, 5}
  MaxChunk = 7
  MaxInput = 10
SYMMETRY MCKeySymmetry
INVARIANTS
  UnsafeReadsHold
  CommandsDecode
CHECK_DEADLOCK FALSE
