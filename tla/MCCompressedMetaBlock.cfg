SPECIFICATION MetaBlockSpec
CONSTANTS
  LengthCodes <- MCLengthCodes
  NumTypes <- MCNumTypes
  SizeBits <- MCSizeBits
  Transforms <- MCTransforms
  Trees <- MCTrees
  WindowSize = 4
  a = a
  b = b
  FirstLengths = {1}
  Postfix = 0
  Direct = 1
  Lengths = {2, 5}
  MaxBlocks = 2
  MaxReads = 2
  MaxSpace = 2
INVARIANTS
  MetaBlockFilled
  OutputIsMeaning
  RecentIsLz77
PROPERTIES
  BodySpec
  CallsReturn
CHECK_DEADLOCK FALSE
