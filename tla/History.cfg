SPECIFICATION FairSpec
CONSTANTS
  RingSize = 4
  Reserved = 1
  Byte = {0, 1}
  Unset = Unset
  MaxOut = 8
  MaxSlice = 5
INVARIANTS
  IInv
PROPERTIES
  WindowSpec
  CallsReturn
