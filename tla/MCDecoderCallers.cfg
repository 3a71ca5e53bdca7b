SPECIFICATION MCSpec
CONSTANTS
  ByteBits = 8
  NibbleBits = 1
  LengthByteBits = 1
  Widths <- MCWidths
  WindowForms <- MCForms
  Invalid = Invalid
  MaxWindow = 22
  NoLimit = NoLimit
  Limits = {NoLimit, 0, 2}
  BodyReads = {1, 9}
  MaxGiven = 5
  MaxRoom = 2
  MaxTotal = 3
  MaxSupply = 3
  MaxInput = 5
  BufferSize = 2
INVARIANTS
  CallersTold
  NothingLost
PROPERTIES
  SourceLeftAlone
  CallersReturn
CHECK_DEADLOCK FALSE
