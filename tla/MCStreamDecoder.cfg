SPECIFICATION FairSpec
CONSTANTS
  ByteBits = 8
  NibbleBits = 1
  LengthByteBits = 1
  Widths <- MCWidths
  WindowForms <- MCForms
  Invalid = Invalid
  MaxWindow = 22
  NoLimit = NoLimit
  Limits = {NoLimit, 0, 2}
  BodyReads = {1, 12}
  MaxGiven = 2
  MaxRoom = 2
  MaxTotal = 4
INVARIANTS
  BytesOwned
  LimitHonoured
  StatusMeans
  LengthIsMinimal
PROPERTIES
  DoneIsFinal
  CallsReturn
CHECK_DEADLOCK FALSE
