SPECIFICATION Spec
CONSTANTS
  MaxRunPrefix = 1
  RleBits = 1
  ContextBits <- MCContextBits
  Plans <- MCPlans
  AnyBits = 1
  AnyDirect = {15}
  AnyMaps <- MCAnyMaps
  Unknown <- MCUnknown
INVARIANTS
  MapIsWhole
  PartsFit
CHECK_DEADLOCK FALSE
