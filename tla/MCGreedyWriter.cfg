SPECIFICATION Spec
CONSTANTS
  Modes <- MCModes
  MaxBackward = 30
  Distances = {1, 8, 11, 22, 37}
  Common <- MCCommon
  Boundary <- MCBoundary
  Tails = {0, 36}
  Wholes <- MCWholes
  MaxChunk = 2
  MaxCommands = 3
INVARIANT DecoderFollows
CHECK_DEADLOCK FALSE
