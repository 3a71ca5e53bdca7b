SPECIFICATION MCSpec
CONSTANTS
  Inputs <- MCInputs
  Configs <- MCConfigs
  FragmentSize = 24
  Load = 6
  Gap = 7
  SkipStart = 2
  FirstBlock = 12
  MergeBlock = 4
  MaxMerged = 20
  TwoPassBlock = 20
  TreeInputs <- MCInputs
  HashedBytes = 1
  Compared = 3
  Depth = 4
  TreeWindow = 8
  TreeReach = 6
  ShortReach = 2
  Stride = 2
  Dense = 2
INVARIANTS
  FragmentDecodes
  FragmentReadsFit
  TreesSorted
  MatchesAreBest
CHECK_DEADLOCK FALSE
