SPECIFICATION FairSpec
CONSTANTS
  ByteBits = 2
  MetaBlockCap = 4
  Windows = {2, 4}
  Reserve = 1
  HeaderBits = 1
  ChunkBits = {1, 4}
  TailBits = 1
  MaxInput = 10
  MaxGiven = 5
  MaxRoom = 2
INVARIANTS
  WindowFits
  ChunksAsOneShot
  TerminatedOnce
  StatusMeans
PROPERTIES
  CallsReturn
CHECK_DEADLOCK FALSE
