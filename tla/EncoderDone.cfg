SPECIFICATION FairSpec
CONSTANTS
  ByteBits = 2
  MetaBlockCap = 4
  Windows = {2, 4}
  Reserve = 1
  HeaderBits = 1
  ChunkBits = {1, 4}
  TailBits = 1
  MaxInput = 5
  MaxGiven = 5
  MaxRoom = 2
INVARIANT DoneMeansDrained
CHECK_DEADLOCK FALSE
