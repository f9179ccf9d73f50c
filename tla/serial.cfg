\* Every stream of up to 12 bytes, cut into reads in every way; lost connections, a failing handler.
SPECIFICATION SerialFairSpec
CONSTANTS
  Radix = 2
  Start1 = 1
  Start2 = 0
  MaxFrame = 2
  MaxChunk = 3
  MaxStream = 12
  Request = 2
  MaxBackoff = 3
  Undecodable = {0}
INVARIANTS
  SerialTypeOK
  ChunksDoNotMatter
  BufferBounded
  FrameRecovered
  EachMessageHandedOn
PROPERTIES
  ReadsAgain
