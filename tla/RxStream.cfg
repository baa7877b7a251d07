CONSTANTS
  Magic = 9
  Version = 1
  HeaderLen = 3
  CrcLen = 1
  MaxPayloadLen = 4
  Frames = {"a", "b"}
  Encoded <- MCEncoded
  Noise = "noise"
  NoiseValues = {4, 9}
  FifoLen = 2
  RxDepth = 1
  MaxBreaks = 1
SPECIFICATION FairSpec
INVARIANTS TypeOK BufferBounded
PROPERTIES DeliversInOrder DeliversEveryFrame
