SPECIFICATION Spec
CONSTANTS
  RingLen = 6
  EpSize = 3
  PacketSizes <- MCPacketSizes
  Piece = 2
  MaxTotal = 10
  MaxEv = 2
  MaxUse = 1
  MaxReset = 1
PROPERTIES FlushesOldestOnly
