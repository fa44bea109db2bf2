\* A receive thread spinning on a full MPP has no step left: the program hangs.
CONSTANTS
  b1 = b1
  b2 = b2
  b3 = b3
  b4 = b4
  b5 = b5
  NoBuf = NoBuf
  Buffers <- FiveBuffers
  Rotation = TRUE
  PacketCap = 1
  MaxPics = 5
  Faults <- RunFaults
SYMMETRY Symmetry
SPECIFICATION Spec
INVARIANTS TypeOK SoleOwner FramesOutliveScanout StatsAccount DecoderHeadroom CleanupReturnsAll
PROPERTIES IsLatestWins
CHECK_DEADLOCK FALSE
