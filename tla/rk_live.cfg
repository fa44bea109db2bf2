\* A join that a stranded frame_thread keeps waiting for has no step left.
CONSTANTS
  b1 = b1
  b2 = b2
  b3 = b3
  b4 = b4
  b5 = b5
  NoBuf = NoBuf
  Buffers <- ThreeBuffers
  Rotation = FALSE
  PacketCap = 1
  MaxPics = 4
  Faults <- NoFaults
SPECIFICATION FairSpec
PROPERTIES ServesLatestWins PictureReachesScreen StopCompletes
CHECK_DEADLOCK FALSE
