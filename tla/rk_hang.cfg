\* A receive thread spinning on a full MPP has no step left: the program hangs.
CONSTANTS
  b1 = b1
  b2 = b2
  b3 = b3
  b4 = b4
  b5 = b5
  NoBuf = NoBuf
  Buffers <- FourBuffers
  Rotation = TRUE
  PacketCap = 1
  MaxPics = 3
  Faults <- AllFaults
SPECIFICATION FairSpec
PROPERTIES StopHangsOnlyWedged ScreenMovesForward
CHECK_DEADLOCK FALSE
