CONSTANTS
  p1 = p1
  p2 = p2
  p3 = p3
  NoPid = NoPid
  Pids <- ThreePids
  StopPolls = 2
  Faults <- CrashFaults
SPECIFICATION ProcessSpec
INVARIANTS OrphansAreTold
PROPERTIES RecordOutlivesProcess
CHECK_DEADLOCK FALSE
