CONSTANTS
  p1 = p1
  p2 = p2
  p3 = p3
  NoPid = NoPid
  Pids <- ThreePids
  StopPolls = 2
  Faults <- CallFaults
SPECIFICATION FairProcessSpec
INVARIANTS ProcessTypeOK NoLostChild SignalsOwnChild HostModeIsTemporary
PROPERTIES CallsReturn IsStreamControl
CHECK_DEADLOCK FALSE
