CONSTANTS
  p1 = p1
  p2 = p2
  p3 = p3
  NoPid = NoPid
  Pids <- TwoPids
  StopPolls = 1
  Faults <- NoFaults
SPECIFICATION ProcessSpec
INVARIANTS AppSurvives
CHECK_DEADLOCK FALSE
