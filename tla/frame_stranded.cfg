CONSTANTS
  MaxVisits = 4
SPECIFICATION FairFrameSpec
PROPERTIES NotStranded
CHECK_DEADLOCK FALSE
