CONSTANTS
  MaxVisits = 4
SPECIFICATION FairFrameSpec
INVARIANTS FrameTypeOK HiddenNeverStreams StartingIsResolved StreamIsNotRestarted
PROPERTIES DeadStreamLeaves FreshPageResolves
CHECK_DEADLOCK FALSE
