SPECIFICATION Spec
CONSTANTS
  Nodes = {1, 2}
  MaxGamepads = 1
CHECK_DEADLOCK FALSE
INVARIANTS
  SessionTypeOK
  TablesAgree
  PlayersDistinct
PROPERTIES
  SessionEnds
  PluggedInputIsServed
