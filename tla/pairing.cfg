SPECIFICATION Spec
CONSTANTS
  MaxPolls = 3
INVARIANTS
  PairingTypeOK
  SidesAgree
PROPERTIES
  PairingReturns
