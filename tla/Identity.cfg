SPECIFICATION Spec
CONSTANTS
  a = a
  b = b
  None = None
  Veleros <- TwoVeleros
  MaxEdits = 2
  MaxFaults = 1
INVARIANTS
  TypeOK
  Isolated
  NothingLeftBehind
PROPERTIES
  ReadyAtHome
  DeletionEnds
  IdentityHeals
