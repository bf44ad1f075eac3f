SPECIFICATION TwoSpec
CONSTANTS
  v1 = v1
  None = None
  Crds <- NoCrds
  PullSecrets <- NoSecrets
  Specs <- Specs1
  Supported <- Specs1
  Drift <- NoDrift
  MaxFaults = 0
  MaxEdits = 0
  MaxTogether = 0
  MaxPasses = 1
INVARIANTS
  CleanupUnlessOverlap
PROPERTIES
  TokenFirstUnlessOverlap
  ReadyUnlessOverlap
  TwoKeepUserData
  LifecycleUnlessOverlap
