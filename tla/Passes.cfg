SPECIFICATION Spec
CONSTANTS
  crd = crd
  p1 = p1
  v1 = v1
  bad = bad
  None = None
  Crds <- OneCrd
  PullSecrets <- OneSecret
  Specs <- SpecsBad
  Supported <- Supported1
  Drift <- OneCrd
  MaxFaults = 1
  MaxEdits = 2
  MaxTogether = 2
INVARIANTS
  TypeOK
  Inv
  ReadyInv
  CallsPermitted
PROPERTIES
  UserDataKept
  TokenGoesFirst
  ReadyIsEarned
  ApplyRemovesOnlyStale
  DeletionOnlyAdvances
  ImplementsLifecycle
