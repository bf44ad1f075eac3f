SPECIFICATION Spec
CONSTANTS
  crd = crd
  p1 = p1
  v1 = v1
  bad = bad
  None = None
  Crds <- OneCrd
  PullSecrets <- OneSecret
  Specs <- SpecsBad
  Supported <- Supported1
  Drift <- NoDrift
  MaxFaults = 0
  MaxEdits = 0
  MaxTogether = 3
INVARIANTS
  PendingIsNotCreated
