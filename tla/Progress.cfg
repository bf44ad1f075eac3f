SPECIFICATION FairSpec
CONSTANTS
  crd = crd
  p1 = p1
  v1 = v1
  bad = bad
  None = None
  Crds <- NoCrds
  PullSecrets <- OneSecret
  Specs <- Specs1
  Supported <- Supported1
  Drift <- DriftBoth
  MaxFaults = 1
  MaxEdits = 1
  MaxTogether = 1
INVARIANTS
  Inv
PROPERTIES
  DeletionCompletes
  Converges
