SPECIFICATION Spec
CONSTANTS
  Poll = 3
  Margin = 4
  Lifetimes <- Granted
  Late = 1
  Delay = 1
  MaySkip = TRUE
  MayReplace = TRUE
  Horizon = 25
INVARIANTS
  ValidUnlessRefused
  TokenInv
  OutageIsBounded
  ExpiryHeals
