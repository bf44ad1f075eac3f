SPECIFICATION Spec
CONSTANTS
  Poll = 3
  Margin = 4
  Lifetimes <- HourOnly
  Late = 1
  Delay = 1
  MaySkip = TRUE
  MayReplace = FALSE
  Horizon = 25
INVARIANTS
  TokenAlwaysValid
