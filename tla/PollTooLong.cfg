SPECIFICATION Spec
CONSTANTS
  Poll = 9
  Margin = 4
  Lifetimes <- HourOnly
  Late = 1
  Delay = 1
  MaySkip = FALSE
  MayReplace = FALSE
  Horizon = 25
INVARIANTS
  TokenAlwaysValid
