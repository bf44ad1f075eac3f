SPECIFICATION Spec
CONSTANTS
  i1 = i1
  i2 = i2
  None = None
  Images <- TwoImages
  MaxRotations = 1
  MaxEdits = 3
  MaxFaults = 1
INVARIANTS
  TypeOK
  CopyIsRecent
PROPERTIES
  ReadyAtRest
  TemplateFollows
  RolloutSettles
