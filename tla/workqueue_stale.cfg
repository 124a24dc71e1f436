CONSTANTS
  Configs <- Mixes
  Scale = 6
  MaxTests = 2
  MaxItems = 4
SPECIFICATION Spec
INVARIANTS
  OnlyWeighted
CHECK_DEADLOCK FALSE
