CONSTANTS
  Configs <- Mixes
  Scale = 6
  MaxTests = 2
  MaxItems = 4
SPECIFICATION Spec
INVARIANTS
  TypeOK
  RatioHolds
  StrayOnce
CHECK_DEADLOCK FALSE
