CONSTANTS
  Modulus = 8
  Kilo = 2
  TestCases <- Cases
SPECIFICATION Spec
INVARIANTS
  TypeOK
  InRange
  SizesAsConfigured
  SequentialCovers
CHECK_DEADLOCK FALSE
