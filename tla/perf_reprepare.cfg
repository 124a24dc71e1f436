CONSTANTS
  Client = {k1, k2}
  Queue <- FourItems
  Settings <- AllSettings
SPECIFICATION Spec
INVARIANTS
  DeletesFindTheirObject
CHECK_DEADLOCK FALSE
