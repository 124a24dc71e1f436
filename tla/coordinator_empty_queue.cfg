CONSTANTS
  Worker = {w1, w2}
  Conn = {c1, c2, c3, c4, c5}
  NumTests = 2
  TeamSize <- TwoThenOne
  EmptyQueue <- FirstTest
  InContainer = FALSE
  FaultKinds <- NoFaults
  MaxFaults = 0
  None = None
SPECIFICATION Spec
PROPERTIES
  IncompleteReconnects
CHECK_DEADLOCK FALSE
