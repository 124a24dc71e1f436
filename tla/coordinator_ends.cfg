CONSTANTS
  Worker = {w1, w2}
  Conn = {c1, c2, c3, c4, c5, c6, c7, c8}
  NumTests = 2
  TeamSize <- TwoThenOne
  EmptyQueue <- NoTests
  InContainer = TRUE
  FaultKinds <- AllFaults
  MaxFaults = 1
  None = None
SPECIFICATION FairSpec
PROPERTIES
  ExitOnlyAfterLastReport
  AllStopped
  EndsUnlessMemberLost
  OrphansLeave
CHECK_DEADLOCK FALSE
