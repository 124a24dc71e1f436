CONSTANTS
  Worker = {w1, w2}
  Conn = {c1, c2, c3, c4, c5, c6, c7, c8, c9, c10}
  NumTests = 2
  TeamSize <- TwoThenOne
  EmptyQueue <- NoTests
  InContainer = FALSE
  FaultKinds <- AllFaults
  MaxFaults = 1
  None = None
SPECIFICATION Spec
INVARIANTS
  TypeOK
  StartBarrier
  NoOverlap
  RowsComplete
  SendNeverBlocks
  Lockstep
  LostMemberStalls
  ServerInv
PROPERTIES
  RoundsSpec
  OrphansPhase
CHECK_DEADLOCK FALSE
