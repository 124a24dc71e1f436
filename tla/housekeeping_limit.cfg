CONSTANTS
  Proc = {p1, p2}
  NumTests = 2
  TeamSize <- TwoThenOne
  MaxRestarts = 0
  Queue <- ThreeItems
  MinBucket = 1
  MaxBucket = 2
  Settings <- AllBenchmarks
  Found <- EmptyOrUsed
  DeleteLimit = 1
  Gateways <- TwoGateways
  Hosts <- ThreeHosts
SPECIFICATION Spec
INVARIANTS
  GeneratedRemoved
CHECK_DEADLOCK FALSE
