CONSTANTS
  Proc = {p1, p2}
  NumTests = 2
  TeamSize <- TwoTeams
  MaxRestarts = 0
  Scale = 2
  Benchmarks <- RangedReads
  Outcomes = {"ok", "error"}
  Times = {1}
  MaxCalls = 2
  Kilo = 2
  Disks <- SomeDisks
SPECIFICATION Spec
INVARIANTS
  FailedOpsFailed
CHECK_DEADLOCK FALSE
