CONSTANTS
  Proc = {p1, p2}
  NumTests = 2
  TeamSize <- TwoTeams
  MaxRestarts = 1
  Scale = 2
  Benchmarks <- SomeBenchmarks
  Outcomes = {"ok", "error", "short"}
  Times = {1, 3}
  MaxCalls = 2
  Kilo = 2
  Disks <- SomeDisks
SPECIFICATION Spec
SYMMETRY ProcSymmetry
INVARIANTS
  TypeOK
  RowCounts
  LatencyHonest
  CsvHeader
  RowsKept
  ReportComplete
  ComparedOnce
CHECK_DEADLOCK FALSE
