CONSTANTS
  Client = {k1, k2}
  Queue <- FourItems
  Settings <- AllAndClientless
SPECIFICATION FairSpec
INVARIANTS
  TypeOK
  QuotaMet
  CleanLeavesNothing
  OneShotDeletesFind
  NothingWithoutClients
PROPERTIES
  Terminates
  LoadSpec
CHECK_DEADLOCK FALSE
