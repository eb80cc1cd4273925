SPECIFICATION FairSpec
CONSTANTS
  NumNodes = 2
  Query = 1
  UpgradeHeight = 3
  NumHandlers = 2
  Refreshers = {r1}
  Prompt = TRUE
  Faults = {"query", "refresh", "logs", "socket"}
  MaxFaults = 1
  StartHeight = 1
  Tail200 = 1
  Tail400 = 2
  Tail1000 = 2
  MaxHeight = 4
INVARIANTS
  TypeOK
  SuccessMeansUpgraded
  TxsCountedOnce
PROPERTIES
  UpgradeReported
  ScreenConverges
CHECK_DEADLOCK FALSE
