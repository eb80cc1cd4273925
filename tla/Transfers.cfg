SPECIFICATION FairSpec
CONSTANTS
  NumTests = 2
  NumIbc = 1
  Share <- MCShare
  AlreadyHas = 2
  Holdings <- MCHoldings
  Faults = {"query", "delay", "create", "crash"}
  MaxFaults = 1
INVARIANTS
  TypeOK
  GatedNeverFail
PROPERTIES
  VouchersReturn
