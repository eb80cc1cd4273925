SPECIFICATION FairSpec
CONSTANTS
  Callers = {c1}
  Nobody = nobody
  Faults = {"getChainId"}
  MaxFaults = 1
  MaxSeq = 2
PROPERTIES
  SelfHeals
