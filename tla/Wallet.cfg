SPECIFICATION FairSpec
CONSTANTS
  Callers = {c1, c2}
  Nobody = nobody
  Faults = {"simulate", "getSequence", "getChainId", "requestLost", "answerLost", "rejected", "mempoolLost", "cli"}
  MaxFaults = 2
  MaxSeq = 3
INVARIANTS
  TypeOK
  UniqueReservations
  OneMismatchPerDisturbance
PROPERTIES
  ImplementsAllocator
  EventuallyAccepted
