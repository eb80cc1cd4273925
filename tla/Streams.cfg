SPECIFICATION LuckySpec
CONSTANTS
  NumPairs = 1
  Handlers = {h1}
  UpgradeHeight = 9
  Prompt = TRUE
  Faults = {"query", "sendTx", "drain", "halt"}
  MaxFaults = 2
  MaxHeight = 12
INVARIANTS
  TypeOK
  NothingRejected
PROPERTIES
  StreamsVerified
  KeepsClaiming
