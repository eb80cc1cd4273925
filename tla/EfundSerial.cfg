SPECIFICATION FairSpec
CONSTANTS
  NumWallets = 2
  LateWallets = {2}
  WrkChains = {1, 2}
  EarlyUpgrade = FALSE
  NumSigners = 2
  Threshold = 2
  Handlers = {h1}
  Failures = {"query"}
  MaxOrders = 2
  MaxFailures = 1
INVARIANTS
  TypeOK
  OneOrderEach
  CompleteMeansLocked
  OneRegistration
PROPERTIES
  EventuallyRecorded
