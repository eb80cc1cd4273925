SPECIFICATION FairSpec
CONSTANTS
  NumWallets = 1
  LateWallets = {}
  WrkChains = {}
  EarlyUpgrade = FALSE
  NumSigners = 1
  Threshold = 1
  Handlers = {h1}
  Failures = {"sendTx"}
  MaxOrders = 1
  MaxFailures = 1
PROPERTIES
  EventuallyRecorded
