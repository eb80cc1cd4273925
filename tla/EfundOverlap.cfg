SPECIFICATION Spec
CONSTANTS
  NumWallets = 1
  LateWallets = {}
  WrkChains = {}
  EarlyUpgrade = TRUE
  NumSigners = 1
  Threshold = 1
  Handlers = {h1, h2}
  Failures = {}
  MaxOrders = 2
  MaxFailures = 0
SYMMETRY Symmetry
INVARIANTS
  CompleteMeansLocked
