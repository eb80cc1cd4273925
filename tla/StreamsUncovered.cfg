SPECIFICATION Spec
CONSTANTS
  NumPairs = 2
  Handlers = {h1}
  UpgradeHeight = 6
  Prompt = TRUE
  Faults = {}
  MaxFaults = 0
  MaxHeight = 7
INVARIANTS
  ListedUntilSent
