SPECIFICATION FairSpec
CONSTANTS
  Txs = {t1, t2, t3}
  Handlers = {h1, h2}
  Gated = FALSE
  Prompt = FALSE
  Answers = {"found"}
  Fates = {"indexed"}
  MaxPerBlock = 3
  MaxPromises = 4
  MaxChecks = 2
  MaxAborts = 1
PROPERTIES
  EventuallyReported
