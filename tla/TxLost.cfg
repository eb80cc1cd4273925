SPECIFICATION Spec
CONSTANTS
  Txs = {t1, t2, t3}
  Handlers = {h1}
  Gated = FALSE
  Prompt = TRUE
  Answers = {"found", "notFound"}
  Fates = {"indexed"}
  MaxPerBlock = 3
  MaxPromises = 4
  MaxChecks = 2
  MaxAborts = 0
INVARIANTS
  NeverLost
