SPECIFICATION FairSpec
CONSTANTS
  Txs = {t1, t2, t3}
  Handlers = {h1, h2}
  Gated = TRUE
  Prompt = TRUE
  Answers = {"found", "notFound"}
  Fates = {"indexed"}
  MaxPerBlock = 1
  MaxPromises = 4
  MaxChecks = 3
  MaxAborts = 0
INVARIANTS
  TypeOK
  NeverLost
  ReportedOnce
PROPERTIES
  KeepsSending
