SPECIFICATION FairSpec
CONSTANTS
  Handlers = {h1}
  Validators = {v1, v2}
  Upgrade = Upgrade
  Text = Text
  CustomGov = {gYes, gNo}
  CustomMsgs = {m1, m2}
  PassesYes = {gYes}
  SubmitHeight <- Later
  MsgsLoaded = TRUE
  UpgradeHeight = 7
  VotingBlocks = 3
  WarmUp = 1
  Prompt = TRUE
  Faults = {"query", "script", "rejected", "sendTx", "halt"}
  MaxFaults = 1
  MaxProposals = 4
  MaxLeft = 0
  MaxHeight = 10
INVARIANTS
  TypeOK
  AsConfigured
  CustomOnce
  ShapesFollowBinary
PROPERTIES
  VerifyPasses
