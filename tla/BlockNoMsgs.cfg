SPECIFICATION FairSpec
CONSTANTS
  Handlers = {h1}
  Validators = {v1, v2}
  Upgrade = Upgrade
  Text = Text
  CustomGov = {}
  CustomMsgs = {}
  PassesYes = {}
  SubmitHeight <- AtOnce
  MsgsLoaded = FALSE
  UpgradeHeight = 6
  VotingBlocks = 2
  WarmUp = 0
  Prompt = TRUE
  Faults = {}
  MaxFaults = 0
  MaxProposals = 3
  MaxLeft = 0
  MaxHeight = 7
PROPERTIES
  UpgradeSubmitted
