SPECIFICATION Spec
CONSTANTS
  Handlers = {h1}
  Validators = {v1, v2}
  Upgrade = Upgrade
  Text = Text
  CustomGov = {g1}
  CustomMsgs = {}
  PassesYes = {}
  SubmitHeight <- AtOnce
  MsgsLoaded = TRUE
  UpgradeHeight = 6
  VotingBlocks = 2
  WarmUp = 0
  Prompt = TRUE
  Faults = {}
  MaxFaults = 0
  MaxProposals = 3
  MaxLeft = 0
  MaxHeight = 7
INVARIANTS
  FlagMeansSubmitted
