SPECIFICATION Spec
CONSTANTS
  Handlers = {h1, h2}
  Validators = {v1}
  Upgrade = Upgrade
  Text = Text
  CustomGov = {}
  CustomMsgs = {}
  PassesYes = {}
  SubmitHeight <- AtOnce
  MsgsLoaded = TRUE
  UpgradeHeight = 4
  VotingBlocks = 1
  WarmUp = 0
  Prompt = FALSE
  Faults = {"halt", "query"}
  MaxFaults = 1
  MaxProposals = 0
  MaxLeft = 1
  MaxHeight = 4
SYMMETRY Symmetry
INVARIANTS
  NewShapeNeverEarly
