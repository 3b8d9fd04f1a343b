SPECIFICATION Spec
CONSTANTS
  Commands <- MCCommands
  Network = "main"
  DefaultChain = "main"
  Retain = 2
  MaxTools = 4
  MaxHeight = 4
  MaxBlockHistory = 2
  TrimSize = 1
  MaxWebStarts = 2
INVARIANTS
  CopiesWhole
  HistoryFaithful
  SeedIsGenesis
PROPERTIES
  
  FollowsChain
CHECK_DEADLOCK FALSE
