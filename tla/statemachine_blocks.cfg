SPECIFICATION Spec
CONSTANTS
  a = a
  b = b
  Key <- MCKey
  KeyOrder <- MCKeyOrder
  MaxNonce = 3
  TxSet <- MCTxs
  MaxTxs = 2
  MaxHeight = 3
  GenesisBalance <- MCBalance
  GenesisBond <- MCBond
  Seed <- MCSeed
  MaxUint256 = 40
  MinBond = 2
  UnbondingBlocks = 2
  MissThreshold = 2
  SlashPercent = 50
  TargetGasPerBlock = 1
  MaxAdjustmentDenominator = 1
  MinBaseFee = 1
  TargetStakingRatioPct = 50
  MaxAnnualRatePct = 30
  BlocksPerYear = 1
INVARIANTS
  EscrowBacked
  
  
PROPERTIES
  BondLockedUp
CHECK_DEADLOCK FALSE
