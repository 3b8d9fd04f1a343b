SPECIFICATION Spec
CONSTANTS
  K = 2
  MaxScale = 4
  TMax = 4
  MaxUint = 1000
  FieldBits = 2
  WordBits = 2
  MaxKeyLen = 2
  FuelUnitsPerGas = 4
  MaxFuel = 60
  MaxUint64 = 100
  SelectorLen = 1
  Exports <- MCExports
  HostFuel <- MCHostFuel
  Replica = {1, 2}
  Proposer = 1
  Key = {"a", "b"}
  BlockSet <- MCBlockSet
  UpdateSet <- MCUpdateSet
  MaxHeight = 2
  MaxUpdates = 2
  MaxNonce = 4
  GenesisBalance <- MCGenesisBalance
  ChainID = "frg"
  BaseFee = 1
  CountBits = 2
  MaxValue = 1000
  MaxField = 17
  MaxWasm = 3
  MaxTxBytes = 18
  MaxBatchTxs = 4
  MaxBatchBytes = 70
INVARIANTS
  TreeExact
  
  ReplicasAgree
  
  ProofsVerify
  
CHECK_DEADLOCK FALSE
