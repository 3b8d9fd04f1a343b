SPECIFICATION FairSpec
CONSTANTS
  Tx = {t1, t2, t3, trap}
  Trap = {trap}
  Cap = 3
  TMax = 2
  ChanCap = 1
  Foreign <- MCForeign
INVARIANTS
  PoolCoherent
PROPERTIES
  PoolIsFifo
  EveryTxLeaves
