SPECIFICATION Spec
CONSTANTS
  n1 = n1
  n2 = n2
  n3 = n3
  f = f
  ok = ok
  bad = bad
  big = big
  Node <- MCNode
  Validator <- MCNode
  Stake <- MCStake
  Order <- MCOrder
  Seed <- MCSeed
  Payload = {ok, bad}
  Invalid = {}
  Oversized = {}
  GenesisRoot = GenesisRoot
  Nil = Nil
  MaxHeight = 1
  MaxRound = 1
  MaxCrashes = 0
CHECK_DEADLOCK FALSE
INVARIANTS
  Finality
