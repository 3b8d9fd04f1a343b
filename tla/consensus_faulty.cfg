SPECIFICATION Spec
CONSTANTS
  n1 = n1
  n2 = n2
  n3 = n3
  f = f
  ok = ok
  bad = bad
  big = big
  Node <- MCPair
  Validator <- MCTrio
  Stake <- MCTrioStake
  Order <- MCTrioOrder
  Seed <- MCSeed
  Payload = {ok, bad}
  Invalid = {}
  Oversized = {}
  GenesisRoot = GenesisRoot
  Nil = Nil
  MaxHeight = 1
  MaxRound = 0
  MaxCrashes = 0
CHECK_DEADLOCK FALSE
INVARIANTS
  PrecommitHasPolka
  RoundAgreement
