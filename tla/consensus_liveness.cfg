SPECIFICATION FairSpec
CONSTANTS
  n1 = n1
  n2 = n2
  n3 = n3
  f = f
  ok = ok
  bad = bad
  big = big
  Node <- MCPair
  Validator <- MCPair
  Stake <- MCPairStake
  Order <- MCPairOrder
  Seed <- MCSeed
  Payload = {ok, bad, big}
  Invalid = {bad}
  Oversized = {big}
  GenesisRoot = GenesisRoot
  Nil = Nil
  MaxHeight = 1
  MaxRound = 1
  MaxCrashes = 1
CHECK_DEADLOCK FALSE
INVARIANTS
  NoEquivocation
  SnapshotSound
  LockHasPolka
  PhaseHasTimer
  HeightInSync
  OneProposalPerRound
PROPERTIES
  FollowerRoundEnds
