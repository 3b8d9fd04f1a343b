SPECIFICATION FairSyncSpec
CONSTANTS
  p1 = p1
  p2 = p2
  p3 = p3
  Peer = {p1, p2}
  Branch <- WithEmpty
  Validator <- V
  Bonded <- MCBonded
  Genesis = "g"
  MaxRange = 2
  MaxFaults = 2
PROPERTIES
  CatchesUp
