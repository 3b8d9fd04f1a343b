SPECIFICATION FairClientSpec
CONSTANTS
  Tx = {t1, t2, bad}
  Bad = {bad}
  Caller = {c1, c2}
  MaxBatch = 1
  MaxSeq = 2
  MaxStops = 1
INVARIANTS
  NothingLost
  HashesExact
PROPERTIES
  EventuallyFlushed
CHECK_DEADLOCK FALSE
