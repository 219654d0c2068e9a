SPECIFICATION FairSpec
CONSTANTS
  Files = {f1}
  Producers = {p1}
  QueueLen = 2
  ReadBatch = 2
  Wants = {1, 3}
  Second = 2
  Wrap = 16
  MaxPosts = 4
  MaxClock = 2
  f1 = f1
  p1 = p1
  p2 = p2
INVARIANTS TypeOK GapsReported GoneOnlyWhenDrained
PROPERTIES NobodyOverslept CallsReturn
CHECK_DEADLOCK FALSE
