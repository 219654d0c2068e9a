SPECIFICATION Spec
CONSTANTS
  Xacts = {x1}
  Shapes <- MCShapes
  Other = Other
  Bursts = {1}
  Cap = 8
  Start = 6
  Ahead = 0
  RetainMax = 1
  MaxOthers = 2
  MaxResyncs = 2
  MaxEpoch = 0
INVARIANT RetiredWhole
CHECK_DEADLOCK FALSE
