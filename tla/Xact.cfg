SPECIFICATION Spec
CONSTANTS
  Xacts = {x1, x2}
  Shapes <- MCShapes
  Other = Other
  Bursts = {1, 6}
  Cap = 8
  Start = 6
  Ahead = 1
  RetainMax = 2
  MaxOthers = 1
  MaxResyncs = 2
  MaxEpoch = 1
SYMMETRY Symmetric
INVARIANTS NoTouchAfterFree OneWaiter
CHECK_DEADLOCK FALSE
