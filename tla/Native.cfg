SPECIFICATION Spec
CONSTANTS
  Slots = {s1, s2}
  Names = {n1}
  Values = {0, 1}
  First = 0
  MaxInstances = 2
  Replacement = TRUE
  MaxMade = 3
  MaxDrops = 2
INVARIANTS ViewTruthful NothingForgotten
PROPERTIES AllOrNothing
SYMMETRY MCSymmetry
CHECK_DEADLOCK FALSE
