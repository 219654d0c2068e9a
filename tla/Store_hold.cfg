SPECIFICATION Spec
CONSTANTS
  Paths = {p}
  Natures = {{"refusable"}, {"slow", "refusable"}, {"trigger"}}
  Values = {a, b}
  NoValue = NoValue
  MaxSets = 2
  MaxOthers = 1
  MaxLosses = 1
  MaxTroubles = 2
SYMMETRY ValueSymmetry
INVARIANTS ShowsEngine ShowsMetadata
PROPERTY HeldStays
CHECK_DEADLOCK FALSE
