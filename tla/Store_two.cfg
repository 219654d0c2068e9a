SPECIFICATION Spec
CONSTANTS
  Paths = {p, q}
  Natures = {{}, {"trigger"}}
  Values = {a, b}
  NoValue = NoValue
  MaxSets = 1
  MaxOthers = 1
  MaxLosses = 1
  MaxTroubles = 2
SYMMETRY ValueSymmetry
INVARIANTS TypeOK ShowsEngine ShowsMetadata
PROPERTY HeldStays
CHECK_DEADLOCK FALSE
