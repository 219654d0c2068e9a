SPECIFICATION Spec
CONSTANTS
  Paths = {p}
  Natures = {{"slow"}}
  Values = {a, b}
  NoValue = NoValue
  MaxSets = 2
  MaxOthers = 1
  MaxLosses = 0
  MaxTroubles = 1
INVARIANTS TypeOK NeverMoves
CHECK_DEADLOCK FALSE
