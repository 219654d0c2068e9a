SPECIFICATION Spec
CONSTANTS
  Paths = {p}
  Natures = {{}}
  Values = {a, b}
  NoValue = NoValue
  MaxSets = 1
  MaxOthers = 0
  MaxLosses = 1
  MaxTroubles = 1
INVARIANTS TypeOK AlwaysShows
CHECK_DEADLOCK FALSE
