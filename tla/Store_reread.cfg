SPECIFICATION Spec
CONSTANTS
  Paths = {p}
  Natures = {{"refusable"}}
  Values = {a, b}
  NoValue = NoValue
  MaxSets = 1
  MaxOthers = 1
  MaxLosses = 0
  MaxTroubles = 1
INVARIANTS TypeOK AlwaysShows
CHECK_DEADLOCK FALSE
