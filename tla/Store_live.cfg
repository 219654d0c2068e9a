SPECIFICATION FairSpec
CONSTANTS
  Paths = {p}
  Natures = {{"slow", "refusable"}, {"trigger", "refusable"}}
  Values = {a, b}
  NoValue = NoValue
  MaxSets = 1
  MaxOthers = 1
  MaxLosses = 1
  MaxTroubles = 1
PROPERTY Settles
CHECK_DEADLOCK FALSE
