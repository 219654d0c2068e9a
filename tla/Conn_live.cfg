SPECIFICATION FairSpec
CONSTANTS
  Paths = {p1}
  MaxId = 1
  MaxSends = 0
  MaxGen = 2
  MaxQueue = 2
  MaxWire = 2
  MaxStubs = 1
  MaxRounds = 1
  Reconnects = {TRUE, FALSE}
PROPERTIES EveryRequestAnswered LoadingEnds CloseReturns
CHECK_DEADLOCK FALSE
