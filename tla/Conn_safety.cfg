SPECIFICATION Spec
CONSTANTS
  Paths = {p1}
  MaxId = 2
  MaxSends = 1
  MaxGen = 2
  MaxQueue = 2
  MaxWire = 2
  MaxStubs = 1
  MaxRounds = 1
  Reconnects = {TRUE, FALSE}
INVARIANTS TypeOK NoReplay LoadAccounting OnePlace
PROPERTIES AnsweredOnce GateShut
CHECK_DEADLOCK FALSE
