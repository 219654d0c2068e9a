SPECIFICATION Spec
CONSTANTS
  Clients = {c1, c2}
  Paths = {fader, send, gain}
  Skipped = {gain}
  Params = {k1, k2}
  Values = {0, 1}
  Start = 0
  MaxEntries = 2
  MaxSent = 2
  c1 = c1
  c2 = c2
  fader = fader
  send = send
  gain = gain
  k1 = k1
  k2 = k2
INVARIANT GesturesOfClients
CHECK_DEADLOCK FALSE
