SPECIFICATION FairSpec
CONSTANTS
  Paths = {s, e}
  Polled = {e}
  Growing = {e}
  Writable = {s}
  Values = {0, 1}
  Tickets = {1, 2, 3}
  MaxFaults = 1
  MaxDoings = 1
INVARIANTS SubscribedToAll ReadFromThisSession
PROPERTY Converges
CHECK_DEADLOCK FALSE
