SPECIFICATION FairSpec
CONSTANTS
  c1 = c1
  c2 = c2
  c3 = c3
  Clients = {c1, c2}
  Cap = 1
  MaxSent = 3
  None = None
PROPERTIES
  BroadcastReturns
  ConnectionsEnd
