SPECIFICATION Spec
CONSTANTS
  c1 = c1
  c2 = c2
  c3 = c3
  Clients = {c1, c2, c3}
  Cap = 1
  MaxSent = 3
  None = None
INVARIANTS
  TypeOK
  NoSendOnClosed
  FeedInOrder
PROPERTIES
  SlowClientsHarmNobody
SYMMETRY Symmetry
