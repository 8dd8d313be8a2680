SPECIFICATION FairSpec
CONSTANTS
  n1 = n1
  n2 = n2
  q1 = q1
  q2 = q2
  q3 = q3
  Replicas = {n1}
  Requests = {q1, q2, q3}
  Host <- AllOnOne
  Keys = {page1}
  DefaultKey = page1
  MemTTL = 0
  RedisTTL = 1
  ReqTimeout = 1
  MaxClock = 1
  MaxVersion = 1
INVARIANTS
  OneFlightPerKey
PROPERTIES
  EveryRequestAnswered
