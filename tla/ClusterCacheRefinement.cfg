SPECIFICATION Spec
CONSTANTS
  n1 = n1
  n2 = n2
  q1 = q1
  q2 = q2
  q3 = q3
  Replicas = {n1, n2}
  Requests = {q1, q2}
  Host <- OnePerReplica
  Keys = {page1}
  DefaultKey = page1
  MemTTL = 0
  RedisTTL = 1
  ReqTimeout = 0
  MaxClock = 2
  MaxVersion = 2
PROPERTIES
  ImplementsStaleReads
