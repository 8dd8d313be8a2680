SPECIFICATION Spec
CONSTANTS
  n1 = n1
  n2 = n2
  q1 = q1
  q2 = q2
  q3 = q3
  Replicas = {n1, n2}
  Requests = {q1, q2}
  Host <- OnePerReplica
  Keys = {page1}
  DefaultKey = page1
  MemTTL = 0
  RedisTTL = 0
  ReqTimeout = 1
  MaxClock = 3
  MaxVersion = 2
INVARIANTS
  TypeOK
PROPERTIES
  BoundedStaleness
  ReadYourWrites
