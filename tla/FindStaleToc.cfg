SPECIFICATION ReadersSpec
CONSTANTS
  Tenants = {t1}
  Callers = {t1}
  Contents = {"sectioned"}
  Shape <- ShapeByName
  Workers = {w1}
  Regions = {r1}
  ForceModes = {FALSE}
  ErasureStores = {"qdrant"}
  Faults = {}
  NoRow = NoRow
  Readers = {q1}
  Processes = {p1}
  ProcessOf <- OneProcess
  CacheSize = 1
  t1 = t1
  w1 = w1
  r1 = r1
  q1 = q1
  p1 = p1
INVARIANTS
  AnsweredUploadIsRouted
