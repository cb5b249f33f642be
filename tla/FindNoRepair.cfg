SPECIFICATION ServiceSpec
CONSTANTS
  Tenants = {t1}
  Callers = {t1, t2}
  Contents = {"sectioned"}
  Shape <- ShapeByName
  Workers = {w1}
  Regions = {"IN"}
  ForceModes = {FALSE}
  ErasureStores = {"qdrant", "object_store", "postgres"}
  Faults = {"crash"}
  NoRow = NoRow
  t2 = t2
  t1 = t1
  w1 = w1
PROPERTIES
  RetryRepairs
