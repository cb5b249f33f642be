SPECIFICATION Spec
CONSTANTS
  Tenants = {t1}
  Callers = {t1, t2}
  Contents = {"sectioned"}
  Shape <- ShapeByName
  Workers = {w1, w2}
  Regions = {"IN"}
  ForceModes = {FALSE}
  ErasureStores = {"qdrant", "object_store", "postgres"}
  Faults = {"qdrant"}
  NoRow = NoRow
  t2 = t2
  t1 = t1
  w1 = w1
  w2 = w2
INVARIANTS
  RollbackKeepsAcked
