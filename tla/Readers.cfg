SPECIFICATION ReadersSpec
CONSTANTS
  Tenants = {t1}
  Callers = {t1}
  Contents = {"sectioned","flat"}
  Shape <- ShapeByName
  Workers = {w1}
  Regions = {r1}
  ForceModes = {FALSE}
  ErasureStores = {"qdrant"}
  Faults = {"crash","postgres","embedder","qdrant"}
  NoRow = NoRow
  Readers = {q1,q2}
  Processes = {p1}
  ProcessOf <- OneProcess
  CacheSize = 1
  t1 = t1
  w1 = w1
  r1 = r1
  q1 = q1
  q2 = q2
  p1 = p1
INVARIANTS
  ReadersTypeOK
  HiddenOnceErased
  AnswersWereReadable
VIEW ReadersView
SYMMETRY ReaderSymmetry
