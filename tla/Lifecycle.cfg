SPECIFICATION ServiceSpec
CONSTANTS
  Tenants = {t1}
  Callers = {t1, t2}
  Contents = {"sectioned", "blank", "flat", "unreadable"}
  Shape <- ShapeByName
  Workers = {w1, w2}
  Regions = {"IN"}
  ForceModes = {TRUE, FALSE}
  ErasureStores = {"qdrant", "object_store", "postgres"}
  Faults = {"crash", "postgres", "embedder", "qdrant"}
  NoRow = NoRow
  t1 = t1
  t2 = t2
  w1 = w1
  w2 = w2
INVARIANTS
  TypeOK
  VectorsHaveSections
  OutboxMatchesTombstones
  AckedStaysSearchable
  RowTellsWhatIsKept
  QuietStoresAgree
PROPERTIES
  ErasureIsFinal
  LateVectorsAreInFlight
  IsErasableStore
  ForcedRetryRepairs
