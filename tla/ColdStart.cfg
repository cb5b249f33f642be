SPECIFICATION FairSpec
CONSTANTS
  Actors = {a1, a2}
  Nobody = Nobody
  Cells = {"document_store", "router", "api_key_store"}
  Keys = {"first", "second", "other"}
  KeyOwner <- OwnerByKey
  Fields = {"section_id", "doc_id", "tenant_id"}
  a1 = a1
  a2 = a2
INVARIANTS
  TypeOK
  IssuedKeysResolve
  ReportedIsProvisioned
PROPERTIES
  AreOnceCells
  LocksAreFreed
