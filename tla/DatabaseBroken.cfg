SPECIFICATION Spec
CONSTANTS
  t1 = t1
  t2 = t2
  i64a = i64a
  i64b = i64b
  utf8a = utf8a
  vec2a = vec2a
  vec3a = vec3a
  i64 = i64
  utf8 = utf8
  vec2 = vec2
  vec3 = vec3
  Null = Null
  Keep = Keep
  Gone = Gone
  Tables = {t1}
  Cols = {1}
  Vals = {vec2a, vec3a}
  Kind <- MCKind
  VectorKinds <- MCVectorKinds
  Payloads <- OneColumn
  MaxId = 2
  MaxLsn = 4
  MaxSegs = 3
  Faults = {"segment", "manifest", "truncate", "fsync"}
  MaxFaults = 1
INVARIANTS
  FilesIntact
CHECK_DEADLOCK FALSE
