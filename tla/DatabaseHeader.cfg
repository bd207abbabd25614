SPECIFICATION Spec
CONSTANTS
  t1 = t1
  t2 = t2
  i64a = i64a
  i64b = i64b
  utf8a = utf8a
  vec2a = vec2a
  vec3a = vec3a
  i64 = i64
  utf8 = utf8
  vec2 = vec2
  vec3 = vec3
  Null = Null
  Keep = Keep
  Gone = Gone
  Tables = {t1}
  Cols = {1}
  Vals = {i64a}
  Kind <- MCKind
  VectorKinds <- MCVectorKinds
  Payloads <- OneColumn
  MaxId = 2
  MaxLsn = 6
  MaxSegs = 3
  Faults = {}
  MaxFaults = 0
INVARIANTS
  Reopenable
CHECK_DEADLOCK FALSE
