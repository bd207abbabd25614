SPECIFICATION Spec
CONSTANTS
  t1 = t1
  t2 = t2
  i64a = i64a
  i64b = i64b
  utf8a = utf8a
  vec2a = vec2a
  vec3a = vec3a
  i64 = i64
  utf8 = utf8
  vec2 = vec2
  vec3 = vec3
  Null = Null
  Keep = Keep
  Gone = Gone
  Tables = {t1, t2}
  Cols = {1, 2}
  Vals = {i64a, i64b}
  Kind <- MCKind
  VectorKinds <- MCVectorKinds
  Payloads <- TwoColumns
  MaxId = 2
  MaxLsn = 5
  MaxSegs = 2
  Faults = {"manifest", "truncate"}
  MaxFaults = 1
INVARIANTS
  TypeOK
  CommittedSurvives
  CrashSafe
  FreshIdIsFree
  LsnFresh
CHECK_DEADLOCK FALSE
PROPERTIES
  RefinesStore
