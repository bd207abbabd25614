SPECIFICATION Spec
CONSTANTS
  m1 = m1
  m2 = m2
  k1 = k1
  k2 = k2
  NoKey = NoKey
  Messages = {m1}
  KeyOf <- DistinctKeys
  MaxAttempts = 2
  MaxSends = 2
  Faults = {"ingest"}
  MaxFaults = 1
INVARIANTS
  AckedQueued
