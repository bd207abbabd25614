SPECIFICATION FairSpec
CONSTANTS
  m1 = m1
  m2 = m2
  k1 = k1
  k2 = k2
  NoKey = NoKey
  Messages = {m1}
  KeyOf <- DistinctKeys
  MaxAttempts = 2
  MaxSends = 2
  Faults = {"crash", "turn", "send", "unheard", "db", "ingest"}
  MaxFaults = 2
INVARIANTS
  SettledForCause
  RetriesAreFaults
  RunsExclusive
  QueuedOnce
PROPERTIES
  RefinesMailbox
  EveryMessageSettles
