SPECIFICATION FairSpec
CONSTANTS
  None = None
  Sockets = {s1, s2}
  Calls = {c1}
  Functions = {f1}
  Languages = {"node", "python"}
  MaxConnections = 1
  Faults = {"cut", "dial", "huge", "restart", "shutdown", "sdk", "disconnect"}
  MaxFaults = 2
INVARIANTS
  AnsweredForCause
  WaitersKnown
  EntriesEnd
PROPERTIES
  CapPassedLate
  CallsSettle
  Recovers
