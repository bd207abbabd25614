SPECIFICATION Spec
CONSTANTS
  MaxLsn = 8
  MaxFaults = 2
INVARIANTS
  CommitsReplayed
  LogOrdered
CHECK_DEADLOCK FALSE
