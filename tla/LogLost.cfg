SPECIFICATION Spec
CONSTANTS
  MaxLsn = 6
  MaxFaults = 1
INVARIANTS
  AckedReplayed
CHECK_DEADLOCK FALSE
