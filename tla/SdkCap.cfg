SPECIFICATION Spec
CONSTANTS
  None = None
  Sockets = {s1, s2, s3}
  Calls = {}
  Functions = {f1}
  Languages = {"node"}
  MaxConnections = 1
  Faults = {"disconnect"}
  MaxFaults = 2
INVARIANTS
  CapHolds
