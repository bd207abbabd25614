SPECIFICATION Spec
CONSTANTS
  None = None
  Sockets = {s1, s2}
  Calls = {c1}
  Functions = {f1}
  Languages = {"node"}
  MaxConnections = 1
  Faults = {"dial"}
  MaxFaults = 2
INVARIANTS
  OneReconnectLoop
